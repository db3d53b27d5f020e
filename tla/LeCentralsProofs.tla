--------------------------- MODULE LeCentralsProofs ---------------------------
(***************************************************************************)
(* Proofs about the Low Energy centrals of LeCentralsMC: on Windows        *)
(* nothing of an earlier session meets the next one; over D-Bus and on     *)
(* Android the queues of jobs go on, answers end their own jobs, and what  *)
(* the application is told agrees with the state.                          *)
(*                                                                         *)
(* A behaviour is one of one back end, and the others keep their state:    *)
(* what the actions of a back end preserve holds in all of them.           *)
(***************************************************************************)
EXTENDS LeCentralsMC, SequenceCounts

-----------------------------------------------------------------------------
(* Sequences, and the calls of an application *)

LEMMA AppendParts ==
  ASSUME NEW S, NEW q \in Seq(S), NEW e \in S
  PROVE  /\ Append(q, e) \in Seq(S) /\ Len(Append(q, e)) = Len(q) + 1
         /\ Append(q, e)[Len(q) + 1] = e /\ Len(q) \in Nat
         /\ \A i \in 1..Len(q) : Append(q, e)[i] = q[i]
OBVIOUS
LEMMA TailParts ==
  ASSUME NEW S, NEW q \in Seq(S), q # <<>>
  PROVE  /\ Tail(q) \in Seq(S) /\ Head(q) = q[1] /\ Head(q) \in S
         /\ Len(q) \in Nat /\ Len(q) >= 1 /\ Len(Tail(q)) = Len(q) - 1
         /\ \A i \in 1..Len(q) - 1 : Tail(q)[i] = q[i + 1]
OBVIOUS
LEMMA FrontParts ==
  ASSUME NEW S, NEW q \in Seq(S), q # <<>>
  PROVE  /\ Front(q) \in Seq(S) /\ Last(q) = q[Len(q)] /\ Last(q) \in S
         /\ Len(q) \in Nat /\ Len(q) >= 1 /\ Len(Front(q)) = Len(q) - 1
         /\ \A i \in 1..Len(q) - 1 : Front(q)[i] = q[i]
<1>1. Len(q) \in Nat /\ Len(q) >= 1 /\ \A i \in 1..Len(q) : q[i] \in S
  OBVIOUS
<1> DEFINE n == Len(q) - 1
<1>2. n \in Nat /\ 1 \in 1..Len(q) + 1 /\ n \in 1 - 1..Len(q)
  BY <1>1
<1>3. /\ SubSeq(q, 1, n) \in Seq(S)
      /\ Len(SubSeq(q, 1, n)) = IF 1 <= n THEN n - 1 + 1 ELSE 0
      /\ \A i \in 1..n - 1 + 1 : SubSeq(q, 1, n)[i] = q[1 + i - 1]
  BY ONLY <1>2, SubSeqProperties
<1>4. /\ Front(q) \in Seq(S) /\ Len(Front(q)) = n
      /\ \A i \in 1..n : Front(q)[i] = q[1 + i - 1]
  <2>1. n - 1 + 1 = n /\ (IF 1 <= n THEN n - 1 + 1 ELSE 0) = n
    BY SMTT(30), <1>1, <1>2
  <2> QED
    BY <1>3, <2>1 DEF Front
<1>5. \A i \in 1..n : Front(q)[i] = q[i]
  <2> TAKE i \in 1..n
  <2>1. 1 + i - 1 = i
    BY <1>2
  <2> QED
    BY <1>4, <2>1
<1> QED
  BY <1>1, <1>4, <1>5 DEF Last
LEMMA SuffixParts ==
  ASSUME NEW S, NEW q \in Seq(S), NEW m \in 1..Len(q)
  PROVE  /\ SubSeq(q, m, Len(q)) \in Seq(S) /\ Len(SubSeq(q, m, Len(q))) = Len(q) - m + 1
         /\ \A k \in 1..Len(q) - m + 1 : SubSeq(q, m, Len(q))[k] = q[k + m - 1]
<1>1. Len(q) \in Nat /\ m \in Nat /\ m >= 1 /\ m <= Len(q)
  OBVIOUS
<1>2. \A k \in 1..Len(q) - m + 1 : k + m - 1 \in 1..Len(q)
  BY <1>1
<1> QED
  BY <1>1, <1>2

LEMMA PrefixParts ==
  ASSUME NEW S, NEW q \in Seq(S), NEW m \in 0..Len(q)
  PROVE  /\ SubSeq(q, 1, m) \in Seq(S) /\ Len(SubSeq(q, 1, m)) = m
         /\ \A k \in 1..m : SubSeq(q, 1, m)[k] = q[k]
<1>1. Len(q) \in Nat /\ m \in Nat /\ m <= Len(q)
  OBVIOUS
<1>2. \A k \in 1..m : k \in 1..Len(q)
  BY <1>1
<1> QED
  BY <1>1, <1>2

LEMMA RewrittenParts ==
  ASSUME NEW S, NEW n \in Nat, NEW q \in [1..n -> S]
  PROVE  q \in Seq(S) /\ Len(q) = n
OBVIOUS

LEMMA RemoveAtParts ==
  ASSUME NEW S, NEW q \in Seq(S), NEW i \in 1..Len(q)
  PROVE  /\ RemoveAt(q, i) \in Seq(S) /\ Len(RemoveAt(q, i)) = Len(q) - 1
         /\ \A k \in 1..Len(q) - 1 :
              RemoveAt(q, i)[k] = IF k < i THEN q[k] ELSE q[k + 1]
<1> DEFINE a == SubSeq(q, 1, i - 1)
           b == SubSeq(q, i + 1, Len(q))
<1>1. Len(q) \in Nat /\ i \in Nat /\ i >= 1 /\ i <= Len(q)
  OBVIOUS
<1>2. /\ a \in Seq(S) /\ Len(a) = i - 1 /\ \A k \in 1..i - 1 : a[k] = q[k]
  <2>1. \A k \in 1..i - 1 : k \in 1..Len(q)
    BY <1>1
  <2> QED
    BY <1>1, <2>1
<1>3. /\ b \in Seq(S) /\ Len(b) = Len(q) - i /\ \A k \in 1..Len(q) - i : b[k] = q[k + i]
  <2>1. \A k \in 1..Len(q) - i : k + i \in 1..Len(q)
    BY <1>1
  <2> QED
    BY <1>1, <2>1
<1> HIDE DEF a, b
<1>4. /\ a \o b \in Seq(S) /\ Len(a \o b) = (i - 1) + (Len(q) - i)
      /\ \A k \in 1..(i - 1) + (Len(q) - i) :
           (a \o b)[k] = IF k <= i - 1 THEN a[k] ELSE b[k - (i - 1)]
  BY SMTT(30), <1>1, <1>2, <1>3
<1>5. (i - 1) + (Len(q) - i) = Len(q) - 1
  BY <1>1
<1>6. ASSUME NEW k \in 1..Len(q) - 1
      PROVE  (a \o b)[k] = IF k < i THEN q[k] ELSE q[k + 1]
  <2>1. CASE k < i
    <3>1. k <= i - 1 /\ k \in 1..i - 1
      BY <1>1, <2>1
    <3> QED
      BY <1>2, <1>4, <1>5, <2>1, <3>1
  <2>2. CASE ~(k < i)
    <3>1. ~(k <= i - 1) /\ k - (i - 1) \in 1..Len(q) - i /\ (k - (i - 1)) + i = k + 1
      BY <1>1, <2>2
    <3>2. b[k - (i - 1)] = q[k + 1]
      BY <1>3, <3>1
    <3> QED
      BY <1>4, <1>5, <2>2, <3>1, <3>2
  <2> QED
    BY <2>1, <2>2
<1>7. RemoveAt(q, i) = a \o b
  BY DEF RemoveAt, a, b
<1> QED
  BY <1>4, <1>5, <1>6, <1>7

\* The first place of those in I.
LEMMA FirstOf ==
  ASSUME NEW I \in SUBSET Nat, I # {}
  PROVE  Min(I) \in I /\ \A i \in I : Min(I) <= i
BY LeastNumber DEF Min

\* The sequence of a set's members, of which a walk takes one after the other.
LEMMA SetToSeqParts ==
  ASSUME NEW S, IsFiniteSet(S)
  PROVE  /\ SetToSeq(S) \in Seq(S) /\ Len(SetToSeq(S)) = Cardinality(S)
         /\ Cardinality(S) \in Nat
         /\ \A s \in S : \E i \in 1..Cardinality(S) : SetToSeq(S)[i] = s
<1> DEFINE n == Cardinality(S)
           q == SetToSeq(S)
<1>1. n \in Nat /\ ExistsBijection(1..n, S)
  BY FS_CardinalityType
<1>2. \E g \in [1..n -> S] : IsInjective(g)
  BY <1>1 DEF ExistsBijection, Bijection, Injection
<1>3. q \in [1..n -> S] /\ IsInjective(q)
  BY <1>2 DEF SetToSeq
<1> HIDE DEF q, n
<1>4. q \in Injection(1..n, S) /\ Cardinality(1..n) = n
  <2>1. Cardinality(1..n) = n
    BY <1>1, FS_Interval
  <2> QED
    BY <1>3, <2>1 DEF Injection
<1>5. q \in Surjection(1..n, S)
  BY <1>4, FS_Injection DEF n
<1>6. q \in Seq(S) /\ Len(q) = n
  BY <1>1, <1>3, RewrittenParts
<1> QED
  BY <1>1, <1>5, <1>6 DEF Surjection, q, n

\* What a step keeps true of the elements of a recursion, all of them have.
LEMMA RecursionKeeps ==
  ASSUME NEW X, NEW n \in Nat, NEW f, f[0] \in X, \A k \in 1..n : f[k - 1] \in X => f[k] \in X
  PROVE  \A k \in 0..n : f[k] \in X
<1> DEFINE T == {k \in Nat : k <= n => f[k] \in X}
<1>1. 0 \in T
  OBVIOUS
<1>2. ASSUME NEW k \in Nat, k \in T
      PROVE  k + 1 \in T
  <2>1. CASE k + 1 <= n
    <3>1. k + 1 \in 1..n /\ k + 1 - 1 = k /\ k <= n
      BY <2>1
    <3> QED
      BY <1>2, <3>1
  <2>2. CASE ~(k + 1 <= n)
    BY <2>2
  <2> QED
    BY <2>1, <2>2
<1> HIDE DEF T
<1>3. Nat \subseteq T
  BY <1>1, <1>2, SetInduction
<1> QED
  BY <1>3 DEF T

\* Kept() takes nothing else from the queue.
LEMMA KeptParts ==
  ASSUME NEW S, NEW q \in Seq(S), NEW I
  PROVE  /\ Kept(q, I) \in Seq(S)
         /\ \A k \in 1..Len(Kept(q, I)) : \E i \in I \cap (1..Len(q)) : Kept(q, I)[k] = q[i]
         /\ Len(Kept(q, I)) <= Len(q)
<1> DEFINE n == Len(q)
           X == {r \in Seq(S) : \A k \in 1..Len(r) : \E i \in I \cap (1..n) : r[k] = q[i]}
           step == [k \in 1..n |-> [r \in X |-> IF k \in I THEN Append(r, q[k]) ELSE r]]
           P(f) == f = [k \in 0..n |-> IF k = 0 THEN <<>>
                                       ELSE IF k \in I THEN Append(f[k - 1], q[k]) ELSE f[k - 1]]
           kept == CHOOSE f : P(f)
<1>1. n \in Nat /\ \A k \in 1..n : q[k] \in S
  OBVIOUS
<1>2. <<>> \in X
  OBVIOUS
<1>3. ASSUME NEW k \in 1..n, NEW r \in X
      PROVE  (IF k \in I THEN Append(r, q[k]) ELSE r) \in X
  <2>1. CASE k \in I
    <3>1. /\ Append(r, q[k]) \in Seq(S) /\ Len(Append(r, q[k])) = Len(r) + 1
          /\ Append(r, q[k])[Len(r) + 1] = q[k] /\ Len(r) \in Nat
          /\ \A i \in 1..Len(r) : Append(r, q[k])[i] = r[i]
      BY <1>1, <1>3, AppendParts
    <3>2. \A j \in 1..Len(r) + 1 : j \in 1..Len(r) \/ j = Len(r) + 1
      BY <3>1
    <3>3. \A j \in 1..Len(r) + 1 : \E i \in I \cap (1..n) : Append(r, q[k])[j] = q[i]
      BY <1>3, <2>1, <3>1, <3>2
    <3> QED
      BY <2>1, <3>1, <3>3
  <2> QED
    BY <1>3, <2>1
<1> HIDE DEF X
<1>4. step \in [1..n -> [X -> X]] /\ \A k \in 1..n : \A r \in X :
        step[k][r] = IF k \in I THEN Append(r, q[k]) ELSE r
  BY <1>3
<1> HIDE DEF step
<1>5. PICK f : f \in [0..n -> X] /\ f[0] = <<>> /\ \A k \in 1..n : f[k] = step[k][f[k - 1]]
  <2>1. n \in Nat /\ <<>> \in X /\ step \in StepsOf(n, X)
    BY <1>1, <1>2, <1>4 DEF StepsOf
  <2>2. \E f : f \in [0..n -> X] /\ GoesOn(f, <<>>, step, n)
    BY ONLY <2>1, RecursionUpTo
  <2> QED
    BY <2>2 DEF GoesOn
<1>6. P(f)
  <2>1. \A k \in 0..n :
          f[k] = IF k = 0 THEN <<>> ELSE IF k \in I THEN Append(f[k - 1], q[k]) ELSE f[k - 1]
    <3> TAKE k \in 0..n
    <3>1. k # 0 => k \in 1..n /\ k - 1 \in 0..n
      BY <1>1
    <3> QED
      BY <1>4, <1>5, <3>1
  <2>2. f = [k \in 0..n |-> f[k]]
    BY <1>5
  <2> QED
    BY ONLY <2>1, <2>2, Zenon
<1>7. P(kept)
  BY <1>6, Zenon
<1> HIDE DEF kept
<1>8. /\ kept[0] = <<>>
      /\ \A k \in 1..n : kept[k] = IF k \in I THEN Append(kept[k - 1], q[k]) ELSE kept[k - 1]
  <2>1. 0 \in 0..n /\ \A k \in 1..n : k \in 0..n /\ k # 0
    BY <1>1
  <2> HIDE DEF n
  <2> QED
    BY ONLY <1>7, <2>1
<1>9. \A k \in 0..n : kept[k] \in X
  <2>1. kept[0] \in X /\ \A k \in 1..n : kept[k - 1] \in X => kept[k] \in X
    BY <1>2, <1>3, <1>8
  <2> QED
    BY <1>1, <2>1, RecursionKeeps
<1>10. \A k \in 0..n : Len(kept[k]) <= k
  <2> DEFINE Y == {r \in X : TRUE}
             T == {k \in Nat : k <= n => Len(kept[k]) <= k}
  <2>1. 0 \in T
    BY <1>8
  <2>2. ASSUME NEW k \in Nat, k \in T
        PROVE  k + 1 \in T
    <3>1. CASE k + 1 <= n
      <4>1. k + 1 \in 1..n /\ k + 1 - 1 = k /\ k \in 0..n
        BY <3>1
      <4>2. kept[k] \in Seq(S) /\ Len(kept[k]) \in Nat /\ Len(kept[k]) <= k
        BY <1>9, <2>2, <4>1 DEF X
      <4>3. kept[k + 1] = IF k + 1 \in I THEN Append(kept[k], q[k + 1]) ELSE kept[k]
        BY <1>8, <4>1
      <4>4. Len(kept[k + 1]) <= k + 1
        BY <1>1, <4>1, <4>2, <4>3
      <4> QED
        BY <4>4
    <3> QED
      BY <3>1
  <2> HIDE DEF T
  <2>3. Nat \subseteq T
    BY <2>1, <2>2, SetInduction
  <2> QED
    BY <2>3 DEF T
<1>11. Kept(q, I) = kept[n]
  BY DEF Kept, kept
<1> QED
  BY <1>1, <1>9, <1>10, <1>11 DEF X

LEMMA ConcatParts ==
  ASSUME NEW S, NEW r \in Seq(S), NEW t \in Seq(S), NEW x, x = r \o t
  PROVE  /\ x \in Seq(S) /\ Len(x) = Len(r) + Len(t) /\ Len(r) \in Nat /\ Len(t) \in Nat
         /\ \A h \in 1..Len(r) : h \in 1..Len(x) /\ x[h] = r[h]
         /\ \A h \in 1..Len(t) : Len(r) + h \in 1..Len(x) /\ x[Len(r) + h] = t[h]
         /\ \A h \in 1..Len(x) :
              h \in 1..Len(r) \/ (h - Len(r) \in 1..Len(t) /\ x[h] = t[h - Len(r)])
<1>1. /\ x \in Seq(S) /\ Len(x) = Len(r) + Len(t) /\ Len(r) \in Nat /\ Len(t) \in Nat
      /\ \A h \in 1..Len(r) + Len(t) : x[h] = IF h <= Len(r) THEN r[h] ELSE t[h - Len(r)]
  OBVIOUS
<1>2. \A h \in 1..Len(r) : h \in 1..Len(x) /\ x[h] = r[h]
  BY <1>1
<1>3. ASSUME NEW h \in 1..Len(t)
      PROVE  Len(r) + h \in 1..Len(x) /\ x[Len(r) + h] = t[h]
  <2>1. Len(r) + h \in 1..Len(r) + Len(t) /\ ~(Len(r) + h <= Len(r)) /\ Len(r) + h - Len(r) = h
    BY <1>1
  <2> QED
    BY <1>1, <2>1
<1>4. ASSUME NEW h \in 1..Len(x), h \notin 1..Len(r)
      PROVE  h - Len(r) \in 1..Len(t) /\ x[h] = t[h - Len(r)]
  <2>1. h \in 1..Len(r) + Len(t) /\ ~(h <= Len(r)) /\ h - Len(r) \in 1..Len(t)
    BY <1>1, <1>4
  <2> QED
    BY <1>1, <2>1
<1> QED
  BY <1>1, <1>2, <1>3, <1>4

\* FlattenSeq() holds what its parts hold.
LEMMA FlattenParts ==
  ASSUME NEW S, NEW ss \in Seq(Seq(S))
  PROVE  LET r == FlattenSeq(ss)
         IN  /\ r \in Seq(S)
             /\ \A i \in 1..Len(ss) : \A k \in 1..Len(ss[i]) : \E h \in 1..Len(r) : r[h] = ss[i][k]
             /\ \A h \in 1..Len(r) : \E i \in 1..Len(ss) : \E k \in 1..Len(ss[i]) : r[h] = ss[i][k]
<1> DEFINE n == Len(ss)
           step == [k \in 1..n - 1 |-> [r \in Seq(S) |-> r \o ss[k + 1]]]
           P(f) == f = [i \in 1..n |-> IF i = 1 THEN ss[i] ELSE f[i - 1] \o ss[i]]
           flat == CHOOSE f : P(f)
           Has(r, m) ==
             /\ \A i \in 1..m : \A k \in 1..Len(ss[i]) : \E h \in 1..Len(r) : r[h] = ss[i][k]
             /\ \A h \in 1..Len(r) : \E i \in 1..m : \E k \in 1..Len(ss[i]) : r[h] = ss[i][k]
<1>1. n \in Nat /\ \A k \in 1..n : ss[k] \in Seq(S) /\ Len(ss[k]) \in Nat
  OBVIOUS
<1>2. CASE n = 0
  <2>1. FlattenSeq(ss) = ss /\ ss = <<>>
    BY <1>2 DEF FlattenSeq
  <2> QED
    BY <1>2, <2>1
<1>3. CASE n # 0
  <2>1. n - 1 \in Nat /\ 1 \in 1..n /\ \A k \in 1..n - 1 : k + 1 \in 1..n
    BY <1>1, <1>3
  <2>2. step \in StepsOf(n - 1, Seq(S)) /\ \A k \in 1..n - 1 : \A r \in Seq(S) :
          step[k][r] = r \o ss[k + 1]
    BY <1>1, <2>1 DEF StepsOf
  <2> HIDE DEF step
  <2>3. PICK f : /\ f \in [0..n - 1 -> Seq(S)] /\ f[0] = ss[1]
                 /\ \A k \in 1..n - 1 : f[k] = step[k][f[k - 1]]
    <3>1. ss[1] \in Seq(S)
      BY <1>1, <2>1
    <3>2. \E f : f \in [0..n - 1 -> Seq(S)] /\ GoesOn(f, ss[1], step, n - 1)
      BY ONLY <2>1, <2>2, <3>1, RecursionUpTo
    <3> QED
      BY <3>2 DEF GoesOn
  <2>4. \E g : P(g)
    <3> DEFINE g == [i \in 1..n |-> f[i - 1]]
    <3>1. \A i \in 1..n : g[i] = IF i = 1 THEN ss[i] ELSE g[i - 1] \o ss[i]
      <4> TAKE i \in 1..n
      <4>1. CASE i = 1
        BY <2>3, <4>1
      <4>2. CASE i # 1
        <5>1. i - 1 \in 1..n - 1 /\ i - 1 + 1 = i /\ i - 1 - 1 \in 0..n - 1 /\ i - 1 \in 1..n
          BY <1>1, <4>2
        <5>2. f[i - 1] = f[i - 1 - 1] \o ss[i]
          BY <2>2, <2>3, <5>1
        <5> QED
          BY <4>2, <5>1, <5>2
      <4> QED
        BY <4>1, <4>2
    <3>2. g = [i \in 1..n |-> g[i]]
      OBVIOUS
    <3> HIDE DEF g
    <3>3. P(g)
      BY ONLY <3>1, <3>2, Zenon
    <3> QED
      BY <3>3
  <2>5. P(flat)
    BY <2>4, Zenon
  <2> HIDE DEF flat
  <2>6. \A i \in 1..n : flat[i] = IF i = 1 THEN ss[i] ELSE flat[i - 1] \o ss[i]
    <3> HIDE DEF n
    <3> QED
      BY ONLY <2>5
  <2>7. ASSUME NEW m \in 1..n, m # 1, flat[m - 1] \in Seq(S), Has(flat[m - 1], m - 1)
        PROVE  flat[m] \in Seq(S) /\ Has(flat[m], m)
    <3> DEFINE r == flat[m - 1]
               t == ss[m]
               x == r \o t
    <3>1. /\ x \in Seq(S)
          /\ \A h \in 1..Len(r) : h \in 1..Len(x) /\ x[h] = r[h]
          /\ \A h \in 1..Len(t) : Len(r) + h \in 1..Len(x) /\ x[Len(r) + h] = t[h]
          /\ \A h \in 1..Len(x) :
               h \in 1..Len(r) \/ (h - Len(r) \in 1..Len(t) /\ x[h] = t[h - Len(r)])
      <4>1. r \in Seq(S) /\ t \in Seq(S)
        BY <1>1, <2>7
      <4>2. x = r \o t
        OBVIOUS
      <4> HIDE DEF r, t, x
      <4>3. x \in Seq(S)
        BY ONLY <4>1, <4>2, ConcatParts
      <4>4. \A h \in 1..Len(r) : h \in 1..Len(x) /\ x[h] = r[h]
        BY ONLY <4>1, <4>2, ConcatParts
      <4>5. \A h \in 1..Len(t) : Len(r) + h \in 1..Len(x) /\ x[Len(r) + h] = t[h]
        BY ONLY <4>1, <4>2, ConcatParts
      <4>6. \A h \in 1..Len(x) :
              h \in 1..Len(r) \/ (h - Len(r) \in 1..Len(t) /\ x[h] = t[h - Len(r)])
        BY ONLY <4>1, <4>2, ConcatParts
      <4> QED
        BY <4>3, <4>4, <4>5, <4>6
    <3>2. /\ \A i \in 1..m - 1 : \A k \in 1..Len(ss[i]) : \E h \in 1..Len(r) : r[h] = ss[i][k]
          /\ \A h \in 1..Len(r) : \E i \in 1..m - 1 : \E k \in 1..Len(ss[i]) : r[h] = ss[i][k]
      BY <2>7
    <3>3. \A i \in 1..m : i \in 1..m - 1 \/ i = m
      OBVIOUS
    <3>4. \A i \in 1..m - 1 : i \in 1..m
      OBVIOUS
    <3>5. flat[m] = x
      BY <2>6, <2>7
    <3> HIDE DEF x, r
    <3>6. ASSUME NEW i \in 1..m, NEW k \in 1..Len(ss[i])
          PROVE  \E h \in 1..Len(x) : x[h] = ss[i][k]
      <4>1. CASE i \in 1..m - 1
        <5>1. PICK h \in 1..Len(r) : r[h] = ss[i][k]
          BY <3>2, <3>6, <4>1
        <5> QED
          BY <3>1, <5>1
      <4>2. CASE i = m
        BY <3>1, <3>6, <4>2
      <4> QED
        BY <3>3, <4>1, <4>2
    <3>7. ASSUME NEW h \in 1..Len(x)
          PROVE  \E i \in 1..m : \E k \in 1..Len(ss[i]) : x[h] = ss[i][k]
      <4>1. CASE h \in 1..Len(r)
        <5>1. PICK i \in 1..m - 1 : \E k \in 1..Len(ss[i]) : r[h] = ss[i][k]
          BY <3>2, <4>1
        <5>2. i \in 1..m /\ x[h] = r[h]
          BY <3>1, <3>4, <4>1
        <5> QED
          BY <5>1, <5>2
      <4>2. CASE h - Len(r) \in 1..Len(t) /\ x[h] = t[h - Len(r)]
        <5>1. h - Len(r) \in 1..Len(ss[m]) /\ x[h] = ss[m][h - Len(r)] /\ m \in 1..m
          BY <4>2
        <5> QED
          BY <5>1
      <4> QED
        BY <3>1, <4>1, <4>2
    <3> QED
      BY <3>1, <3>5, <3>6, <3>7
  <2> DEFINE T == {k \in Nat : k + 1 <= n => flat[k + 1] \in Seq(S) /\ Has(flat[k + 1], k + 1)}
  <2>8. 0 \in T
    BY SMTT(30), <1>1, <2>1, <2>6
  <2>9. ASSUME NEW k \in Nat, k \in T
        PROVE  k + 1 \in T
    <3>1. CASE k + 1 + 1 <= n
      <4>1. k + 1 + 1 \in 1..n /\ k + 1 + 1 # 1 /\ k + 1 + 1 - 1 = k + 1 /\ k + 1 <= n
        BY <1>1, <3>1
      <4> HIDE DEF Has
      <4> QED
        BY <2>7, <2>9, <4>1
    <3> QED
      BY <3>1
  <2> HIDE DEF T, Has
  <2>10. Nat \subseteq T
    BY <2>8, <2>9, SetInduction
  <2>11. flat[n] \in Seq(S) /\ Has(flat[n], n)
    <3>1. n - 1 \in T /\ n - 1 + 1 = n
      BY <2>1, <2>10
    <3> QED
      BY <2>1, <3>1 DEF T
  <2>12. FlattenSeq(ss) = flat[n]
    BY <1>3 DEF FlattenSeq, flat
  <2>13. /\ \A i \in 1..n : \A k \in 1..Len(ss[i]) : \E h \in 1..Len(flat[n]) : flat[n][h] = ss[i][k]
         /\ \A h \in 1..Len(flat[n]) : \E i \in 1..n : \E k \in 1..Len(ss[i]) : flat[n][h] = ss[i][k]
    BY <2>11 DEF Has
  <2> DEFINE r == FlattenSeq(ss)
  <2>14. /\ r \in Seq(S)
         /\ \A i \in 1..Len(ss) : \A k \in 1..Len(ss[i]) : \E h \in 1..Len(r) : r[h] = ss[i][k]
         /\ \A h \in 1..Len(r) : \E i \in 1..Len(ss) : \E k \in 1..Len(ss[i]) : r[h] = ss[i][k]
    BY ONLY <2>11, <2>12, <2>13
  <2> HIDE DEF r
  <2> QED
    BY <2>14 DEF r
<1> QED
  BY <1>2, <1>3

LEMMA AnsweredParts ==
  ASSUME NEW calls \in Seq(LeResults), NEW i, NEW result \in LeResults
  PROVE  Answered(calls, i, result) \in Seq(LeResults)
<1>1. DOMAIN calls = 1..Len(calls) /\ Len(calls) \in Nat /\ calls \in [1..Len(calls) -> LeResults]
  OBVIOUS
<1>2. Answered(calls, i, result) \in [1..Len(calls) -> LeResults]
  BY <1>1 DEF Answered
<1> QED
  BY <1>1, <1>2, RewrittenParts

-----------------------------------------------------------------------------
(* WinrtCentral: what a session leaves behind is not heard in the next one. *)

(***************************************************************************)
(* disconnectFromDevice() and the loss of the link do not overtake a       *)
(* connection handler's report or a registration for value changes that is *)
(* being waited for, no service handler fails, and services are discovered *)
(* when the discovery before is over.                                      *)
(***************************************************************************)
WrUnhurried ==
  \A s \in WrScenarios :
    {"closeRace", "lossRace", "detailsFail", "quick"} \cap s.may = {}

WrFields ==
  {"scenario", "state", "services", "calls", "device", "status", "values", "session",
   "handlers", "wanted", "own", "posted", "waits", "blocked", "details", "finding",
   "walks", "accepted"}
WrSignals == [what : {"connected", "failed", "charList"}, about : Nat \cup LeServices]
WrWaits == [call : Nat, service : LeServices, listed : BOOLEAN]
WrHandles == [service : LeServices, listed : BOOLEAN]
WrShape(w) ==
  /\ DOMAIN w = WrFields /\ w.scenario \in WrScenarios
  /\ w.state \in ControllerStates \ {"Closing"}
  /\ w.services \in [LeServices -> ServiceStates] /\ w.values \in [LeServices -> Nat]
  /\ w.calls \in Seq(LeResults) /\ w.session \in Nat /\ w.own \in Nat
  /\ w.handlers \in Seq({"connecting", "aborting", "silent", "over"})
  /\ Len(w.handlers) = w.session
  /\ w.posted \in Seq(WrSignals) /\ w.waits \in Seq(WrWaits)
  /\ w.details \subseteq WrHandles /\ w.blocked \subseteq WrHandles

\* A controller that says it is connected has the session that is wanted.  A report
\* of a connection handler is that of the last one, for which the controller waits,
\* and there is one of them only.
WrReport(w, j) == j \in 1..Len(w.posted) /\ w.posted[j].what # "charList"
WrSession(w) ==
  /\ w.state \in WrUp <=> w.status
  /\ w.status => w.device /\ w.own = w.wanted
  /\ w.state = "Connecting" => w.wanted = w.session
  /\ \A i \in 1..Len(w.handlers) : w.handlers[i] = "connecting" =>
       i = w.session /\ w.state = "Connecting" /\ \A j \in Nat : ~WrReport(w, j)
  /\ \A j \in Nat : WrReport(w, j) =>
       /\ w.posted[j].about = w.session /\ w.state = "Connecting"
       /\ \A k \in Nat : WrReport(w, k) => k = j

\* What waits for a service that is listed will find it in the list.
WrListed(w) ==
  /\ \A i \in 1..Len(w.waits) :
       w.waits[i].listed => w.services[w.waits[i].service] # "none"
  /\ \A h \in w.details \cup w.blocked : h.listed => w.services[h.service] # "none"
  /\ \A j \in 1..Len(w.posted) :
       w.posted[j].what = "charList" => w.posted[j].about \in LeServices

\* Services are listed, registrations made and waited for in a session that
\* discovers or has discovered; while WinRT has not answered there are none.
WrFresh(w) ==
  /\ w.services = NoServices /\ w.values = [s \in LeServices |-> 0]
  /\ \A i \in 1..Len(w.waits) : w.waits[i].call # 0
WrBegins(w) == w.state = "Discovering" /\ w.finding # {}
WrServices(w) ==
  /\ w.state \notin {"Discovering", "Discovered"} \/ WrBegins(w) => WrFresh(w)
  /\ WrBegins(w) => w.walks = {} /\ \A i, j \in w.finding : i = j
  /\ \A s \in LeServices : w.values[s] # 0 => w.values[s] = w.own
  /\ w.state = "Discovered" => \A s \in LeServices : w.services[s] # "none"

\* A walk through the services that WinRT has found will list those that are not.
WrLeft(w, walk) ==
  LeServices # {} =>
    /\ DOMAIN walk = {"session", "left"} /\ walk.left \in Seq(LeServices)
    /\ \A s \in LeServices : w.services[s] = "none" =>
         \E j \in 1..Len(walk.left) : walk.left[j] = s
WrWalks(w) == w.state = "Discovering" => \A walk \in w.walks : WrLeft(w, walk)

WrGood(w) ==
  WrShape(w) /\ WrSession(w) /\ WrListed(w) /\ WrServices(w) /\ WrWalks(w)

\* The fields that the parts of WrGood speak of.
WrSameSession(r, w) ==
  /\ r.state = w.state /\ r.session = w.session /\ r.status = w.status
  /\ r.device = w.device /\ r.own = w.own /\ r.wanted = w.wanted
WrSameServices(r, w) ==
  /\ r.state = w.state /\ r.services = w.services /\ r.values = w.values
  /\ r.waits = w.waits /\ r.finding = w.finding /\ r.walks = w.walks /\ r.own = w.own
WrSameHandles(r, w) ==
  /\ r.services = w.services /\ r.waits = w.waits /\ r.details = w.details
  /\ r.blocked = w.blocked
LEMMA WrSame ==
  ASSUME NEW w, WrGood(w), NEW r
  PROVE  /\ WrSameSession(r, w) /\ r.handlers = w.handlers /\ r.posted = w.posted =>
              WrSession(r)
         /\ WrSameServices(r, w) => WrServices(r) /\ WrWalks(r)
         /\ WrSameHandles(r, w) /\ r.posted = w.posted => WrListed(r)
<1>1. WrSameSession(r, w) /\ r.handlers = w.handlers /\ r.posted = w.posted =>
        WrSession(r)
  BY DEF WrGood, WrSession, WrReport, WrSameSession
<1>2. WrSameServices(r, w) => WrServices(r)
  BY DEF WrGood, WrServices, WrFresh, WrBegins, WrSameServices
<1>3. WrSameServices(r, w) => WrWalks(r)
  BY DEF WrGood, WrWalks, WrLeft, WrSameServices
<1>4. WrSameHandles(r, w) /\ r.posted = w.posted => WrListed(r)
  BY DEF WrGood, WrListed, WrSameHandles
<1> QED
  BY <1>1, <1>2, <1>3, <1>4

LEMMA WrCalm ==
  ASSUME WrUnhurried, WrGood(wr)
  PROVE  ~WrMay("closeRace") /\ ~WrMay("lossRace") /\ ~WrMay("detailsFail") /\ ~WrMay("quick")
BY DEF WrUnhurried, WrGood, WrShape, WrMay

LEMMA WrInitInv == WrInit => WrGood(wr)
<1> SUFFICES ASSUME WrInit PROVE WrGood(wr)
  OBVIOUS
<1>1. /\ DOMAIN wr = WrFields /\ wr.scenario \in WrScenarios
      /\ wr.state = "Unconnected" /\ wr.services = NoServices /\ wr.calls = <<>>
      /\ wr.device = FALSE /\ wr.status = FALSE
      /\ wr.values = [s \in LeServices |-> 0]
      /\ wr.session = 0 /\ wr.handlers = <<>> /\ wr.own = 0
      /\ wr.posted = <<>> /\ wr.waits = <<>> /\ wr.blocked = {}
      /\ wr.details = {} /\ wr.finding = {} /\ wr.walks = {}
  BY DEF WrInit, WrFields
<1>2. WrShape(wr)
  BY <1>1 DEF WrShape, ControllerStates, ServiceStates, NoServices
<1>3. WrSession(wr)
  BY <1>1 DEF WrSession, WrReport, WrUp
<1>4. WrListed(wr)
  BY <1>1 DEF WrListed
<1>5. WrServices(wr) /\ WrWalks(wr)
  BY <1>1 DEF WrServices, WrFresh, WrBegins, WrWalks
<1> QED
  BY <1>2, <1>3, <1>4, <1>5 DEF WrGood

\* A new session: nothing is listed, and no report on its way.
LEMMA WrConnectInv ==
  ASSUME WrGood(wr), WrConnect
  PROVE  WrGood(wr')
<1>1. /\ wr.state = "Unconnected" /\ WrShape(wr)
      /\ DOMAIN wr' = WrFields /\ wr'.scenario = wr.scenario
      /\ wr'.state = "Connecting" /\ wr'.session = wr.session + 1
      /\ wr'.wanted = wr.session + 1
      /\ wr'.handlers = Append(wr.handlers, "connecting")
      /\ wr'.services = wr.services /\ wr'.calls = wr.calls /\ wr'.device = wr.device
      /\ wr'.status = wr.status /\ wr'.values = wr.values /\ wr'.own = wr.own
      /\ wr'.posted = wr.posted /\ wr'.waits = wr.waits /\ wr'.blocked = wr.blocked
      /\ wr'.details = wr.details /\ wr'.finding = wr.finding /\ wr'.walks = wr.walks
  BY DEF WrConnect, MayConnect, WrGood, WrShape, WrFields
<1>2. /\ wr'.handlers \in Seq({"connecting", "aborting", "silent", "over"})
      /\ Len(wr'.handlers) = wr'.session
      /\ \A i \in 1..Len(wr.handlers) : wr'.handlers[i] = wr.handlers[i]
  BY <1>1, AppendParts DEF WrShape
<1>3. WrShape(wr')
  BY <1>1, <1>2 DEF WrShape, ControllerStates
<1>4. \A j \in Nat : ~WrReport(wr', j)
  BY <1>1 DEF WrGood, WrSession, WrReport
<1>5. \A i \in 1..Len(wr'.handlers) : wr'.handlers[i] = "connecting" => i = wr'.session
  BY <1>1, <1>2 DEF WrGood, WrSession, WrShape
<1>6. WrSession(wr')
  BY <1>1, <1>4, <1>5 DEF WrGood, WrSession, WrUp
<1>7. WrListed(wr')
  BY <1>1 DEF WrGood, WrListed
<1>8. WrServices(wr') /\ WrWalks(wr')
  BY <1>1 DEF WrGood, WrServices, WrFresh, WrBegins, WrWalks
<1> QED
  BY <1>3, <1>6, <1>7, <1>8 DEF WrGood

\* The end of a session, while no registration waits, leaves nothing of it.
WrLetGo(r, w) ==
  /\ DOMAIN r = WrFields /\ r.scenario = w.scenario
  /\ r.state = "Unconnected" /\ r.services = NoServices
  /\ r.calls = Dropped(w.calls, DOMAIN w.calls)
  /\ r.device = FALSE /\ r.status = FALSE /\ r.values = [s \in LeServices |-> 0]
  /\ r.session = w.session /\ r.own = w.own /\ r.posted = w.posted
  /\ r.waits = [i \in DOMAIN w.waits |-> [w.waits[i] EXCEPT !.listed = FALSE]]
  /\ r.details = {[h EXCEPT !.listed = FALSE] : h \in w.details}
  /\ r.blocked = {[h EXCEPT !.listed = FALSE] : h \in w.blocked}
  /\ r.finding = w.finding /\ r.walks = w.walks
LEMMA WrEndGood ==
  ASSUME WrGood(wr), ~WrRegistering, NEW r, WrLetGo(r, wr),
         r.handlers \in Seq({"connecting", "aborting", "silent", "over"}),
         Len(r.handlers) = Len(wr.handlers),
         \A i \in 1..Len(r.handlers) : r.handlers[i] # "connecting",
         \A j \in Nat : ~WrReport(wr, j)
  PROVE  WrGood(r)
<1>1. \A i \in 1..Len(wr.waits) :
        /\ r.waits[i] \in WrWaits /\ ~r.waits[i].listed
        /\ r.waits[i].call = wr.waits[i].call
  <2> TAKE i \in 1..Len(wr.waits)
  <2>1. wr.waits[i] \in WrWaits /\ i \in DOMAIN wr.waits
    BY DEF WrGood, WrShape
  <2>2. r.waits[i] = [wr.waits[i] EXCEPT !.listed = FALSE]
    BY <2>1 DEF WrLetGo
  <2> QED
    BY <2>1, <2>2 DEF WrWaits
<1>2. r.waits \in Seq(WrWaits) /\ Len(r.waits) = Len(wr.waits)
  <2>1. DOMAIN wr.waits = 1..Len(wr.waits) /\ Len(wr.waits) \in Nat
    BY DEF WrGood, WrShape
  <2>2. r.waits \in [1..Len(wr.waits) -> WrWaits]
    BY <1>1, <2>1 DEF WrLetGo
  <2> QED
    BY <2>1, <2>2, RewrittenParts
<1>3. r.calls \in Seq(LeResults)
  <2>1. DOMAIN wr.calls = 1..Len(wr.calls) /\ Len(wr.calls) \in Nat
        /\ \A i \in 1..Len(wr.calls) : wr.calls[i] \in LeResults
    BY DEF WrGood, WrShape
  <2>2. r.calls \in [1..Len(wr.calls) -> LeResults]
    BY <2>1 DEF WrLetGo, Dropped, LeResults
  <2> QED
    BY <2>1, <2>2, RewrittenParts
<1>4. /\ r.details \subseteq WrHandles /\ r.blocked \subseteq WrHandles
      /\ \A h \in r.details \cup r.blocked : ~h.listed
  <2>1. \A h \in WrHandles :
          LET e == [h EXCEPT !.listed = FALSE] IN e \in WrHandles /\ ~e.listed
    BY DEF WrHandles
  <2>2. wr.details \subseteq WrHandles /\ wr.blocked \subseteq WrHandles
    BY DEF WrGood, WrShape
  <2>3. /\ \A e \in r.details : \E h \in wr.details : e = [h EXCEPT !.listed = FALSE]
        /\ \A e \in r.blocked : \E h \in wr.blocked : e = [h EXCEPT !.listed = FALSE]
    BY DEF WrLetGo
  <2> QED
    BY <2>1, <2>2, <2>3
<1>5. WrShape(r)
  BY <1>2, <1>3, <1>4 DEF WrLetGo, WrGood, WrShape, NoServices, ServiceStates,
                          ControllerStates
<1>6. WrSession(r)
  BY DEF WrLetGo, WrGood, WrSession, WrReport, WrUp
<1>7. WrListed(r)
  BY <1>1, <1>2, <1>4 DEF WrLetGo, WrGood, WrListed
<1>8. WrServices(r) /\ WrWalks(r)
  <2>1. \A i \in 1..Len(r.waits) : r.waits[i].call # 0
    <3>1. DOMAIN wr.waits = 1..Len(wr.waits)
      BY DEF WrGood, WrShape
    <3> QED
      BY <1>1, <1>2, <3>1 DEF WrRegistering
  <2> QED
    BY <2>1 DEF WrLetGo, WrServices, WrFresh, WrBegins, WrWalks
<1> QED
  BY <1>5, <1>6, <1>7, <1>8 DEF WrGood

LEMMA WrDisconnectInv ==
  ASSUME WrUnhurried, WrGood(wr), WrDisconnect
  PROVE  WrGood(wr')
<1>1. ~WrReported /\ ~WrRegistering /\ wr' = WrClose(wr)
  BY WrCalm DEF WrDisconnect
<1>2. \A j \in Nat : ~WrReport(wr, j)
  <2>1. /\ DOMAIN wr.posted = 1..Len(wr.posted)
        /\ \A j \in 1..Len(wr.posted) : wr.posted[j] \in WrSignals
    BY DEF WrGood, WrShape
  <2>2. \A e \in WrSignals : e.what \in {"connected", "failed", "charList"}
    BY DEF WrSignals
  <2> QED
    BY <1>1, <2>1, <2>2 DEF WrReported, WrReport
<1>3. WrLetGo(wr', wr) /\ wr'.handlers = [i \in DOMAIN wr.handlers |-> WrAborted(wr.handlers[i])]
  BY <1>1 DEF WrClose, WrRelease, WrUnregister, WrInvalidate, WrLetGo, WrGood, WrShape,
              WrFields
<1>4. DOMAIN wr.handlers = 1..Len(wr.handlers) /\ Len(wr.handlers) \in Nat
  BY DEF WrGood, WrShape
<1>5. /\ wr'.handlers \in [1..Len(wr.handlers) -> {"connecting", "aborting", "silent", "over"}]
      /\ \A i \in 1..Len(wr.handlers) : wr'.handlers[i] # "connecting"
  BY <1>3, <1>4 DEF WrAborted, WrGood, WrShape
<1> QED
  BY ZenonT(40), <1>1, <1>2, <1>3, <1>4, <1>5, RewrittenParts, WrEndGood

LEMMA WrStatusChangedInv ==
  ASSUME WrUnhurried, WrGood(wr), WrStatusChanged
  PROVE  WrGood(wr')
<1>1. ~WrRegistering /\ wr.status /\ wr' = WrStatusLost(wr)
  BY WrCalm DEF WrStatusChanged
<1>2. WrLetGo(wr', wr) /\ wr'.handlers = wr.handlers
  BY <1>1 DEF WrStatusLost, WrRelease, WrUnregister, WrInvalidate, WrLetGo, WrGood, WrShape,
              WrFields
<1>3. wr.state # "Connecting"
  BY <1>1 DEF WrGood, WrSession, WrUp
<1>4. (\A j \in Nat : ~WrReport(wr, j))
      /\ \A i \in 1..Len(wr.handlers) : wr.handlers[i] # "connecting"
  BY <1>3 DEF WrGood, WrSession
<1> QED
  BY <1>1, <1>2, <1>4, WrEndGood DEF WrGood, WrShape

\* The connection handler of the session waits, gives up, or reports.
WrHandlerStates == {"connecting", "aborting", "silent", "over"}
WrMoved(r, i, new, p) ==
  /\ WrShape(r) /\ WrServices(r) /\ WrWalks(r)
  /\ WrSameSession(r, wr) /\ WrSameHandles(r, wr) /\ r.posted = p
  /\ Len(r.handlers) = Len(wr.handlers) /\ r.handlers[i] = new
  /\ \A k \in 1..Len(wr.handlers) : k # i => r.handlers[k] = wr.handlers[k]
LEMMA WrHandlers ==
  ASSUME WrGood(wr)
  PROVE  /\ DOMAIN wr.handlers = 1..Len(wr.handlers) /\ Len(wr.handlers) \in Nat
         /\ wr.session \in Nat /\ wr.session = Len(wr.handlers)
         /\ wr.handlers \in [1..Len(wr.handlers) -> WrHandlerStates]
BY DEF WrGood, WrShape, WrHandlerStates
LEMMA WrHandlerMoves ==
  ASSUME WrGood(wr), NEW i \in 1..Len(wr.handlers),
         NEW new \in WrHandlerStates, NEW p \in Seq(WrSignals), NEW r,
         r = [wr EXCEPT !.handlers[i] = new, !.posted = p]
  PROVE  WrMoved(r, i, new, p)
<1>1. /\ DOMAIN r = WrFields /\ r.handlers = [wr.handlers EXCEPT ![i] = new]
      /\ r.posted = p /\ r.scenario = wr.scenario /\ r.calls = wr.calls
      /\ WrSameSession(r, wr) /\ WrSameServices(r, wr) /\ WrSameHandles(r, wr)
  BY DEF WrGood, WrShape, WrFields, WrSameSession, WrSameServices, WrSameHandles
<1>2. /\ r.handlers \in [1..Len(wr.handlers) -> WrHandlerStates] /\ r.handlers[i] = new
      /\ \A k \in 1..Len(wr.handlers) : k # i => r.handlers[k] = wr.handlers[k]
  BY <1>1, WrHandlers
<1>3. r.handlers \in Seq(WrHandlerStates) /\ Len(r.handlers) = Len(wr.handlers)
  BY <1>2, WrHandlers, RewrittenParts
<1>4. WrShape(r)
  BY <1>1, <1>3 DEF WrGood, WrShape, WrHandlerStates, WrSameSession, WrSameServices,
                    WrSameHandles
<1> QED
  BY <1>1, <1>2, <1>3, <1>4, WrSame DEF WrMoved

LEMMA WrHandlerInv ==
  ASSUME WrUnhurried, WrGood(wr), WrHandlerHears \/ WrHandlerEnds
  PROVE  WrGood(wr')
<1>0. /\ DOMAIN wr.handlers = 1..Len(wr.handlers) /\ Len(wr.handlers) \in Nat
      /\ wr.session \in Nat /\ wr.session = Len(wr.handlers)
  BY WrHandlers
<1>2. ASSUME NEW i \in 1..Len(wr.handlers), NEW new \in WrHandlerStates \ {"connecting"},
             wr' = [wr EXCEPT !.handlers[i] = new]
      PROVE  WrGood(wr')
  <2>1. wr' = [wr EXCEPT !.handlers[i] = new, !.posted = wr.posted]
    BY <1>2 DEF WrGood, WrShape, WrFields
  <2>2. wr.posted \in Seq(WrSignals)
    BY DEF WrGood, WrShape
  <2>3. WrMoved(wr', i, new, wr.posted)
    BY <2>1, <2>2, WrHandlerMoves
  <2>4. WrSession(wr')
    <3>1. \A k \in 1..Len(wr'.handlers) :
            wr'.handlers[k] = "connecting" => k \in 1..Len(wr.handlers) /\ wr.handlers[k] = "connecting"
      BY <2>3 DEF WrMoved
    <3>2. \A j : WrReport(wr', j) <=> WrReport(wr, j)
      BY <2>3 DEF WrMoved, WrReport
    <3> QED
      BY <2>3, <3>1, <3>2 DEF WrGood, WrSession, WrMoved, WrSameSession
  <2>5. WrListed(wr')
    BY <2>3, WrSame DEF WrMoved
  <2> QED
    BY <2>3, <2>4, <2>5 DEF WrGood, WrMoved
<1>3. CASE WrHandlerHears
  BY <1>0, <1>2, <1>3 DEF WrHandlerHears, WrHandlerStates
<1>4. CASE WrHandlerEnds
  <2> PICK i \in DOMAIN wr.handlers :
        /\ wr.handlers[i] \in {"connecting", "silent"}
        /\ \E report \in WrReports :
             wr' = [IF wr.handlers[i] = "silent" THEN wr ELSE WrPost(wr, report, i)
                      EXCEPT !.handlers[i] = "over"]
    BY <1>4, WrCalm DEF WrHandlerEnds
  <2>1. CASE wr.handlers[i] = "silent"
    BY <1>0, <1>2, <2>1 DEF WrHandlerStates
  <2>2. CASE wr.handlers[i] = "connecting"
    <3> PICK report \in WrReports : wr' = [WrPost(wr, report, i) EXCEPT !.handlers[i] = "over"]
      BY <2>2
    <3> DEFINE e == [what |-> report, about |-> i]
               p == Append(wr.posted, e)
    <3>1. wr' = [wr EXCEPT !.handlers[i] = "over", !.posted = p]
      BY DEF WrPost, WrGood, WrShape, WrFields
    <3>2. report \in {"connected", "failed"} /\ e \in WrSignals
          /\ e.what # "charList" /\ e.about = i
      BY <1>0 DEF WrReports, WrSignals
    <3> HIDE DEF e
    <3>3. /\ p \in Seq(WrSignals) /\ Len(p) = Len(wr.posted) + 1
          /\ p[Len(wr.posted) + 1] = e /\ Len(wr.posted) \in Nat
          /\ \A j \in 1..Len(wr.posted) : p[j] = wr.posted[j]
      BY <3>2, AppendParts DEF WrGood, WrShape
    <3> HIDE DEF p
    <3>4. i = wr.session /\ wr.state = "Connecting" /\ \A j \in Nat : ~WrReport(wr, j)
      BY <1>0, <2>2 DEF WrGood, WrSession
    <3>5. WrMoved(wr', i, "over", p)
      BY <1>0, <3>1, <3>3, WrHandlerMoves DEF WrHandlerStates
    <3>6. \A k \in 1..Len(wr'.handlers) : wr'.handlers[k] # "connecting"
      BY <1>0, <3>4, <3>5 DEF WrGood, WrSession, WrMoved
    <3>7. \A j \in Nat : WrReport(wr', j) => j = Len(wr.posted) + 1
      BY <3>3, <3>4, <3>5 DEF WrReport, WrMoved
    <3>8. wr'.posted[Len(wr.posted) + 1].about = wr'.session /\ wr'.state = "Connecting"
      BY <3>2, <3>3, <3>4, <3>5 DEF WrMoved, WrSameSession
    <3>9. WrSession(wr')
      BY <3>5, <3>6, <3>7, <3>8 DEF WrGood, WrSession, WrMoved, WrSameSession
    <3>10. WrListed(wr')
      BY SMTT(30), <3>2, <3>3, <3>5 DEF WrGood, WrListed, WrSameHandles, WrMoved
    <3> QED
      BY <3>5, <3>9, <3>10 DEF WrGood, WrMoved
  <2> QED
    BY <2>1, <2>2
<1> QED
  BY <1>3, <1>4

\* The first signal in the queue: a report finds the controller waiting, and no other
\* is behind it.
LEMMA WrTakenGood ==
  ASSUME WrGood(wr), wr.posted # <<>>, NEW w, w = [wr EXCEPT !.posted = Tail(@)],
         NEW signal, signal = Head(wr.posted)
  PROVE  /\ WrShape(w) /\ WrListed(w) /\ WrServices(w) /\ WrWalks(w)
         /\ signal.what \in {"connected", "failed", "charList"}
         /\ signal.what = "charList" => signal.about \in LeServices /\ WrGood(w)
         /\ signal.what # "charList" =>
              /\ signal.about = w.session /\ w.state = "Connecting"
              /\ w.wanted = w.session
              /\ \A j \in Nat : ~WrReport(w, j)
              /\ \A i \in 1..Len(w.handlers) : w.handlers[i] # "connecting"
<1>1. /\ DOMAIN w = WrFields /\ w.posted = Tail(wr.posted) /\ w.handlers = wr.handlers
      /\ w.scenario = wr.scenario /\ w.calls = wr.calls
      /\ WrSameSession(w, wr) /\ WrSameServices(w, wr) /\ WrSameHandles(w, wr)
  BY DEF WrGood, WrShape, WrFields, WrSameSession, WrSameServices, WrSameHandles
<1>2. /\ Tail(wr.posted) \in Seq(WrSignals) /\ signal = wr.posted[1] /\ signal \in WrSignals
      /\ Len(wr.posted) \in Nat /\ Len(wr.posted) >= 1
      /\ Len(Tail(wr.posted)) = Len(wr.posted) - 1
      /\ \A i \in 1..Len(wr.posted) - 1 : Tail(wr.posted)[i] = wr.posted[i + 1]
  BY TailParts DEF WrGood, WrShape
<1>3. WrShape(w)
  BY <1>1, <1>2 DEF WrGood, WrShape, WrSameSession, WrSameServices, WrSameHandles
<1>4. WrServices(w) /\ WrWalks(w)
  BY <1>1, WrSame
<1>5. \A j \in Nat : WrReport(w, j) =>
        j + 1 \in Nat /\ WrReport(wr, j + 1) /\ w.posted[j] = wr.posted[j + 1]
  BY <1>1, <1>2 DEF WrReport
<1>6. WrListed(w)
  <2>1. \A j \in 1..Len(w.posted) :
          j + 1 \in 1..Len(wr.posted) /\ w.posted[j] = wr.posted[j + 1]
    BY <1>1, <1>2
  <2> QED
    BY <1>1, <2>1 DEF WrGood, WrListed, WrSameHandles
<1>7. signal.what = "charList" => signal.about \in LeServices
  <2>1. 1 \in 1..Len(wr.posted)
    BY <1>2
  <2> QED
    BY <1>2, <2>1 DEF WrGood, WrListed
<1>8. signal.what \in {"connected", "failed", "charList"}
  BY <1>2 DEF WrSignals
<1>9. signal.what = "charList" => WrSession(w)
  <2> SUFFICES ASSUME signal.what = "charList"  PROVE WrSession(w)
    OBVIOUS
  <2>1. \A i \in 1..Len(w.handlers) : w.handlers[i] = "connecting" =>
          i = w.session /\ w.state = "Connecting" /\ \A j \in Nat : ~WrReport(w, j)
    BY <1>1, <1>5 DEF WrGood, WrSession, WrSameSession
  <2>2. ASSUME NEW j \in Nat, WrReport(w, j)
        PROVE  /\ w.posted[j].about = w.session /\ w.state = "Connecting"
               /\ \A k \in Nat : WrReport(w, k) => k = j
    <3>1. /\ WrReport(wr, j + 1) /\ w.posted[j] = wr.posted[j + 1]
          /\ \A k \in Nat : WrReport(w, k) => WrReport(wr, k + 1)
      BY <1>5, <2>2
    <3>2. /\ wr.posted[j + 1].about = wr.session /\ wr.state = "Connecting"
          /\ \A k \in Nat : WrReport(wr, k) => k = j + 1
      BY <3>1 DEF WrGood, WrSession
    <3>3. \A k \in Nat : WrReport(w, k) => k = j
      <4> SUFFICES ASSUME NEW k \in Nat, WrReport(w, k) PROVE k = j
        OBVIOUS
      <4>1. k + 1 \in Nat /\ WrReport(wr, k + 1)
        BY <3>1
      <4>2. k + 1 = j + 1
        BY <3>2, <4>1
      <4> QED
        BY <4>2
    <3> QED
      BY <1>1, <3>1, <3>2, <3>3 DEF WrSameSession
  <2> QED
    BY <1>1, <2>1, <2>2 DEF WrGood, WrSession, WrSameSession
<1>10. ASSUME signal.what # "charList"
       PROVE  /\ signal.about = w.session /\ w.state = "Connecting"
              /\ w.wanted = w.session
              /\ \A j \in Nat : ~WrReport(w, j)
              /\ \A i \in 1..Len(w.handlers) : w.handlers[i] # "connecting"
  <2>1. WrReport(wr, 1)
    BY <1>2, <1>10 DEF WrReport
  <2>2. signal.about = wr.session /\ wr.state = "Connecting"
        /\ \A k \in Nat : WrReport(wr, k) => k = 1
    BY <1>2, <2>1 DEF WrGood, WrSession
  <2>3. \A j \in Nat : ~WrReport(w, j)
    <3> SUFFICES ASSUME NEW j \in Nat, WrReport(w, j) PROVE FALSE
      OBVIOUS
    <3>1. j + 1 = 1 /\ j \in 1..Len(w.posted)
      BY <1>5, <2>2 DEF WrReport
    <3> QED
      BY <3>1
  <2>4. \A i \in 1..Len(w.handlers) : w.handlers[i] # "connecting"
    BY <1>1, <2>1 DEF WrGood, WrSession
  <2> QED
    BY <1>1, <2>2, <2>3, <2>4 DEF WrGood, WrSession, WrSameSession
<1> QED
  BY <1>3, <1>4, <1>6, <1>7, <1>8, <1>9, <1>10 DEF WrGood

\* The controller leaves ConnectingState for one in which nothing is listed.
LEMMA WrReportGood ==
  ASSUME NEW w, WrShape(w), WrListed(w), WrServices(w),
         w.state = "Connecting", w.wanted = w.session,
         \A j \in Nat : ~WrReport(w, j),
         \A i \in 1..Len(w.handlers) : w.handlers[i] # "connecting",
         NEW r, DOMAIN r = WrFields, r.scenario = w.scenario, r.calls = w.calls,
         r.handlers = w.handlers, r.posted = w.posted, r.session = w.session,
         r.wanted = w.wanted, WrSameHandles(r, w), r.values = w.values,
         r.finding = w.finding, r.walks = w.walks,
         \/ r.state = "Unconnected" /\ r.status = FALSE /\ r.own = w.own
         \/ /\ r.state = "Connected" /\ r.status = TRUE /\ r.device = TRUE
            /\ r.own = w.session
  PROVE  WrGood(r)
<1>1. WrShape(r)
  BY DEF WrShape, WrSameHandles, ControllerStates
<1>2. WrSession(r)
  BY DEF WrSession, WrReport, WrUp
<1>3. WrListed(r)
  BY DEF WrListed, WrSameHandles
<1>4. WrServices(r) /\ WrWalks(r)
  BY DEF WrServices, WrFresh, WrBegins, WrWalks, WrSameHandles
<1> QED
  BY <1>1, <1>2, <1>3, <1>4 DEF WrGood

\* What changes in services that are listed already, and in the waits for them, while
\* the session has found some.
WrTouched(r, w) ==
  /\ DOMAIN r = WrFields /\ r.scenario = w.scenario /\ r.handlers = w.handlers
  /\ r.posted = w.posted /\ WrSameSession(r, w) /\ r.finding = w.finding
  /\ r.walks = w.walks
WrTouchedWell(r, w) ==
  /\ WrTouched(r, w) /\ r.calls \in Seq(LeResults) /\ r.values \in [LeServices -> Nat]
  /\ \A s \in LeServices : r.values[s] # w.values[s] => r.values[s] = w.own
  /\ WrFresh(w) => r.values = w.values /\ r.services = w.services
  /\ r.services \in [LeServices -> ServiceStates]
  /\ \A s \in LeServices : r.services[s] = "none" <=> w.services[s] = "none"
  /\ r.waits \in Seq(WrWaits)
  /\ \A i \in 1..Len(r.waits) :
       /\ r.waits[i].listed => w.services[r.waits[i].service] # "none"
       /\ WrFresh(w) => r.waits[i].call # 0
  /\ r.details \subseteq WrHandles /\ r.blocked \subseteq WrHandles
  /\ \A h \in r.details \cup r.blocked : h.listed => w.services[h.service] # "none"
LEMMA WrTouchedGood ==
  ASSUME NEW w, WrGood(w), NEW r, WrTouchedWell(r, w)
  PROVE  WrGood(r)
<1>1. WrShape(r)
  BY DEF WrTouchedWell, WrTouched, WrSameSession, WrGood, WrShape
<1>2. WrSession(r)
  BY WrSame DEF WrTouchedWell, WrTouched
<1>3. WrListed(r)
  <2>1. \A i \in 1..Len(r.waits) : r.waits[i].service \in LeServices
    <3>1. \A i \in 1..Len(r.waits) : r.waits[i] \in WrWaits
      BY DEF WrTouchedWell
    <3> QED
      BY <3>1 DEF WrWaits
  <2>2. \A h \in r.details \cup r.blocked : h.service \in LeServices
    BY DEF WrHandles, WrTouchedWell
  <2> QED
    BY <2>1, <2>2 DEF WrListed, WrGood, WrTouched, WrTouchedWell
<1>4. WrFresh(w) => WrFresh(r)
  BY DEF WrFresh, WrTouchedWell, WrGood, WrShape
<1>5. r.state = w.state /\ r.own = w.own /\ r.finding = w.finding /\ r.walks = w.walks
  BY DEF WrTouchedWell, WrTouched, WrSameSession
<1>6. WrServices(r)
  BY <1>4, <1>5 DEF WrGood, WrServices, WrBegins, WrTouchedWell
<1>7. WrWalks(r)
  BY <1>5 DEF WrGood, WrWalks, WrLeft, WrTouchedWell
<1> QED
  BY <1>1, <1>2, <1>3, <1>6, <1>7 DEF WrGood

LEMMA WrAppended ==
  ASSUME NEW S, NEW q \in Seq(S), NEW e \in S
  PROVE  /\ Append(q, e) \in Seq(S)
         /\ \A i \in 1..Len(Append(q, e)) :
              Append(q, e)[i] = e \/ (i \in 1..Len(q) /\ Append(q, e)[i] = q[i])
<1>1. \A i \in 1..Len(q) + 1 : i = Len(q) + 1 \/ i \in 1..Len(q)
  OBVIOUS
<1> QED
  BY <1>1, AppendParts

\* registerForValueChanges() for a service that is listed.
LEMMA WrCharListGood ==
  ASSUME NEW w, WrGood(w), NEW s \in LeServices
  PROVE  WrGood(WrCharList(w, s))
<1> DEFINE r == WrCharList(w, s)
           wait == [call |-> 0, service |-> s, listed |-> TRUE]
<1>1. CASE w.services[s] = "none"
  BY <1>1 DEF WrCharList
<1>2. CASE w.services[s] # "none"
  <2>1. ~WrFresh(w)
    BY <1>2 DEF WrFresh, NoServices
  <2>2. CASE w.values[s] # 0
    <3>1. r = [w EXCEPT !.services[s] = "Discovered"]
      BY <1>2, <2>2 DEF WrCharList
    <3>2. /\ WrTouched(r, w) /\ r.calls = w.calls /\ r.values = w.values
          /\ r.services = [w.services EXCEPT ![s] = "Discovered"]
          /\ r.waits = w.waits /\ r.details = w.details /\ r.blocked = w.blocked
      BY <3>1 DEF WrTouched, WrSameSession, WrGood, WrShape, WrFields
    <3>3. /\ r.services \in [LeServices -> ServiceStates]
          /\ \A x \in LeServices : r.services[x] = "none" <=> w.services[x] = "none"
      BY <1>2, <3>2 DEF WrGood, WrShape, ServiceStates
    <3> HIDE DEF r
    <3> QED
      <4>1. WrTouchedWell(r, w)
        BY <2>1, <3>2, <3>3 DEF WrTouchedWell, WrGood, WrShape, WrListed
      <4> QED
        BY <4>1, WrTouchedGood DEF r
  <2>3. CASE w.values[s] = 0
    <3>1. r = [w EXCEPT !.waits = Append(@, wait)]
      BY <1>2, <2>3 DEF WrCharList
    <3>2. /\ WrTouched(r, w) /\ r.calls = w.calls /\ r.values = w.values
          /\ r.services = w.services
          /\ r.waits = Append(w.waits, wait) /\ r.details = w.details
          /\ r.blocked = w.blocked
      BY <3>1 DEF WrTouched, WrSameSession, WrGood, WrShape, WrFields
    <3>3. wait \in WrWaits
      BY DEF WrWaits
    <3>4. wait.service = s /\ wait.call = 0
      OBVIOUS
    <3> HIDE DEF r, wait
    <3>5. /\ r.waits \in Seq(WrWaits)
          /\ \A i \in 1..Len(r.waits) :
               r.waits[i] = wait \/ (i \in 1..Len(w.waits) /\ r.waits[i] = w.waits[i])
      BY <3>2, <3>3, WrAppended DEF WrGood, WrShape
    <3>6. \A i \in 1..Len(r.waits) :
            r.waits[i].listed => w.services[r.waits[i].service] # "none"
      BY <1>2, <3>4, <3>5 DEF WrGood, WrListed
    <3> QED
      <4>1. WrTouchedWell(r, w)
        BY <2>1, <3>2, <3>5, <3>6 DEF WrTouchedWell, WrGood, WrShape, WrListed
      <4> QED
        BY <4>1, WrTouchedGood DEF r
  <2> QED
    BY <2>2, <2>3
<1> QED
  BY <1>1, <1>2

LEMMA WrDeliverInv ==
  ASSUME WrUnhurried, WrGood(wr), WrDeliver
  PROVE  WrGood(wr')
<1> DEFINE signal == Head(wr.posted)
           w == [wr EXCEPT !.posted = Tail(@)]
<1>1. wr.posted # <<>>
  BY DEF WrDeliver
<1>2. /\ WrShape(w) /\ WrListed(w) /\ WrServices(w)
      /\ signal.what \in {"connected", "failed", "charList"}
      /\ signal.what = "charList" => signal.about \in LeServices /\ WrGood(w)
      /\ signal.what # "charList" =>
           /\ signal.about = w.session /\ w.state = "Connecting"
           /\ w.wanted = w.session
           /\ \A j \in Nat : ~WrReport(w, j)
           /\ \A i \in 1..Len(w.handlers) : w.handlers[i] # "connecting"
  BY <1>1, WrTakenGood
<1>3. /\ signal.what = "connected" =>
           \E registered \in BOOLEAN : wr' = WrDeviceConnected(w, signal.about, registered)
      /\ signal.what = "failed" => wr' = WrHandleConnectionError(w)
      /\ signal.what = "charList" => wr' = WrCharList(w, signal.about)
  BY DEF WrDeliver
<1> HIDE DEF signal, w
<1>4. CASE signal.what = "charList"
  BY <1>2, <1>3, <1>4, WrCharListGood
<1>5. CASE signal.what # "charList"
  <2>1. /\ DOMAIN wr' = WrFields /\ wr'.scenario = w.scenario /\ wr'.calls = w.calls
        /\ wr'.handlers = w.handlers /\ wr'.posted = w.posted /\ wr'.session = w.session
        /\ wr'.wanted = w.wanted /\ WrSameHandles(wr', w) /\ wr'.values = w.values
        /\ wr'.finding = w.finding /\ wr'.walks = w.walks
        /\ \/ wr'.state = "Unconnected" /\ wr'.status = FALSE /\ wr'.own = w.own
           \/ /\ wr'.state = "Connected" /\ wr'.status = TRUE /\ wr'.device = TRUE
              /\ wr'.own = w.session
    <3>1. CASE signal.what = "failed"
      BY <1>2, <1>3, <3>1 DEF WrHandleConnectionError, WrUnregister, WrShape, WrFields,
                              WrSameHandles
    <3>2. CASE signal.what = "connected"
      <4> PICK registered \in BOOLEAN : wr' = WrDeviceConnected(w, w.session, registered)
        BY <1>2, <1>3, <3>2
      <4> QED
        BY <1>2 DEF WrDeviceConnected, WrHandleConnectionError, WrUnregister, WrShape,
                    WrFields, WrSameHandles
    <3> QED
      BY <1>2, <1>5, <3>1, <3>2
  <2> QED
    BY <1>2, <1>5, <2>1, WrReportGood
<1> QED
  BY <1>4, <1>5

\* discoverServices(), with none of an earlier session under way.
LEMMA WrDiscoverInv ==
  ASSUME WrUnhurried, WrGood(wr), WrDiscover
  PROVE  WrGood(wr')
<1>1. /\ wr.state = "Connected" /\ wr.finding = {} /\ wr.walks = {}
  BY WrCalm DEF WrDiscover, MayDiscover, WrBusy
<1>2. /\ DOMAIN wr' = WrFields /\ wr'.scenario = wr.scenario
      /\ wr'.state = "Discovering" /\ wr'.finding = {wr.session}
      /\ wr'.services = wr.services /\ wr'.calls = wr.calls /\ wr'.device = wr.device
      /\ wr'.status = wr.status /\ wr'.values = wr.values /\ wr'.own = wr.own
      /\ wr'.session = wr.session /\ wr'.wanted = wr.wanted
      /\ wr'.handlers = wr.handlers /\ wr'.posted = wr.posted
      /\ WrSameHandles(wr', wr) /\ wr'.walks = {}
  BY <1>1 DEF WrDiscover, WrGood, WrShape, WrFields, WrSameHandles
<1>3. WrShape(wr')
  BY <1>2 DEF WrGood, WrShape, WrSameHandles, ControllerStates
<1>4. WrSession(wr')
  BY <1>1, <1>2 DEF WrGood, WrSession, WrReport, WrUp
<1>5. WrListed(wr')
  BY <1>2, WrSame
<1>6. WrServices(wr') /\ WrWalks(wr')
  BY <1>1, <1>2 DEF WrGood, WrServices, WrFresh, WrBegins, WrWalks, WrSameHandles
<1> QED
  BY <1>3, <1>4, <1>5, <1>6 DEF WrGood

\* WinRT answers while the controller is not, or no longer, discovering.
LEMMA WrAnsweredGood ==
  ASSUME NEW w, WrGood(w), NEW r, DOMAIN r = WrFields, r.scenario = w.scenario,
         r.calls = w.calls, r.handlers = w.handlers, r.posted = w.posted,
         WrSameSession(r, w), WrSameHandles(r, w), r.values = w.values,
         r.finding \subseteq w.finding, r.walks \subseteq w.walks
  PROVE  WrGood(r)
<1>1. WrShape(r)
  BY DEF WrGood, WrShape, WrSameSession, WrSameHandles
<1>2. WrSession(r) /\ WrListed(r)
  BY WrSame
<1>3. WrServices(r)
  BY DEF WrGood, WrServices, WrFresh, WrBegins, WrSameSession, WrSameHandles
<1>4. WrWalks(r)
  BY DEF WrGood, WrWalks, WrLeft, WrSameSession, WrSameHandles
<1> QED
  BY <1>1, <1>2, <1>3, <1>4 DEF WrGood

\* One more service is listed.
LEMMA WrServiceGood ==
  ASSUME NEW w, WrGood(w), NEW s, LeServices # {} => s \in LeServices, NEW r,
         w.state = "Discovering", ~WrBegins(r),
         DOMAIN r = WrFields, r.scenario = w.scenario,
         r.calls = w.calls, r.handlers = w.handlers, r.posted = w.posted,
         WrSameSession(r, w), r.values = w.values, r.waits = w.waits,
         r.details = w.details, r.blocked = w.blocked,
         r.services = [w.services EXCEPT ![s] = IF @ = "none" THEN "Remote" ELSE @],
         \A walk \in r.walks : WrLeft(r, walk)
  PROVE  WrGood(r)
<1>1. /\ r.services \in [LeServices -> ServiceStates]
      /\ \A x \in LeServices : w.services[x] # "none" => r.services[x] = w.services[x]
  BY DEF WrGood, WrShape, ServiceStates
<1>2. WrShape(r)
  BY <1>1 DEF WrGood, WrShape, WrSameSession
<1>3. WrSession(r)
  BY WrSame
<1>4. WrListed(r)
  <2>1. \A i \in 1..Len(w.waits) : w.waits[i].service \in LeServices
    <3>1. \A i \in 1..Len(w.waits) : w.waits[i] \in WrWaits
      BY DEF WrGood, WrShape
    <3> QED
      BY <3>1 DEF WrWaits
  <2>2. \A h \in w.details \cup w.blocked : h.service \in LeServices
    BY DEF WrHandles, WrGood, WrShape
  <2> QED
    BY <1>1, <2>1, <2>2 DEF WrListed, WrGood
<1>5. r.state = "Discovering" /\ r.own = w.own
  BY DEF WrSameSession
<1>6. WrServices(r)
  BY <1>5 DEF WrGood, WrServices
<1>7. WrWalks(r)
  BY DEF WrWalks
<1> QED
  BY <1>2, <1>3, <1>4, <1>6, <1>7 DEF WrGood

\* onServiceDiscoveryFinished().
LEMMA WrFoundInv ==
  ASSUME WrGood(wr), WrFound
  PROVE  WrGood(wr')
<1> PICK i \in wr.finding, result \in {"ok", "error", "failure"} :
      wr' = WrFind([wr EXCEPT !.finding = @ \ {i}], i, result)
  BY DEF WrFound
<1> DEFINE w == [wr EXCEPT !.finding = @ \ {i}]
           found == SetToSeq(LeServices)
           walk == [session |-> i, left |-> Tail(found)]
<1>1. /\ DOMAIN w = WrFields /\ w.scenario = wr.scenario /\ w.calls = wr.calls
      /\ w.handlers = wr.handlers /\ w.posted = wr.posted
      /\ WrSameSession(w, wr) /\ WrSameHandles(w, wr) /\ w.values = wr.values
      /\ w.finding = wr.finding \ {i} /\ w.walks = wr.walks
  BY DEF WrGood, WrShape, WrFields, WrSameSession, WrSameHandles
<1>2. wr' = WrFind(w, i, result)
  OBVIOUS
<1> HIDE DEF w
<1>3. CASE w.state # "Discovering" \/ result = "failure"
  <2>1. wr' = w
    BY <1>2, <1>3 DEF WrFind
  <2> QED
    BY <1>1, <2>1, WrAnsweredGood
<1>4. CASE w.state = "Discovering" /\ result # "failure"
  <2>0. WrBegins(wr)
    BY <1>1, <1>4 DEF WrBegins, WrSameSession
  <2>1. wr.walks = {} /\ w.finding = {} /\ WrFresh(wr)
    BY <1>1, <2>0 DEF WrGood, WrServices
  <2>2. CASE result = "error"
    <3>1. wr' = [[w EXCEPT !.status = FALSE] EXCEPT !.state = "Unconnected"]
      BY <1>2, <1>4, <2>2 DEF WrFind, WrHandleConnectionError, WrUnregister
    <3>2. /\ DOMAIN wr' = WrFields /\ wr'.scenario = wr.scenario /\ wr'.calls = wr.calls
          /\ wr'.handlers = wr.handlers /\ wr'.posted = wr.posted
          /\ wr'.session = wr.session /\ wr'.own = wr.own /\ wr'.wanted = wr.wanted
          /\ wr'.state = "Unconnected" /\ wr'.status = FALSE
          /\ WrSameHandles(wr', wr) /\ wr'.values = wr.values
      BY ZenonT(40), <1>1, <3>1 DEF WrSameSession, WrSameHandles, WrFields
    <3>3. WrShape(wr')
      BY <3>2 DEF WrGood, WrShape, WrSameHandles, ControllerStates
    <3>4. wr.state = "Discovering"
      BY <2>0 DEF WrBegins
    <3>5. WrSession(wr')
      BY <3>2, <3>4 DEF WrGood, WrSession, WrReport, WrUp
    <3>6. WrListed(wr')
      BY <3>2, WrSame
    <3>7. WrServices(wr') /\ WrWalks(wr')
      BY ZenonT(40), <2>1, <3>2 DEF WrServices, WrFresh, WrBegins, WrWalks, WrSameHandles
    <3> QED
      BY <3>3, <3>5, <3>6, <3>7 DEF WrGood
  <2>3. CASE result = "ok"
    <3>1. wr' = [WrService(w, Head(found)) EXCEPT !.walks = @ \cup {walk}]
      BY <1>2, <1>4, <2>3 DEF WrFind
    <3>2. LeServices # {} => found \in Seq(LeServices) /\ found # <<>>
      <4>1. Cardinality(LeServices) = 0 <=> LeServices = {}
        BY LeAssumption, FS_EmptySet
      <4> QED
        BY <4>1, LeAssumption, SetToSeqParts
    <3>3. LeServices # {} => Head(found) \in LeServices
      BY <3>2, TailParts
    <3>4. /\ DOMAIN wr' = WrFields /\ wr'.scenario = wr.scenario /\ wr'.calls = wr.calls
          /\ wr'.handlers = wr.handlers /\ wr'.posted = wr.posted
          /\ WrSameSession(wr', wr) /\ wr'.values = wr.values /\ wr'.waits = wr.waits
          /\ wr'.details = wr.details /\ wr'.blocked = wr.blocked
          /\ wr'.services = [wr.services EXCEPT ![Head(found)] =
                               IF @ = "none" THEN "Remote" ELSE @]
          /\ wr'.finding = {} /\ wr'.walks = {walk}
      <4> DEFINE s == Head(found)
      <4>1. wr' = [WrService(w, s) EXCEPT !.walks = @ \cup {walk}]
        BY <3>1
      <4> HIDE DEF found, walk, s
      <4>2. wr'.services = [wr.services EXCEPT ![s] = IF @ = "none" THEN "Remote" ELSE @]
        <5>1. DOMAIN w = WrFields /\ w.services = wr.services
          BY <1>1 DEF WrSameHandles
        <5>2. wr'.services = WrService(w, s).services
          BY <4>1, <5>1 DEF WrService, WrFields
        <5>3. WrService(w, s).services = [w.services EXCEPT ![s] = IF @ = "none" THEN "Remote" ELSE @]
          BY <5>1 DEF WrService, WrFields
        <5> QED
          BY <5>1, <5>2, <5>3
      <4>4. DOMAIN wr' = WrFields /\ wr'.walks = wr.walks \cup {walk} /\ wr'.finding = w.finding
        BY <1>1, <4>1 DEF WrService, WrFields
      <4>3. /\ wr'.scenario = wr.scenario /\ wr'.calls = wr.calls
            /\ wr'.handlers = wr.handlers /\ wr'.posted = wr.posted
            /\ WrSameSession(wr', wr) /\ wr'.values = wr.values /\ wr'.waits = wr.waits
            /\ wr'.details = wr.details /\ wr'.blocked = wr.blocked
        BY ZenonT(40), <1>1, <4>1 DEF WrService, WrSameSession, WrSameHandles, WrFields
      <4> QED
        BY <2>1, <4>2, <4>3, <4>4 DEF s
    <3>5. WrLeft(wr', walk)
      <4> SUFFICES ASSUME LeServices # {}
                   PROVE  /\ walk.left \in Seq(LeServices)
                          /\ \A s \in LeServices : wr'.services[s] = "none" =>
                               \E j \in 1..Len(walk.left) : walk.left[j] = s
        BY DEF WrLeft
      <4>1. /\ Tail(found) \in Seq(LeServices) /\ Head(found) = found[1]
            /\ Len(found) \in Nat /\ Len(Tail(found)) = Len(found) - 1
            /\ \A j \in 1..Len(found) - 1 : Tail(found)[j] = found[j + 1]
        BY <3>2, TailParts
      <4>2. ASSUME NEW s \in LeServices, wr'.services[s] = "none"
            PROVE  \E j \in 1..Len(Tail(found)) : Tail(found)[j] = s
        <5>1. PICK k \in 1..Len(found) : found[k] = s
          BY LeAssumption, SetToSeqParts
        <5>2. s # Head(found)
          BY <3>4, <4>2 DEF WrGood, WrShape
        <5>3. k - 1 \in 1..Len(Tail(found)) /\ Tail(found)[k - 1] = found[k]
          BY <4>1, <5>1, <5>2
        <5> QED
          BY <5>1, <5>3
      <4> QED
        BY <4>1, <4>2
    <3>6. wr.state = "Discovering" /\ ~WrBegins(wr')
      BY <2>0, <3>4 DEF WrBegins
    <3> HIDE DEF walk
    <3> DEFINE s == Head(found)
    <3>7. /\ wr'.services = [wr.services EXCEPT ![s] = IF @ = "none" THEN "Remote" ELSE @]
          /\ LeServices # {} => s \in LeServices
      BY <3>3, <3>4
    <3> HIDE DEF s
    <3>8. (\A v \in wr'.walks : WrLeft(wr', v)) /\ wr'.finding \subseteq wr.finding
      BY <3>4, <3>5
    <3> QED
      BY ZenonT(90), <3>4, <3>6, <3>7, <3>8, WrServiceGood
  <2> QED
    BY <2>2, <2>3, <1>4
<1> QED
  BY <1>3, <1>4

\* The walk goes on to the next service, or has come to its end.
LEMMA WrWalkInv ==
  ASSUME WrGood(wr), WrWalk
  PROVE  WrGood(wr')
<1> PICK walk \in wr.walks : wr' = WrWalkOn(wr, walk)
  BY DEF WrWalk
<1> DEFINE rest == [wr EXCEPT !.walks = @ \ {walk}]
<1>1. /\ DOMAIN rest = WrFields /\ rest.scenario = wr.scenario /\ rest.calls = wr.calls
      /\ rest.handlers = wr.handlers /\ rest.posted = wr.posted
      /\ WrSameSession(rest, wr) /\ WrSameHandles(rest, wr) /\ rest.values = wr.values
      /\ rest.finding = wr.finding /\ rest.walks = wr.walks \ {walk}
  BY DEF WrGood, WrShape, WrFields, WrSameSession, WrSameHandles
<1>2. CASE wr.state # "Discovering"
  <2>1. wr' = rest
    BY <1>2 DEF WrWalkOn
  <2> HIDE DEF rest
  <2> QED
    BY <1>1, <2>1, WrAnsweredGood
<1>3. CASE wr.state = "Discovering" /\ walk.left = <<>>
  <2>1. wr' = [rest EXCEPT !.state = "Discovered"]
    BY <1>3 DEF WrWalkOn
  <2> HIDE DEF rest
  <2>2. /\ DOMAIN wr' = WrFields /\ wr'.scenario = wr.scenario /\ wr'.calls = wr.calls
        /\ wr'.handlers = wr.handlers /\ wr'.posted = wr.posted
        /\ wr'.session = wr.session /\ wr'.own = wr.own /\ wr'.wanted = wr.wanted
        /\ wr'.state = "Discovered" /\ wr'.status = wr.status /\ wr'.device = wr.device
        /\ WrSameHandles(wr', wr) /\ wr'.values = wr.values
    BY <1>1, <2>1 DEF WrSameSession, WrSameHandles, WrFields
  <2>3. WrShape(wr')
    BY <2>2 DEF WrGood, WrShape, WrSameHandles, ControllerStates
  <2>4. WrSession(wr')
    BY <1>3, <2>2 DEF WrGood, WrSession, WrReport, WrUp
  <2>5. WrListed(wr')
    BY <2>2, WrSame
  <2>6. \A s \in LeServices : wr.services[s] # "none"
    BY <1>3 DEF WrGood, WrWalks, WrLeft
  <2>7. WrServices(wr') /\ WrWalks(wr')
    BY <2>2, <2>6 DEF WrGood, WrServices, WrBegins, WrWalks, WrSameHandles
  <2> QED
    BY <2>3, <2>4, <2>5, <2>7 DEF WrGood
<1>4. CASE wr.state = "Discovering" /\ walk.left # <<>>
  <2> DEFINE s == Head(walk.left)
             next == [walk EXCEPT !.left = Tail(@)]
  <2>1. wr' = [WrService(rest, s) EXCEPT !.walks = @ \cup {next}]
    BY <1>4 DEF WrWalkOn
  <2> HIDE DEF rest
  <2>2. /\ DOMAIN wr' = WrFields /\ wr'.scenario = wr.scenario /\ wr'.calls = wr.calls
        /\ wr'.handlers = wr.handlers /\ wr'.posted = wr.posted
        /\ WrSameSession(wr', wr) /\ wr'.values = wr.values /\ wr'.waits = wr.waits
        /\ wr'.details = wr.details /\ wr'.blocked = wr.blocked
        /\ wr'.services = [wr.services EXCEPT ![s] = IF @ = "none" THEN "Remote" ELSE @]
        /\ wr'.finding = wr.finding /\ wr'.walks = (wr.walks \ {walk}) \cup {next}
    BY <1>1, <2>1 DEF WrService, WrSameSession, WrSameHandles, WrFields
  <2>3. ~WrBegins(wr')
    BY <2>2 DEF WrGood, WrServices, WrBegins, WrSameSession
  <2>4. WrLeft(wr, walk)
    BY <1>4 DEF WrGood, WrWalks
  <2>5. LeServices # {} => s \in LeServices
    BY <1>4, <2>4, TailParts DEF WrLeft
  <2>6. WrLeft(wr', next)
    <3> SUFFICES ASSUME LeServices # {}
                 PROVE  /\ DOMAIN next = {"session", "left"}
                        /\ next.left \in Seq(LeServices)
                        /\ \A x \in LeServices : wr'.services[x] = "none" =>
                             \E j \in 1..Len(next.left) : next.left[j] = x
      BY DEF WrLeft
    <3>1. next.left = Tail(walk.left) /\ DOMAIN next = {"session", "left"}
      BY <2>4 DEF WrLeft
    <3>2. /\ Tail(walk.left) \in Seq(LeServices) /\ s = walk.left[1]
          /\ Len(walk.left) \in Nat /\ Len(Tail(walk.left)) = Len(walk.left) - 1
          /\ \A j \in 1..Len(walk.left) - 1 : Tail(walk.left)[j] = walk.left[j + 1]
      BY <1>4, <2>4, TailParts DEF WrLeft
    <3>3. ASSUME NEW x \in LeServices, wr'.services[x] = "none"
          PROVE  \E j \in 1..Len(Tail(walk.left)) : Tail(walk.left)[j] = x
      <4>1. wr.services[x] = "none" /\ x # s
        BY <2>2, <3>3 DEF WrGood, WrShape
      <4>2. PICK k \in 1..Len(walk.left) : walk.left[k] = x
        BY <2>4, <4>1 DEF WrLeft
      <4>3. k - 1 \in 1..Len(Tail(walk.left)) /\ Tail(walk.left)[k - 1] = walk.left[k]
        BY <3>2, <4>1, <4>2
      <4> QED
        BY <4>2, <4>3
    <3> QED
      BY <3>1, <3>2, <3>3
  <2>7. \A x \in LeServices : wr'.services[x] = "none" => wr.services[x] = "none"
    BY <2>2 DEF WrGood, WrShape
  <2>8. \A v \in wr.walks : WrLeft(wr, v) => WrLeft(wr', v)
    BY <2>7 DEF WrLeft
  <2>9. \A v \in wr'.walks : WrLeft(wr', v)
    BY <1>4, <2>2, <2>6, <2>8 DEF WrGood, WrWalks
  <2> HIDE DEF s
  <2> QED
    BY <1>4, <2>2, <2>3, <2>5, <2>9, WrServiceGood
<1> QED
  BY <1>2, <1>3, <1>4

\* discoverServiceDetails(), with the wait for the included services.
LEMMA WrDetailsInv ==
  ASSUME WrUnhurried, WrGood(wr),
         WrIncluded \/ \E s \in LeServices : WrDiscoverDetails(s)
  PROVE  WrGood(wr')
<1>1. CASE \E s \in LeServices : WrDiscoverDetails(s)
  <2> PICK s \in LeServices : WrDiscoverDetails(s)
    BY <1>1
  <2> PICK b \in {{[service |-> s, listed |-> TRUE]}, {}} :
        wr' = [wr EXCEPT !.services[s] = "Discovering", !.blocked = b]
    BY DEF WrDiscoverDetails
  <2>0. wr.services[s] = "Remote"
    BY DEF WrDiscoverDetails, MayDiscoverDetails
  <2>1. /\ WrTouched(wr', wr) /\ wr'.calls = wr.calls /\ wr'.values = wr.values
        /\ wr'.services = [wr.services EXCEPT ![s] = "Discovering"]
        /\ wr'.waits = wr.waits /\ wr'.details = wr.details /\ wr'.blocked = b
    BY DEF WrTouched, WrSameSession, WrGood, WrShape, WrFields
  <2>2. /\ wr'.services \in [LeServices -> ServiceStates]
        /\ \A x \in LeServices : wr'.services[x] = "none" <=> wr.services[x] = "none"
        /\ ~WrFresh(wr)
    BY <2>0, <2>1 DEF WrGood, WrShape, ServiceStates, WrFresh, NoServices
  <2>3. b \subseteq WrHandles /\ \A h \in b : h.service = s
    <3> DEFINE e == [service |-> s, listed |-> TRUE]
    <3>1. e \in WrHandles /\ e.service = s
      BY DEF WrHandles
    <3>2. b \in {{e}, {}}
      OBVIOUS
    <3> HIDE DEF e
    <3> QED
      BY <3>1, <3>2
  <2>4. WrTouchedWell(wr', wr)
    BY <2>1, <2>2, <2>3 DEF WrTouchedWell, WrGood, WrShape, WrListed
  <2> QED
    BY <2>4, WrTouchedGood
<1>2. CASE WrIncluded
  <2> PICK h \in wr.blocked, ok \in BOOLEAN :
        wr' = IF ok THEN [wr EXCEPT !.blocked = {}, !.details = @ \cup {h}]
              ELSE WrDiscoveryError([wr EXCEPT !.blocked = {}], h)
    BY <1>2 DEF WrIncluded, WrGood, WrShape, WrFields
  <2>1. h \in WrHandles /\ (h.listed => wr.services[h.service] # "none")
    BY DEF WrGood, WrShape, WrListed
  <2>2. /\ WrTouched(wr', wr) /\ wr'.calls = wr.calls /\ wr'.values = wr.values
        /\ wr'.waits = wr.waits /\ wr'.blocked = {}
        /\ \/ wr'.services = wr.services
           \/ h.listed /\ wr'.services = [wr.services EXCEPT ![h.service] = "Remote"]
        /\ wr'.details \subseteq wr.details \cup {h}
    BY DEF WrDiscoveryError, WrTouched, WrSameSession, WrGood, WrShape, WrFields
  <2> DEFINE s == h.service
  <2>3. s \in LeServices /\ (WrFresh(wr) => wr.services[s] = "none")
    BY <2>1 DEF WrHandles, WrFresh, NoServices
  <2> HIDE DEF s
  <2>4. /\ wr'.services = wr.services
           \/ (wr.services[s] # "none" /\ wr'.services = [wr.services EXCEPT ![s] = "Remote"])
        /\ wr.services \in [LeServices -> ServiceStates]
    BY <2>1, <2>2 DEF s, WrGood, WrShape
  <2>5. /\ wr'.services \in [LeServices -> ServiceStates]
        /\ \A x \in LeServices : wr'.services[x] = "none" <=> wr.services[x] = "none"
        /\ WrFresh(wr) => wr'.services = wr.services
    BY <2>3, <2>4 DEF ServiceStates
  <2>6. /\ wr'.details \subseteq WrHandles /\ wr'.blocked \subseteq WrHandles
        /\ \A x \in wr'.details \cup wr'.blocked :
             x.listed => wr.services[x.service] # "none"
    BY <2>1, <2>2 DEF WrGood, WrShape, WrListed
  <2>7. WrTouchedWell(wr', wr)
    <3>1. /\ wr.calls \in Seq(LeResults) /\ wr.values \in [LeServices -> Nat]
          /\ wr.waits \in Seq(WrWaits)
          /\ \A i \in 1..Len(wr.waits) :
               /\ wr.waits[i].listed => wr.services[wr.waits[i].service] # "none"
               /\ WrFresh(wr) => wr.waits[i].call # 0
      BY DEF WrGood, WrShape, WrListed, WrFresh
    <3> QED
      BY ZenonT(40), <2>2, <2>5, <2>6, <3>1 DEF WrTouchedWell
  <2> QED
    BY <2>7, WrTouchedGood
<1> QED
  BY <1>1, <1>2

\* A service handler reports.
LEMMA WrCharListObtainedInv ==
  ASSUME WrUnhurried, WrGood(wr), WrCharListObtained
  PROVE  WrGood(wr')
<1> PICK h \in wr.details :
      wr' = WrPost([wr EXCEPT !.details = @ \ {h}], "charList", h.service)
  BY WrCalm DEF WrCharListObtained
<1> DEFINE e == [what |-> "charList", about |-> h.service]
<1>1. /\ DOMAIN wr' = WrFields /\ wr'.scenario = wr.scenario /\ wr'.calls = wr.calls
      /\ wr'.handlers = wr.handlers /\ wr'.posted = Append(wr.posted, e)
      /\ WrSameSession(wr', wr) /\ WrSameServices(wr', wr)
      /\ wr'.details = wr.details \ {h} /\ wr'.blocked = wr.blocked
  BY DEF WrPost, WrGood, WrShape, WrFields, WrSameSession, WrSameServices
<1>2. h.service \in LeServices
  BY DEF WrGood, WrShape, WrHandles
<1>3. e \in WrSignals /\ e.what = "charList" /\ e.about \in LeServices
  BY <1>2 DEF WrSignals
<1> HIDE DEF e
<1>4. /\ wr'.posted \in Seq(WrSignals)
      /\ \A j \in 1..Len(wr'.posted) :
           wr'.posted[j] = e \/ (j \in 1..Len(wr.posted) /\ wr'.posted[j] = wr.posted[j])
      /\ \A j \in 1..Len(wr.posted) : j \in 1..Len(wr'.posted) /\ wr'.posted[j] = wr.posted[j]
  <2> DEFINE p == Append(wr.posted, e)
  <2>1. wr.posted \in Seq(WrSignals) /\ e \in WrSignals /\ wr'.posted = p
    BY <1>1, <1>3 DEF WrGood, WrShape
  <2>2. Len(p) = Len(wr.posted) + 1 /\ Len(wr.posted) \in Nat
        /\ \A j \in 1..Len(wr.posted) : p[j] = wr.posted[j]
    BY ONLY <2>1, AppendParts
  <2>3. /\ p \in Seq(WrSignals)
        /\ \A j \in 1..Len(p) : p[j] = e \/ (j \in 1..Len(wr.posted) /\ p[j] = wr.posted[j])
    BY ONLY <2>1, WrAppended
  <2> HIDE DEF p
  <2>4. \A j \in 1..Len(wr.posted) : j \in 1..Len(p) /\ p[j] = wr.posted[j]
    BY <2>2
  <2>5. /\ p \in Seq(WrSignals)
        /\ \A j \in 1..Len(p) : p[j] = e \/ (j \in 1..Len(wr.posted) /\ p[j] = wr.posted[j])
        /\ \A j \in 1..Len(wr.posted) : j \in 1..Len(p) /\ p[j] = wr.posted[j]
    BY ONLY <2>3, <2>4
  <2> QED
    BY ONLY <2>1, <2>5
<1>5. WrShape(wr')
  BY <1>1, <1>4 DEF WrGood, WrShape, WrSameSession, WrSameServices
<1>6. \A j : WrReport(wr', j) <=> WrReport(wr, j)
  BY <1>3, <1>4 DEF WrReport
<1>7. \A j : WrReport(wr, j) => wr'.posted[j] = wr.posted[j]
  BY <1>4 DEF WrReport
<1>8. WrSession(wr')
  <2>1. /\ wr'.handlers = wr.handlers /\ wr'.state = wr.state /\ wr'.session = wr.session
        /\ wr'.status = wr.status /\ wr'.device = wr.device /\ wr'.own = wr.own
        /\ wr'.wanted = wr.wanted
    BY <1>1 DEF WrSameSession
  <2> QED
    BY ZenonT(40), <1>6, <1>7, <2>1 DEF WrGood, WrSession
<1>9. WrListed(wr')
  <2>1. wr'.services = wr.services /\ wr'.waits = wr.waits
        /\ wr'.details \subseteq wr.details /\ wr'.blocked = wr.blocked
    BY <1>1 DEF WrSameServices
  <2>2. \A j \in 1..Len(wr'.posted) :
          wr'.posted[j].what = "charList" => wr'.posted[j].about \in LeServices
    BY <1>3, <1>4 DEF WrGood, WrListed
  <2>3. /\ \A i \in 1..Len(wr'.waits) :
             wr'.waits[i].listed => wr'.services[wr'.waits[i].service] # "none"
        /\ \A x \in wr'.details \cup wr'.blocked :
             x.listed => wr'.services[x.service] # "none"
    BY <2>1 DEF WrGood, WrListed
  <2> QED
    BY <2>2, <2>3 DEF WrListed
<1> QED
  BY <1>1, <1>5, <1>8, <1>9, WrSame DEF WrGood

\* readX(), writeX(), and their answers.
LEMMA WrCallInv ==
  ASSUME WrGood(wr), WrCompleted \/ \E a \in LeAttributes : WrCall(a)
  PROVE  WrGood(wr')
<1>1. CASE WrCompleted
  <2> PICK i \in wr.accepted, result \in {"ok", "error"} :
        wr' = [wr EXCEPT !.accepted = @ \ {i}, !.calls = Answered(@, i, result)]
    BY <1>1 DEF WrCompleted
  <2>1. /\ WrTouched(wr', wr) /\ wr'.calls = Answered(wr.calls, i, result)
        /\ wr'.values = wr.values /\ wr'.services = wr.services /\ wr'.waits = wr.waits
        /\ wr'.details = wr.details /\ wr'.blocked = wr.blocked
    BY DEF WrTouched, WrSameSession, WrGood, WrShape, WrFields
  <2>2. wr'.calls \in Seq(LeResults)
    <3>1. wr.calls \in Seq(LeResults) /\ result \in LeResults
      BY DEF WrGood, WrShape, LeResults
    <3> QED
      BY <2>1, <3>1, AnsweredParts
  <2>3. WrTouchedWell(wr', wr)
    BY <2>1, <2>2 DEF WrTouchedWell, WrGood, WrShape, WrListed, WrFresh
  <2> QED
    BY <2>3, WrTouchedGood
<1>2. CASE \E a \in LeAttributes : WrCall(a)
  <2> PICK a \in LeAttributes : WrCall(a)
    BY <1>2
  <2> DEFINE wait == [call |-> Len(wr.calls) + 1, service |-> LeHome[a], listed |-> TRUE]
  <2>1. LeHome[a] \in LeServices /\ wr.services[LeHome[a]] # "none"
    BY LeAssumption DEF WrCall, MayAccess
  <2>2. /\ WrTouched(wr', wr) /\ wr'.calls = Append(wr.calls, "open")
        /\ wr'.values = wr.values /\ wr'.services = wr.services
        /\ wr'.waits = Append(wr.waits, wait)
        /\ wr'.details = wr.details /\ wr'.blocked = wr.blocked
    BY DEF WrCall, WrTouched, WrSameSession, WrGood, WrShape, WrFields
  <2>3. "open" \in LeResults /\ Len(wr.calls) \in Nat
    BY DEF LeResults, WrGood, WrShape
  <2>4. /\ wait \in WrWaits /\ wait.call # 0 /\ wait.service = LeHome[a]
    BY <2>1, <2>3 DEF WrWaits
  <2> HIDE DEF wait
  <2>5. wr'.calls \in Seq(LeResults)
    BY <2>2, <2>3, AppendParts DEF WrGood, WrShape
  <2>6. /\ wr'.waits \in Seq(WrWaits)
        /\ \A i \in 1..Len(wr'.waits) :
             wr'.waits[i] = wait
               \/ (i \in 1..Len(wr.waits) /\ wr'.waits[i] = wr.waits[i])
    BY <2>2, <2>4, WrAppended DEF WrGood, WrShape
  <2>7. \A i \in 1..Len(wr'.waits) :
          /\ wr'.waits[i].listed => wr.services[wr'.waits[i].service] # "none"
          /\ WrFresh(wr) => wr'.waits[i].call # 0
    BY <2>1, <2>4, <2>6 DEF WrGood, WrListed, WrFresh
  <2>8. WrTouchedWell(wr', wr)
    BY <2>2, <2>5, <2>6, <2>7 DEF WrTouchedWell, WrGood, WrShape, WrListed
  <2> QED
    BY <2>8, WrTouchedGood
<1> QED
  BY <1>1, <1>2

\* The wait on top ends: an operation is started, or a registration made.
LEMMA WrAwaitedInv ==
  ASSUME WrGood(wr), WrAwaited
  PROVE  WrGood(wr')
<1> DEFINE wait == Last(wr.waits)
           w == [wr EXCEPT !.waits = Front(@)]
<1>1. PICK result \in {"ok", "error", "missing"} :
        wr' = IF wait.call # 0 THEN WrStart(w, wait.call, result)
              ELSE WrRegistered(IF result = "ok" THEN WrValue(w, wait.service) ELSE w, wait)
  BY DEF WrAwaited, WrStartResults
<1>2. wr.waits # <<>>
  BY DEF WrAwaited
<1>3. /\ Front(wr.waits) \in Seq(WrWaits) /\ wait = wr.waits[Len(wr.waits)]
      /\ wait \in WrWaits /\ Len(wr.waits) \in 1..Len(wr.waits)
      /\ \A i \in 1..Len(Front(wr.waits)) :
           i \in 1..Len(wr.waits) /\ Front(wr.waits)[i] = wr.waits[i]
  <2>1. wr.waits \in Seq(WrWaits)
    BY DEF WrGood, WrShape
  <2> QED
    BY <1>2, <2>1, FrontParts
<1>4. /\ wait.service \in LeServices
      /\ wait.listed => wr.services[wait.service] # "none"
      /\ WrFresh(wr) => wait.call # 0
  BY <1>3 DEF WrGood, WrListed, WrFresh, WrWaits
<1>5. /\ WrTouched(w, wr) /\ w.calls = wr.calls /\ w.values = wr.values
      /\ w.services = wr.services /\ w.waits = Front(wr.waits)
      /\ w.details = wr.details /\ w.blocked = wr.blocked
  BY DEF WrTouched, WrSameSession, WrGood, WrShape, WrFields
<1>6. WrTouchedWell(w, wr)
  <2>1. /\ w.waits \in Seq(WrWaits)
        /\ \A i \in 1..Len(w.waits) :
             /\ w.waits[i].listed => wr.services[w.waits[i].service] # "none"
             /\ WrFresh(wr) => w.waits[i].call # 0
    BY <1>3, <1>5 DEF WrGood, WrListed, WrFresh
  <2> QED
    BY <1>5, <2>1 DEF WrTouchedWell, WrGood, WrShape, WrListed, WrFresh
<1>7. WrGood(w)
  BY <1>6, WrTouchedGood
<1> HIDE DEF w, wait
<1>8. CASE wait.call # 0
  <2>1. /\ WrTouched(wr', w)
        /\ wr'.calls = w.calls \/ wr'.calls = Answered(w.calls, wait.call, "error")
        /\ wr'.values = w.values /\ wr'.services = w.services /\ wr'.waits = w.waits
        /\ wr'.details = w.details /\ wr'.blocked = w.blocked
    BY <1>1, <1>7, <1>8 DEF WrStart, WrTouched, WrSameSession, WrGood, WrShape, WrFields
  <2>2. wr'.calls \in Seq(LeResults)
    <3>1. w.calls \in Seq(LeResults) /\ "error" \in LeResults
      BY <1>7 DEF WrGood, WrShape, LeResults
    <3> QED
      BY <2>1, <3>1, AnsweredParts
  <2>3. WrTouchedWell(wr', w)
    BY <1>7, <2>1, <2>2 DEF WrTouchedWell, WrGood, WrShape, WrListed, WrFresh
  <2> QED
    BY <1>7, <2>3, WrTouchedGood
<1>9. CASE wait.call = 0
  <2> DEFINE s == wait.service
  <2>1. /\ WrTouched(wr', w) /\ wr'.calls = w.calls
        /\ wr'.values = w.values \/ wr'.values = [w.values EXCEPT ![s] = w.own]
        /\ \/ wr'.services = w.services
           \/ wait.listed /\ wr'.services = [w.services EXCEPT ![s] = "Discovered"]
        /\ wr'.waits = w.waits /\ wr'.details = w.details /\ wr'.blocked = w.blocked
    BY <1>1, <1>7, <1>9 DEF WrRegistered, WrValue, WrTouched, WrSameSession, WrGood,
                            WrShape, WrFields
  <2>2. ~WrFresh(wr) /\ (wait.listed => wr.services[s] # "none") /\ s \in LeServices
    BY <1>4, <1>9
  <2>3. WrTouched(wr', wr) /\ w.own = wr.own
    BY <1>5, <2>1 DEF WrTouched, WrSameSession
  <2> HIDE DEF s
  <2>4. /\ wr'.values \in [LeServices -> Nat]
        /\ \A x \in LeServices : wr'.values[x] # wr.values[x] => wr'.values[x] = wr.own
    <3>1. wr.values \in [LeServices -> Nat] /\ wr.own \in Nat
      BY DEF WrGood, WrShape
    <3>2. wr'.values = wr.values \/ wr'.values = [wr.values EXCEPT ![s] = wr.own]
      BY <1>5, <2>1, <2>3
    <3> QED
      BY <3>1, <3>2
  <2>5. /\ wr'.services \in [LeServices -> ServiceStates]
        /\ \A x \in LeServices : wr'.services[x] = "none" <=> wr.services[x] = "none"
    <3>1. wr.services \in [LeServices -> ServiceStates]
      BY DEF WrGood, WrShape
    <3>2. \/ wr'.services = wr.services
          \/ wait.listed /\ wr'.services = [wr.services EXCEPT ![s] = "Discovered"]
      BY <1>5, <2>1
    <3> QED
      BY <2>2, <3>1, <3>2 DEF ServiceStates
  <2>6. WrTouchedWell(wr', wr)
    BY <1>5, <1>6, <2>1, <2>2, <2>3, <2>4, <2>5 DEF WrTouchedWell
  <2> QED
    BY <2>6, WrTouchedGood
<1> QED
  BY <1>8, <1>9

LEMMA WrNextInv ==
  ASSUME WrUnhurried, WrGood(wr), [WrNext]_wr
  PROVE  WrGood(wr')
<1>1. CASE WrNext
  BY <1>1, WrConnectInv, WrDisconnectInv, WrHandlerInv, WrDeliverInv, WrStatusChangedInv,
     WrDiscoverInv, WrFoundInv, WrWalkInv, WrDetailsInv, WrCharListObtainedInv, WrAwaitedInv,
     WrCallInv
     DEF WrNext
<1>2. CASE UNCHANGED wr
  BY <1>2
<1> QED
  BY <1>1, <1>2

LEMMA WrPromise ==
  ASSUME WrGood(wr)
  PROVE  WrHeld /\ WrOwnConnection /\ WrValuesOwn /\ WrAllDiscovered
<1>1. WrHeld /\ WrOwnConnection
  BY DEF WrGood, WrSession, WrHeld, WrOwnConnection
<1>2. WrAllDiscovered
  BY DEF WrGood, WrServices, WrAllDiscovered
<1>3. WrValuesOwn
  <2>1. ASSUME NEW s \in LeServices, wr.values[s] # 0
        PROVE  wr.device /\ wr.values[s] = wr.own
    <3>1. wr.state \in {"Discovering", "Discovered"}
      BY <2>1 DEF WrGood, WrServices, WrFresh
    <3> QED
      BY <2>1, <3>1 DEF WrGood, WrSession, WrServices, WrUp
  <2> QED
    BY <2>1 DEF WrValuesOwn
<1> QED
  BY <1>1, <1>2, <1>3

-----------------------------------------------------------------------------
(* DBusController: the list of jobs, and what the application is told. *)

\* connectToDevice() waits until the calls of the last connection are answered.
DBusPatient == \A c \in DBusScenarios : "eagerReconnect" \notin c.may

DbFields ==
  {"state", "device", "pendingConnect", "disconnectSignalRequired", "jobs", "jobPending",
   "serviceList", "dbusServices", "calls", "waiting", "signals", "said", "session",
   "scenario"}
DbWaits == [kind : LeCalls \cup {"Connect", "Disconnect"}, op : 0..LeMaxCalls]
DbFlags(d) ==
  /\ d.state \in ControllerStates /\ d.said \in {"connected", "disconnected"}
  /\ d.session \in 0..LeMaxSessions /\ d.scenario \in DBusScenarios
  /\ d.device \in BOOLEAN /\ d.pendingConnect \in BOOLEAN
  /\ d.disconnectSignalRequired \in BOOLEAN /\ d.jobPending \in BOOLEAN
  /\ d.signals \in Seq({"resolved", "down"})
DbShape(d) ==
  /\ DOMAIN d = DbFields /\ DbFlags(d)
  /\ d.serviceList \in [LeServices -> ServiceStates] /\ d.dbusServices \subseteq LeServices
  /\ d.jobs \in Seq(DBusJobs) /\ d.waiting \in Seq(DbWaits) /\ d.calls \in Seq(LeResults)

\* What has been said is what disconnectSignalRequired remembers, in a connected state
\* it has been said; there is nothing to do for a controller that is not connected, and
\* services are listed once they are discovered.
DbSession(d) ==
  /\ d.said = "connected" <=> d.disconnectSignalRequired
  /\ d.state \in {"Connected", "Discovering", "Discovered"} => d.disconnectSignalRequired
  /\ d.state \in {"Unconnected", "Connecting"} => ~d.disconnectSignalRequired
  /\ d.state \in {"Unconnected", "Connecting"} => d.jobs = <<>>
  /\ d.state # "Discovered" => d.serviceList = NoServices
  /\ d.pendingConnect => d.state \in {"Connecting", "Closing"}
  /\ \A s \in LeServices : d.serviceList[s] # "none" => s \in d.dbusServices

\* A call that is open has its job, which is valid.
DbList(d) ==
  /\ \A k \in 1..Len(d.jobs) : d.jobs[k].op <= Len(d.calls)
  /\ \A k \in 1..Len(d.jobs) : d.jobs[k].op \in Open(d.calls) =>
       d.serviceList[LeHome[d.jobs[k].attr]] = "Discovered"
  /\ \A k, l \in 1..Len(d.jobs) : d.jobs[k].op = d.jobs[l].op /\ d.jobs[k].op # 0 => k = l
  /\ \A op \in Open(d.calls) : \E k \in 1..Len(d.jobs) : d.jobs[k].op = op

\* A D-Bus call that carries a job is on its way while one is pending; one only, and
\* that of the first job, unless answers to another connection's calls are to come.
DbCarries(d, i) == i \in 1..Len(d.waiting) /\ d.waiting[i].kind \in LeCalls
DbOthers(d) == \A i \in 1..Len(d.waiting) : ~DbCarries(d, i) => d.waiting[i].op = 0
DbPending(d) ==
  /\ d.jobPending <=> d.jobs # <<>>
  /\ d.jobPending => \E i \in Nat : DbCarries(d, i)
DbCarried(d) ==
  DBusPatient /\ d.state # "Unconnected" =>
    \A i \in Nat : DbCarries(d, i) =>
      /\ d.jobPending /\ d.waiting[i] = Waiting(d.jobs[1].kind, d.jobs[1].op)
      /\ \A k \in Nat : DbCarries(d, k) => k = i

DbGood(d) ==
  /\ DbShape(d) /\ DbSession(d) /\ DbList(d) /\ DbPending(d) /\ DbCarried(d) /\ DbOthers(d)

LEMMA DbInitInv == DBusInit => DbGood(dbus) /\ link \in [up : BOOLEAN, resolved : BOOLEAN]
<1> SUFFICES ASSUME DBusInit PROVE DbGood(dbus) /\ link \in [up : BOOLEAN, resolved : BOOLEAN]
  OBVIOUS
<1>1. /\ DOMAIN dbus = DbFields /\ dbus.scenario \in DBusScenarios
      /\ dbus.state = "Unconnected" /\ dbus.said = "disconnected" /\ dbus.session = 0
      /\ dbus.device = FALSE /\ dbus.pendingConnect = FALSE
      /\ dbus.disconnectSignalRequired = FALSE /\ dbus.jobPending = FALSE
      /\ dbus.signals = <<>> /\ dbus.serviceList = NoServices /\ dbus.dbusServices = {}
      /\ dbus.jobs = <<>> /\ dbus.waiting = <<>> /\ dbus.calls = <<>>
  BY DEF DBusInit, DbFields
<1>2. DbShape(dbus)
  <2>1. 0 \in 0..LeMaxSessions
    BY LeAssumption
  <2>2. DbFlags(dbus)
    <3>1. dbus.signals \in Seq({"resolved", "down"})
      BY <1>1
    <3>2. /\ dbus.state \in ControllerStates /\ dbus.said \in {"connected", "disconnected"}
          /\ dbus.session \in 0..LeMaxSessions
      BY <1>1, <2>1 DEF ControllerStates
    <3> QED
      BY <1>1, <3>1, <3>2 DEF DbFlags
  <2>3. NoServices \in [LeServices -> ServiceStates]
    BY DEF NoServices, ServiceStates
  <2> QED
    BY <1>1, <2>2, <2>3 DEF DbShape
<1>3. DbSession(dbus) /\ DbPending(dbus)
  BY <1>1 DEF DbSession, DbPending, NoServices
<1>4. DbList(dbus) /\ DbCarried(dbus) /\ DbOthers(dbus)
  BY <1>1 DEF DbList, Open, DbCarried, DbOthers, DbCarries
<1> QED
  BY <1>2, <1>3, <1>4 DEF DbGood, DBusInit

\* The application's calls.
LEMMA OpenParts ==
  ASSUME NEW calls \in Seq(LeResults)
  PROVE  /\ Open(calls) \subseteq 1..Len(calls) /\ Len(calls) \in Nat
         /\ \A i, r : /\ Len(Answered(calls, i, r)) = Len(calls)
                      /\ r # "open" => Open(Answered(calls, i, r)) = Open(calls) \ {i}
                      /\ \A k \in 1..Len(calls) : Answered(calls, i, r)[k] =
                           IF k = i /\ k \in Open(calls) THEN r ELSE calls[k]
         /\ \A S : /\ Dropped(calls, S) \in Seq(LeResults) /\ Len(Dropped(calls, S)) = Len(calls)
                   /\ Open(Dropped(calls, S)) = Open(calls) \ S
                   /\ \A k \in 1..Len(calls) : Dropped(calls, S)[k] \in {calls[k], "dropped"}
         /\ \A r \in LeResults :
              /\ Append(calls, r) \in Seq(LeResults) /\ Len(Append(calls, r)) = Len(calls) + 1
              /\ Open(Append(calls, r)) =
                   Open(calls) \cup (IF r = "open" THEN {Len(calls) + 1} ELSE {})
<1>1. DOMAIN calls = 1..Len(calls) /\ Len(calls) \in Nat /\ calls \in [1..Len(calls) -> LeResults]
  OBVIOUS
<1>2. ASSUME NEW i, NEW r
      PROVE  /\ DOMAIN Answered(calls, i, r) = 1..Len(calls)
             /\ \A k \in 1..Len(calls) : Answered(calls, i, r)[k] =
                  IF k = i /\ k \in Open(calls) THEN r ELSE calls[k]
  BY <1>1 DEF Answered, Open
<1>3. ASSUME NEW i, NEW r
      PROVE  /\ Len(Answered(calls, i, r)) = Len(calls)
             /\ r # "open" => Open(Answered(calls, i, r)) = Open(calls) \ {i}
  <2>1. Len(Answered(calls, i, r)) = Len(calls)
    <3>1. CASE i \in Open(calls)
      <4>1. Answered(calls, i, r) = [calls EXCEPT ![i] = r]
        BY <3>1 DEF Answered
      <4>2. [calls EXCEPT ![i] = r] \in [1..Len(calls) -> LeResults \cup {r}]
        BY <1>1
      <4> QED
        BY <1>1, <4>1, <4>2, RewrittenParts
    <3>2. CASE i \notin Open(calls)
      BY <3>2 DEF Answered
    <3> QED
      BY <3>1, <3>2
  <2>2. r # "open" => Open(Answered(calls, i, r)) = Open(calls) \ {i}
    BY <1>1, <1>2 DEF Open
  <2> QED
    BY <2>1, <2>2
<1>4. ASSUME NEW S
      PROVE  /\ Dropped(calls, S) \in Seq(LeResults) /\ Len(Dropped(calls, S)) = Len(calls)
             /\ Open(Dropped(calls, S)) = Open(calls) \ S
             /\ \A k \in 1..Len(calls) : Dropped(calls, S)[k] \in {calls[k], "dropped"}
  <2>1. Dropped(calls, S) \in [1..Len(calls) -> LeResults]
    BY <1>1 DEF Dropped, LeResults
  <2>2. /\ DOMAIN Dropped(calls, S) = 1..Len(calls)
        /\ \A k \in 1..Len(calls) : Dropped(calls, S)[k] =
             IF k \in S \cap Open(calls) THEN "dropped" ELSE calls[k]
    BY <1>1 DEF Dropped
  <2>3. Open(Dropped(calls, S)) = Open(calls) \ S
    BY <1>1, <2>2 DEF Open
  <2> QED
    BY <1>1, <2>1, <2>2, <2>3, RewrittenParts
<1>5. ASSUME NEW r \in LeResults
      PROVE  /\ Append(calls, r) \in Seq(LeResults) /\ Len(Append(calls, r)) = Len(calls) + 1
             /\ Open(Append(calls, r)) =
                  Open(calls) \cup (IF r = "open" THEN {Len(calls) + 1} ELSE {})
  <2>1. /\ Append(calls, r) \in Seq(LeResults) /\ Len(Append(calls, r)) = Len(calls) + 1
        /\ Append(calls, r)[Len(calls) + 1] = r
        /\ \A i \in 1..Len(calls) : Append(calls, r)[i] = calls[i]
    BY AppendParts
  <2>2. DOMAIN Append(calls, r) = 1..Len(calls) + 1
    BY <2>1
  <2> QED
    BY <1>1, <2>1, <2>2 DEF Open
<1>6. Open(calls) \subseteq 1..Len(calls)
  BY <1>1 DEF Open
<1> QED
  BY <1>1, <1>2, <1>3, <1>4, <1>5, <1>6

\* scheduleNextJob(): a job is started if there is a valid one, the others are dropped.
DbReady(d) ==
  /\ d.jobPending => DbPending(d) /\ DbCarried(d)
  /\ ~d.jobPending /\ DBusPatient /\ d.state # "Unconnected" => \A i \in Nat : ~DbCarries(d, i)
LEMMA DbScheduleGood ==
  ASSUME NEW d, DbShape(d), DbSession(d), DbList(d), DbOthers(d), DbReady(d)
  PROVE  /\ DbGood(ScheduleNextJob(d)) /\ ScheduleNextJob(d).calls = d.calls
         /\ \/ ScheduleNextJob(d).waiting = d.waiting
            \/ \E k \in 1..Len(d.jobs) : ScheduleNextJob(d).waiting =
                 Append(d.waiting, Waiting(d.jobs[k].kind, d.jobs[k].op))
<1> DEFINE r == ScheduleNextJob(d)
           n == Len(d.jobs)
           I == {i \in 1..n : Runnable(d, d.jobs[i])}
           left == SelectInSeq(d.jobs, LAMBDA j : Runnable(d, j))
<1>1. CASE d.jobPending
  <2>1. r = d
    BY <1>1 DEF ScheduleNextJob
  <2> QED
    BY <1>1, <2>1 DEF DbGood, DbReady
<1>2. CASE ~d.jobPending /\ d.jobs = <<>>
  <2>1. r = d
    BY <1>2 DEF ScheduleNextJob
  <2>2. DbPending(d)
    BY <1>2 DEF DbPending
  <2>3. DbCarried(d)
    BY <1>2 DEF DbReady, DbCarried
  <2> QED
    BY <2>1, <2>2, <2>3 DEF DbGood
<1>3. CASE ~d.jobPending /\ d.jobs # <<>>
  <2>0. n \in Nat /\ d.state \notin {"Unconnected", "Connecting"} /\ d.jobs \in Seq(DBusJobs)
    BY <1>3 DEF DbShape, DbSession
  <2>1. left = IF I # {} THEN Min(I) ELSE 0
    BY DEF SelectInSeq
  <2>2. I # {} => left \in I /\ \A i \in I : left <= i
    <3>1. I \in SUBSET Nat
      BY <2>0
    <3> QED
      BY <2>1, <3>1, FirstOf
  <2>3. r = IF left = 0 THEN [d EXCEPT !.jobs = <<>>]
            ELSE [d EXCEPT !.jobs = SubSeq(@, left, Len(@)), !.jobPending = TRUE,
                           !.waiting = Append(@, Waiting(d.jobs[left].kind, d.jobs[left].op))]
    BY <1>3 DEF ScheduleNextJob
  <2>4. \A k \in 1..n : d.jobs[k] \in DBusJobs
    BY <2>0
  <2>5. \A k \in 1..n : d.jobs[k].op \in Open(d.calls) => k \in I
    <3> TAKE k \in 1..n
    <3> HAVE d.jobs[k].op \in Open(d.calls)
    <3>1. LeHome[d.jobs[k].attr] \in LeServices
      BY <2>4, LeAssumption DEF DBusJobs
    <3>2. d.serviceList[LeHome[d.jobs[k].attr]] = "Discovered"
      BY DEF DbList
    <3>3. LeHome[d.jobs[k].attr] \in d.dbusServices
      BY <3>1, <3>2 DEF DbSession
    <3> QED
      BY <3>2, <3>3 DEF Runnable, ServiceForHandle
  <2> HIDE DEF left, I
  <2>6. CASE left = 0
    <3>1. I = {}
      BY <2>0, <2>2, <2>6 DEF I
    <3>2. Open(d.calls) = {}
      BY <2>5, <3>1 DEF DbList
    <3> DEFINE e == [d EXCEPT !.jobs = <<>>]
    <3>3. r = e
      BY <2>3, <2>6
    <3>4. /\ DOMAIN e = DbFields /\ e.jobs = <<>> /\ e.state = d.state /\ e.calls = d.calls
          /\ e.waiting = d.waiting /\ e.jobPending = d.jobPending
          /\ e.serviceList = d.serviceList /\ e.dbusServices = d.dbusServices
          /\ e.said = d.said /\ e.disconnectSignalRequired = d.disconnectSignalRequired
          /\ e.pendingConnect = d.pendingConnect /\ DbFlags(e)
      BY DEF DbShape, DbFields, DbFlags
    <3> HIDE DEF e
    <3>5. DbShape(e)
      BY <3>4 DEF DbShape
    <3>6. DbSession(e)
      BY <3>4 DEF DbSession
    <3>7. DbList(e) /\ DbPending(e)
      BY <1>3, <3>2, <3>4 DEF DbList, DbPending
    <3>8. DbOthers(e)
      BY <3>4 DEF DbOthers, DbCarries
    <3>9. DbCarried(e)
      BY <1>3, <3>4 DEF DbReady, DbCarried, DbCarries
    <3> QED
      BY <3>3, <3>4, <3>5, <3>6, <3>7, <3>8, <3>9 DEF DbGood
  <2>7. CASE left # 0
    <3>1. left \in I /\ left \in 1..n /\ \A i \in I : left <= i
      BY <2>1, <2>2, <2>7 DEF I
    <3> DEFINE job == d.jobs[left]
               w == Waiting(job.kind, job.op)
               e == [d EXCEPT !.jobs = SubSeq(@, left, Len(@)), !.jobPending = TRUE,
                              !.waiting = Append(@, w)]
    <3>2. r = e
      BY <2>3, <2>7
    <3>3. job \in DBusJobs /\ job.kind \in LeCalls /\ job.op \in 0..LeMaxCalls
      BY <2>4, <3>1 DEF DBusJobs
    <3>4. w \in DbWaits /\ w.kind = job.kind /\ w.op = job.op
      BY <3>3 DEF Waiting, DbWaits
    <3>5. /\ DOMAIN e = DbFields /\ e.jobs = SubSeq(d.jobs, left, n) /\ e.state = d.state
          /\ e.calls = d.calls /\ e.waiting = Append(d.waiting, w) /\ e.jobPending = TRUE
          /\ e.serviceList = d.serviceList /\ e.dbusServices = d.dbusServices
          /\ e.said = d.said /\ e.disconnectSignalRequired = d.disconnectSignalRequired
          /\ e.pendingConnect = d.pendingConnect /\ DbFlags(e)
      BY DEF DbShape, DbFields, DbFlags
    <3>6. /\ e.jobs \in Seq(DBusJobs) /\ Len(e.jobs) = n - left + 1
          /\ \A k \in 1..n - left + 1 : e.jobs[k] = d.jobs[k + left - 1]
      BY SMTT(30), <2>0, <3>1, <3>5, SuffixParts
    <3>7. /\ e.waiting \in Seq(DbWaits) /\ Len(e.waiting) = Len(d.waiting) + 1
          /\ Len(d.waiting) \in Nat /\ e.waiting[Len(d.waiting) + 1] = w
          /\ \A i \in 1..Len(d.waiting) : e.waiting[i] = d.waiting[i]
      BY <3>4, <3>5, AppendParts DEF DbShape
    <3> HIDE DEF e, w, job
    <3>8. DbShape(e)
      BY <3>5, <3>6, <3>7 DEF DbShape
    <3>9. DbSession(e)
      BY <2>0, <3>5 DEF DbSession
    <3>10. DbList(e)
      <4>1. \A k \in 1..n - left + 1 : k + left - 1 \in 1..n
        BY <2>0, <3>1
      <4>2. \A k \in 1..Len(e.jobs) : e.jobs[k].op <= Len(e.calls)
        BY <3>5, <3>6, <4>1 DEF DbList
      <4>3. \A k \in 1..Len(e.jobs) : e.jobs[k].op \in Open(e.calls) =>
              e.serviceList[LeHome[e.jobs[k].attr]] = "Discovered"
        BY SMTT(30), <3>5, <3>6, <4>1 DEF DbList
      <4>4. \A k, l \in 1..Len(e.jobs) :
              e.jobs[k].op = e.jobs[l].op /\ e.jobs[k].op # 0 => k = l
        <5> SUFFICES ASSUME NEW k \in 1..n - left + 1, NEW l \in 1..n - left + 1,
                            e.jobs[k].op = e.jobs[l].op, e.jobs[k].op # 0
                     PROVE  k = l
          BY <3>6
        <5>1. k + left - 1 = l + left - 1
          BY SMTT(30), <3>6, <4>1 DEF DbList
        <5> QED
          BY <2>0, <3>1, <5>1
      <4>5. \A op \in Open(e.calls) : \E k \in 1..Len(e.jobs) : e.jobs[k].op = op
        <5> TAKE op \in Open(e.calls)
        <5>1. PICK k \in 1..n : d.jobs[k].op = op
          BY <3>5 DEF DbList
        <5>2. k \in I
          BY <2>5, <3>5, <5>1
        <5>3. k - left + 1 \in 1..n - left + 1 /\ (k - left + 1) + left - 1 = k
          BY <2>0, <3>1, <5>1, <5>2
        <5> QED
          BY <3>6, <5>1, <5>3
      <4> QED
        BY <4>2, <4>3, <4>4, <4>5 DEF DbList
    <3>11. \A i \in Nat : DbCarries(e, i) <=> DbCarries(d, i) \/ i = Len(d.waiting) + 1
      BY <3>3, <3>4, <3>7 DEF DbCarries
    <3>12. e.jobs # <<>>
      BY <2>0, <3>1, <3>6
    <3>13. DbPending(e)
      <4>1. DbCarries(e, Len(d.waiting) + 1)
        BY <3>7, <3>11
      <4> QED
        BY <3>5, <3>7, <3>12, <4>1 DEF DbPending
    <3>14. DbCarried(e)
      <4>1. e.jobs[1] = job
        <5>1. 1 \in 1..n - left + 1 /\ 1 + left - 1 = left
          BY <2>0, <3>1
        <5> QED
          BY <3>6, <5>1 DEF job
      <4> QED
        BY <1>3, <3>5, <3>7, <3>11, <4>1 DEF DbReady, DbCarried, w
    <3>15. DbOthers(e)
      BY <3>7, <3>11 DEF DbOthers, DbCarries
    <3>16. \E k \in 1..Len(d.jobs) : e.waiting =
             Append(d.waiting, Waiting(d.jobs[k].kind, d.jobs[k].op))
      BY <3>1, <3>5 DEF w, job
    <3> QED
      BY <3>2, <3>5, <3>8, <3>9, <3>10, <3>13, <3>14, <3>15, <3>16 DEF DbGood
  <2> QED
    BY <2>6, <2>7
<1> QED
  BY <1>1, <1>2, <1>3 DEF DbShape, DbFlags

\* What a step leaves as it is.
LEMMA DbQueueSame ==
  ASSUME NEW d, DbGood(d), NEW r, r.jobs = d.jobs, r.jobPending = d.jobPending,
         \/ r.waiting = d.waiting
         \/ \E w \in DbWaits : w.kind \notin LeCalls /\ w.op = 0 /\ r.waiting = Append(d.waiting, w),
         r.state # "Unconnected" => d.state # "Unconnected"
  PROVE  r.waiting \in Seq(DbWaits) /\ DbPending(r) /\ DbCarried(r) /\ DbOthers(r)
<1>1. d.waiting \in Seq(DbWaits) /\ Len(d.waiting) \in Nat
  BY DEF DbGood, DbShape
<1>2. CASE r.waiting = d.waiting
  <2>1. \A i \in Nat : DbCarries(r, i) <=> DbCarries(d, i)
    BY <1>2 DEF DbCarries
  <2>2. DbPending(r) /\ DbCarried(r)
    BY <1>2, <2>1 DEF DbGood, DbPending, DbCarried
  <2>3. DbOthers(r)
    BY <1>2 DEF DbGood, DbOthers, DbCarries
  <2> QED
    BY <1>1, <1>2, <2>2, <2>3
<1>3. ASSUME NEW w \in DbWaits, w.kind \notin LeCalls, w.op = 0, r.waiting = Append(d.waiting, w)
      PROVE  r.waiting \in Seq(DbWaits) /\ DbPending(r) /\ DbCarried(r) /\ DbOthers(r)
  <2>1. /\ r.waiting \in Seq(DbWaits) /\ Len(r.waiting) = Len(d.waiting) + 1
        /\ r.waiting[Len(d.waiting) + 1] = w
        /\ \A i \in 1..Len(d.waiting) : r.waiting[i] = d.waiting[i]
    BY <1>1, <1>3, AppendParts
  <2>2. \A i \in Nat : DbCarries(r, i) <=> DbCarries(d, i)
    BY <1>1, <1>3, <2>1 DEF DbCarries
  <2>3. \A i \in Nat : DbCarries(d, i) => r.waiting[i] = d.waiting[i]
    BY <2>1 DEF DbCarries
  <2>4. DbPending(r) /\ DbCarried(r)
    BY <2>2, <2>3 DEF DbGood, DbPending, DbCarried
  <2>5. DbOthers(r)
    BY <1>1, <1>3, <2>1 DEF DbGood, DbOthers, DbCarries
  <2> QED
    BY <2>1, <2>4, <2>5
<1> QED
  BY <1>2, <1>3

LEMMA DbListSame ==
  ASSUME NEW d, DbList(d), NEW r, r.jobs = d.jobs, Len(r.calls) = Len(d.calls),
         Open(r.calls) \subseteq Open(d.calls),
         \A k \in 1..Len(d.jobs) : d.jobs[k].op \in Open(r.calls) =>
           r.serviceList[LeHome[d.jobs[k].attr]] = "Discovered"
  PROVE  DbList(r)
BY DEF DbList

\* resetController() and executeClose().
LEMMA DbResetParts ==
  ASSUME NEW d, DbShape(d)
  PROVE  LET r == ResetController(d)
         IN  /\ DOMAIN r = DbFields /\ r.scenario = d.scenario /\ r.state = d.state
             /\ r.said = d.said /\ r.session = d.session /\ r.waiting = d.waiting
             /\ r.device = FALSE /\ r.pendingConnect = FALSE
             /\ r.disconnectSignalRequired = FALSE /\ r.jobPending = FALSE
             /\ r.jobs = <<>> /\ r.signals = <<>> /\ r.dbusServices = {}
             /\ r.serviceList = NoServices /\ r.calls = Dropped(d.calls, DOMAIN d.calls)
BY DEF DbShape, DbFields, ResetController, InvalidateServices

LEMMA DbDroppedParts ==
  ASSUME NEW calls \in Seq(LeResults)
  PROVE  LET r == Dropped(calls, DOMAIN calls)
         IN  /\ r \in Seq(LeResults) /\ Len(r) = Len(calls) /\ Open(r) = {}
             /\ \A k \in 1..Len(calls) : r[k] \in {calls[k], "dropped"}
<1>1. Open(calls) \subseteq DOMAIN calls
  BY DEF Open
<1> QED
  BY <1>1, OpenParts

LEMMA NoServicesType == NoServices \in [LeServices -> ServiceStates]
BY DEF NoServices, ServiceStates

LEMMA DbCloseGood ==
  ASSUME NEW d, DbShape(d), DbOthers(d), d.said = "connected" <=> d.disconnectSignalRequired
  PROVE  /\ DbGood(ExecuteClose(d))
         /\ ExecuteClose(d).calls = Dropped(d.calls, DOMAIN d.calls)
<1> DEFINE r == ExecuteClose(d)
<1>1. /\ DOMAIN r = DbFields /\ r.scenario = d.scenario /\ r.state = "Unconnected"
      /\ r.said = (IF d.disconnectSignalRequired THEN "disconnected" ELSE d.said)
      /\ r.session = d.session /\ r.waiting = d.waiting
      /\ r.device = FALSE /\ r.pendingConnect = FALSE
      /\ r.disconnectSignalRequired = FALSE /\ r.jobPending = FALSE
      /\ r.jobs = <<>> /\ r.signals = <<>> /\ r.dbusServices = {}
      /\ r.serviceList = NoServices /\ r.calls = Dropped(d.calls, DOMAIN d.calls)
  BY DbResetParts DEF ExecuteClose, DbFields
<1> HIDE DEF r
<1>2. r.calls \in Seq(LeResults) /\ Open(r.calls) = {}
  BY <1>1, DbDroppedParts DEF DbShape
<1>3. r.said = "disconnected"
  BY <1>1 DEF DbShape, DbFlags
<1>4. DbFlags(r)
  <2>1. r.signals \in Seq({"resolved", "down"})
    BY <1>1
  <2> QED
    BY <1>1, <1>3, <2>1 DEF DbShape, DbFlags, ControllerStates
<1>5. DbShape(r)
  <2>1. r.jobs \in Seq(DBusJobs)
    BY <1>1
  <2> QED
    BY <1>1, <1>2, <1>4, <2>1, NoServicesType DEF DbShape
<1>6. DbSession(r) /\ DbPending(r)
  BY <1>1, <1>3 DEF DbSession, DbPending, NoServices
<1>7. DbList(r)
  BY <1>1, <1>2 DEF DbList
<1>8. DbCarried(r) /\ DbOthers(r)
  BY <1>1 DEF DbCarried, DbOthers, DbCarries
<1> QED
  BY <1>1, <1>5, <1>6, <1>7, <1>8 DEF DbGood, r

LEMMA DbSessions ==
  ASSUME NEW c \in DBusScenarios
  PROVE  /\ c.battery \subseteq LeServices
         /\ \A n \in 0..LeMaxSessions : n < c.sessions => n + 1 \in 0..LeMaxSessions
         /\ \A n \in Nat : n < c.calls => n + 1 \in 0..LeMaxCalls
<1>1. c.sessions \in 1..LeMaxSessions /\ c.calls \in 0..LeMaxCalls /\ c.battery \subseteq LeServices
  BY DBusAssumption
<1> QED
  BY <1>1, LeAssumption

LEMMA DbConnectInv ==
  ASSUME DbGood(dbus), ConnectToDevice
  PROVE  DbGood(dbus') /\ Len(dbus'.calls) = Len(dbus.calls) /\ Open(dbus.calls) = {}
<1> DEFINE d == [ResetController(dbus) EXCEPT !.session = @ + 1]
           found == [d EXCEPT !.device = TRUE, !.state = "Connecting"]
           w == Waiting("Connect", 0)
<1>1. /\ dbus.state = "Unconnected" /\ dbus.session < dbus.scenario.sessions
      /\ DBusMay("eagerReconnect") \/ dbus.waiting = <<>>
      /\ \/ \E device \in BOOLEAN : dbus' = [d EXCEPT !.device = device]
         \/ dbus' = EmitConnected(found)
         \/ dbus' = [found EXCEPT !.pendingConnect = TRUE, !.waiting = Append(@, w)]
  BY DEF ConnectToDevice, MayConnect
<1>2. /\ DbShape(dbus) /\ dbus.said = "disconnected" /\ dbus.jobs = <<>>
      /\ dbus.scenario \in DBusScenarios /\ dbus.session \in 0..LeMaxSessions
  BY <1>1 DEF DbGood, DbShape, DbFlags, DbSession
<1>3. /\ DOMAIN d = DbFields /\ d.scenario = dbus.scenario /\ d.state = "Unconnected"
      /\ d.said = "disconnected" /\ d.session = dbus.session + 1 /\ d.waiting = dbus.waiting
      /\ d.device = FALSE /\ d.pendingConnect = FALSE
      /\ d.disconnectSignalRequired = FALSE /\ d.jobPending = FALSE
      /\ d.jobs = <<>> /\ d.signals = <<>> /\ d.dbusServices = {}
      /\ d.serviceList = NoServices /\ d.calls = Dropped(dbus.calls, DOMAIN dbus.calls)
  BY <1>1, <1>2, DbResetParts DEF DbFields
<1> HIDE DEF d
<1>4. /\ DOMAIN dbus' = DbFields /\ dbus'.scenario = d.scenario
      /\ dbus'.session = d.session /\ dbus'.disconnectSignalRequired \in BOOLEAN
      /\ dbus'.jobPending = FALSE /\ dbus'.device \in BOOLEAN /\ dbus'.pendingConnect \in BOOLEAN
      /\ dbus'.jobs = <<>> /\ dbus'.signals = <<>> /\ dbus'.dbusServices = {}
      /\ dbus'.serviceList = NoServices /\ dbus'.calls = d.calls
      /\ \/ dbus'.state = "Unconnected" /\ dbus'.said = "disconnected"
            /\ dbus'.disconnectSignalRequired = FALSE /\ dbus'.pendingConnect = FALSE
         \/ dbus'.state = "Connected" /\ dbus'.said = "connected"
            /\ dbus'.disconnectSignalRequired = TRUE /\ dbus'.pendingConnect = FALSE
         \/ dbus'.state = "Connecting" /\ dbus'.said = "disconnected"
            /\ dbus'.disconnectSignalRequired = FALSE
      /\ \/ dbus'.waiting = d.waiting
         \/ dbus'.waiting = Append(d.waiting, w)
  BY <1>1, <1>3 DEF EmitConnected, DbFields
<1>5. w \in DbWaits /\ w.kind \notin LeCalls /\ w.op = 0
  BY LeAssumption DEF Waiting, DbWaits, LeCalls
<1> HIDE DEF w
<1>6. /\ dbus.calls \in Seq(LeResults) /\ dbus'.calls \in Seq(LeResults)
      /\ Open(dbus'.calls) = {} /\ Len(dbus'.calls) = Len(dbus.calls)
  BY <1>2, <1>3, <1>4, DbDroppedParts DEF DbShape
<1>7. /\ dbus'.waiting \in Seq(DbWaits) /\ DbOthers(dbus')
      /\ DBusPatient => \A i \in Nat : ~DbCarries(dbus', i)
  <2>1. DBusPatient => dbus.waiting = <<>>
    BY <1>1, <1>2 DEF DBusPatient, DBusMay
  <2>2. dbus.waiting \in Seq(DbWaits) /\ Len(dbus.waiting) \in Nat /\ DbOthers(dbus)
    BY DEF DbGood, DbShape
  <2>3. CASE dbus'.waiting = dbus.waiting
    BY <2>1, <2>2, <2>3 DEF DbCarries, DbOthers
  <2>4. CASE dbus'.waiting = Append(dbus.waiting, w)
    <3>1. /\ dbus'.waiting \in Seq(DbWaits) /\ Len(dbus'.waiting) = Len(dbus.waiting) + 1
          /\ dbus'.waiting[Len(dbus.waiting) + 1] = w
          /\ \A i \in 1..Len(dbus.waiting) : dbus'.waiting[i] = dbus.waiting[i]
      BY <1>5, <2>2, <2>4, AppendParts
    <3>2. \A i \in Nat : DbCarries(dbus', i) => DbCarries(dbus, i)
      BY <1>5, <2>2, <3>1 DEF DbCarries
    <3>3. DBusPatient => \A i \in Nat : ~DbCarries(dbus, i)
      BY <2>1 DEF DbCarries
    <3>4. DbOthers(dbus')
      BY <1>5, <2>2, <3>1 DEF DbOthers, DbCarries
    <3> QED
      BY <3>1, <3>2, <3>3, <3>4
  <2> QED
    BY <1>3, <1>4, <2>3, <2>4
<1>8. DbFlags(dbus')
  <2>1. dbus'.session \in 0..LeMaxSessions
    BY <1>1, <1>2, <1>3, <1>4, DbSessions
  <2>2. dbus'.signals \in Seq({"resolved", "down"})
    BY <1>4
  <2> QED
    BY <1>2, <1>3, <1>4, <2>1, <2>2 DEF DbFlags, ControllerStates
<1>9. DbShape(dbus')
  <2>1. dbus'.jobs \in Seq(DBusJobs)
    BY <1>4
  <2> QED
    BY <1>4, <1>6, <1>7, <1>8, <2>1, NoServicesType DEF DbShape
<1>10. DbSession(dbus')
  BY <1>4 DEF DbSession, NoServices
<1>11. DbList(dbus') /\ DbPending(dbus')
  BY <1>4, <1>6 DEF DbList, DbPending
<1>12. DbCarried(dbus')
  BY <1>7 DEF DbCarried
<1>13. Open(dbus.calls) = {}
  BY <1>2 DEF DbGood, DbList
<1> QED
  BY <1>6, <1>7, <1>9, <1>10, <1>11, <1>12, <1>13 DEF DbGood

\* No call that is open is answered: it stays open, or its service goes.
DbUnanswered(new, old) == \A op \in Open(old) : new[op] \in {"open", "dropped"}

LEMMA DbUnansweredParts ==
  ASSUME NEW calls \in Seq(LeResults)
  PROVE  /\ DbUnanswered(calls, calls)
         /\ \A S : DbUnanswered(Dropped(calls, S), calls)
         /\ \A r \in LeResults : DbUnanswered(Append(calls, r), calls)
<1>1. Open(calls) \subseteq 1..Len(calls) /\ \A op \in Open(calls) : calls[op] = "open"
  BY DEF Open
<1>2. \A r \in LeResults : \A op \in 1..Len(calls) : Append(calls, r)[op] = calls[op]
  BY AppendParts
<1>3. \A S : \A op \in 1..Len(calls) : Dropped(calls, S)[op] \in {calls[op], "dropped"}
  BY OpenParts
<1> QED
  BY <1>1, <1>2, <1>3 DEF DbUnanswered

LEMMA DbDisconnectInv ==
  ASSUME DbGood(dbus), DisconnectFromDevice
  PROVE  DbGood(dbus') /\ DbUnanswered(dbus'.calls, dbus.calls)
<1> DEFINE w == Waiting("Disconnect", 0)
<1>1. /\ dbus.state # "Unconnected" /\ DbShape(dbus) /\ DbSession(dbus) /\ DbList(dbus)
      /\ DOMAIN dbus' = DbFields /\ dbus'.scenario = dbus.scenario
      /\ dbus'.session = dbus.session /\ dbus'.said = dbus.said
      /\ dbus'.disconnectSignalRequired = dbus.disconnectSignalRequired
      /\ dbus'.jobPending = dbus.jobPending /\ dbus'.device = dbus.device
      /\ dbus'.pendingConnect = dbus.pendingConnect /\ dbus'.jobs = dbus.jobs
      /\ dbus'.signals = dbus.signals /\ dbus'.dbusServices = dbus.dbusServices
      /\ dbus'.serviceList = NoServices /\ dbus'.calls = Dropped(dbus.calls, DOMAIN dbus.calls)
      /\ \/ dbus'.state = dbus.state /\ dbus'.waiting = dbus.waiting
         \/ dbus'.state = "Closing" /\ dbus'.waiting = Append(dbus.waiting, w)
  BY DEF DisconnectFromDevice, MayDisconnect, InvalidateServices, DbGood, DbShape, DbFields
<1>2. w \in DbWaits /\ w.kind \notin LeCalls /\ w.op = 0
  BY LeAssumption DEF Waiting, DbWaits, LeCalls
<1> HIDE DEF w
<1>3. /\ dbus'.calls \in Seq(LeResults) /\ Open(dbus'.calls) = {}
      /\ Len(dbus'.calls) = Len(dbus.calls) /\ DbUnanswered(dbus'.calls, dbus.calls)
  BY <1>1, DbDroppedParts, DbUnansweredParts DEF DbShape
<1>4. dbus'.waiting \in Seq(DbWaits) /\ DbPending(dbus') /\ DbCarried(dbus') /\ DbOthers(dbus')
  BY <1>1, <1>2, DbQueueSame
<1>5. DbShape(dbus')
  BY <1>1, <1>3, <1>4, NoServicesType DEF DbShape, DbFlags, ControllerStates
<1>6. DbSession(dbus')
  BY <1>1 DEF DbSession, NoServices
<1>7. DbList(dbus')
  BY <1>1, <1>3, DbListSame
<1> QED
  BY <1>3, <1>4, <1>5, <1>6, <1>7 DEF DbGood

LEMMA DbDiscoverInv ==
  ASSUME DbGood(dbus), DiscoverServices
  PROVE  DbGood(dbus') /\ DbUnanswered(dbus'.calls, dbus.calls)
<1>1. /\ dbus.state = "Connected" /\ DbShape(dbus) /\ DbSession(dbus) /\ DbList(dbus)
      /\ DOMAIN dbus' = DbFields /\ dbus'.scenario = dbus.scenario
      /\ dbus'.state = "Discovered"
      /\ dbus'.session = dbus.session /\ dbus'.said = dbus.said
      /\ dbus'.disconnectSignalRequired = dbus.disconnectSignalRequired
      /\ dbus'.jobPending = dbus.jobPending /\ dbus'.device = dbus.device
      /\ dbus'.pendingConnect = dbus.pendingConnect /\ dbus'.jobs = dbus.jobs
      /\ dbus'.signals = dbus.signals /\ dbus'.waiting = dbus.waiting
      /\ dbus'.calls = dbus.calls
      /\ \/ dbus'.serviceList = dbus.serviceList /\ dbus'.dbusServices = dbus.dbusServices
         \/ dbus'.serviceList = [s \in LeServices |-> "Remote"]
            /\ dbus'.dbusServices = LeServices
  BY DEF DiscoverServices, MayDiscover, DbGood, DbShape, DbFields
<1>2. dbus.serviceList = NoServices
  BY <1>1 DEF DbSession
<1>3. DbPending(dbus') /\ DbCarried(dbus') /\ DbOthers(dbus')
  BY <1>1, DbQueueSame
<1>4. dbus'.serviceList \in [LeServices -> ServiceStates]
  BY <1>1, <1>2, NoServicesType DEF ServiceStates
<1>5. DbShape(dbus')
  BY <1>1, <1>4 DEF DbShape, DbFlags, ControllerStates
<1>6. DbSession(dbus')
  BY <1>1 DEF DbSession
<1>7. DbList(dbus')
  <2>1. \A k \in 1..Len(dbus.jobs) : dbus.jobs[k].op \notin Open(dbus.calls)
    <3> TAKE k \in 1..Len(dbus.jobs)
    <3>1. dbus.jobs[k] \in DBusJobs
      BY <1>1 DEF DbShape
    <3>2. LeHome[dbus.jobs[k].attr] \in LeServices
      BY <3>1, LeAssumption DEF DBusJobs
    <3>3. dbus.serviceList[LeHome[dbus.jobs[k].attr]] = "none"
      BY <1>2, <3>2 DEF NoServices
    <3> QED
      BY <1>1, <3>3 DEF DbList
  <2> QED
    BY <1>1, <2>1, DbListSame
<1> QED
  BY <1>1, <1>3, <1>5, <1>6, <1>7, DbUnansweredParts DEF DbGood, DbShape

\* The link's own steps, and the answers that tell nothing.
LEMMA DbFlagsGood ==
  ASSUME NEW d, DbGood(d), NEW r, DOMAIN r = DbFields, r.scenario = d.scenario,
         r.session = d.session, r.device = d.device, r.jobs = d.jobs, r.calls = d.calls,
         r.jobPending = d.jobPending, r.waiting = d.waiting,
         r.serviceList = d.serviceList, r.dbusServices = d.dbusServices,
         r.signals \in Seq({"resolved", "down"}),
         \/ /\ r.state = d.state /\ r.said = d.said /\ r.pendingConnect = d.pendingConnect
            /\ r.disconnectSignalRequired = d.disconnectSignalRequired
         \/ /\ d.state \in {"Connecting", "Closing"} /\ r.state = "Connected"
            /\ r.said = "connected" /\ r.disconnectSignalRequired = TRUE
            /\ r.pendingConnect = FALSE
  PROVE  DbGood(r)
<1>1. DbPending(r) /\ DbCarried(r) /\ DbOthers(r)
  BY DbQueueSame
<1>2. DbList(r)
  BY DEF DbGood, DbList
<1>3. DbShape(r)
  BY DEF DbGood, DbShape, DbFlags, ControllerStates
<1>4. DbSession(r)
  BY DEF DbGood, DbSession
<1> QED
  BY <1>1, <1>2, <1>3, <1>4 DEF DbGood

LEMMA DbSignalsInv ==
  ASSUME DbGood(dbus), DevicePropertiesChanged
  PROVE  DbGood(dbus') /\ DbUnanswered(dbus'.calls, dbus.calls)
<1> DEFINE d == [dbus EXCEPT !.signals = Tail(@)]
<1>1. /\ dbus.signals # <<>>
      /\ \/ dbus' = ServicesResolvedChanged(d)
         \/ dbus' = ConnectedChanged(d)
  BY DEF DevicePropertiesChanged
<1>2. dbus.signals \in Seq({"resolved", "down"}) /\ Tail(dbus.signals) \in Seq({"resolved", "down"})
  BY <1>1, TailParts DEF DbGood, DbShape, DbFlags
<1>3. /\ DOMAIN d = DbFields /\ d.scenario = dbus.scenario
      /\ d.session = dbus.session /\ d.device = dbus.device /\ d.jobs = dbus.jobs
      /\ d.calls = dbus.calls /\ d.jobPending = dbus.jobPending /\ d.waiting = dbus.waiting
      /\ d.serviceList = dbus.serviceList /\ d.dbusServices = dbus.dbusServices
      /\ d.signals = Tail(dbus.signals) /\ d.state = dbus.state /\ d.said = dbus.said
      /\ d.pendingConnect = dbus.pendingConnect
      /\ d.disconnectSignalRequired = dbus.disconnectSignalRequired
  BY DEF DbGood, DbShape, DbFields
<1> HIDE DEF d
<1>4. DbGood(d)
  BY <1>2, <1>3, DbFlagsGood
<1>5. dbus.calls \in Seq(LeResults)
  BY DEF DbGood, DbShape
<1>6. CASE dbus' = ServicesResolvedChanged(d)
  <2>1. CASE d.pendingConnect
    <3>1. d.state \in {"Connecting", "Closing"}
      BY <1>4, <2>1 DEF DbGood, DbSession
    <3>2. /\ DOMAIN dbus' = DbFields /\ dbus'.scenario = d.scenario
          /\ dbus'.session = d.session /\ dbus'.device = d.device /\ dbus'.jobs = d.jobs
          /\ dbus'.calls = d.calls /\ dbus'.jobPending = d.jobPending
          /\ dbus'.waiting = d.waiting
          /\ dbus'.serviceList = d.serviceList /\ dbus'.dbusServices = d.dbusServices
          /\ dbus'.signals = d.signals /\ dbus'.state = "Connected"
          /\ dbus'.said = "connected" /\ dbus'.disconnectSignalRequired = TRUE
          /\ dbus'.pendingConnect = FALSE
      BY <1>3, <1>6, <2>1 DEF ServicesResolvedChanged, EmitConnected, DbFields
    <3>3. DbGood(dbus')
      BY <1>2, <1>3, <1>4, <3>1, <3>2, DbFlagsGood
    <3> QED
      BY <1>3, <1>5, <3>2, <3>3, DbUnansweredParts
  <2>2. CASE ~d.pendingConnect
    BY <1>3, <1>4, <1>5, <1>6, <2>2, DbUnansweredParts DEF ServicesResolvedChanged
  <2> QED
    BY <2>1, <2>2
<1>7. CASE dbus' = ConnectedChanged(d)
  <2>1. CASE d.state = "Unconnected"
    BY <1>3, <1>4, <1>5, <1>7, <2>1, DbUnansweredParts DEF ConnectedChanged
  <2>2. CASE d.state # "Unconnected"
    BY <1>3, <1>4, <1>5, <1>7, <2>2, DbCloseGood, DbUnansweredParts
       DEF ConnectedChanged, DbGood, DbSession
  <2> QED
    BY <2>1, <2>2
<1> QED
  BY <1>1, <1>6, <1>7

LEMMA DbLinkInv ==
  ASSUME DbGood(dbus), LinkUp \/ Resolve \/ LinkDown \/ InterfacesRemoved
  PROVE  DbGood(dbus') /\ DbUnanswered(dbus'.calls, dbus.calls)
<1>0. dbus.calls \in Seq(LeResults)
  BY DEF DbGood, DbShape
<1>1. CASE LinkUp
  BY <1>0, <1>1, DbUnansweredParts DEF LinkUp
<1>2. ASSUME NEW signal \in {"resolved", "down"}, Tell(signal)
      PROVE  DbGood(dbus') /\ DbUnanswered(dbus'.calls, dbus.calls)
  <2>1. CASE dbus.device
    <3>1. /\ DOMAIN dbus' = DbFields /\ dbus'.scenario = dbus.scenario
          /\ dbus'.session = dbus.session /\ dbus'.device = dbus.device
          /\ dbus'.jobs = dbus.jobs /\ dbus'.calls = dbus.calls
          /\ dbus'.jobPending = dbus.jobPending /\ dbus'.waiting = dbus.waiting
          /\ dbus'.serviceList = dbus.serviceList /\ dbus'.dbusServices = dbus.dbusServices
          /\ dbus'.signals = Append(dbus.signals, signal) /\ dbus'.state = dbus.state
          /\ dbus'.said = dbus.said /\ dbus'.pendingConnect = dbus.pendingConnect
          /\ dbus'.disconnectSignalRequired = dbus.disconnectSignalRequired
      BY <1>2, <2>1 DEF Tell, DbGood, DbShape, DbFields
    <3>2. dbus'.signals \in Seq({"resolved", "down"})
      BY <3>1, AppendParts DEF DbGood, DbShape, DbFlags
    <3> QED
      BY <1>0, <3>1, <3>2, DbFlagsGood, DbUnansweredParts
  <2>2. CASE ~dbus.device
    BY <1>0, <1>2, <2>2, DbUnansweredParts DEF Tell
  <2> QED
    BY <2>1, <2>2
<1>3. CASE InterfacesRemoved
  BY <1>0, <1>3, DbCloseGood, DbUnansweredParts DEF InterfacesRemoved, DbGood, DbSession
<1> QED
  BY <1>1, <1>2, <1>3 DEF Resolve, LinkDown

LEMMA DbWithdrawnInv ==
  ASSUME DbGood(dbus), NEW s \in LeServices, ServiceWithdrawn(s)
  PROVE  DbGood(dbus') /\ DbUnanswered(dbus'.calls, dbus.calls)
<1> DEFINE gone == {j.op : j \in {k \in ToSet(dbus.jobs) : LeHome[k.attr] = s}}
<1>1. /\ dbus.serviceList[s] # "none" /\ DbShape(dbus) /\ DbSession(dbus) /\ DbList(dbus)
      /\ DOMAIN dbus' = DbFields /\ dbus'.scenario = dbus.scenario
      /\ dbus'.state = dbus.state
      /\ dbus'.session = dbus.session /\ dbus'.said = dbus.said
      /\ dbus'.disconnectSignalRequired = dbus.disconnectSignalRequired
      /\ dbus'.jobPending = dbus.jobPending /\ dbus'.device = dbus.device
      /\ dbus'.pendingConnect = dbus.pendingConnect /\ dbus'.jobs = dbus.jobs
      /\ dbus'.signals = dbus.signals /\ dbus'.waiting = dbus.waiting
      /\ dbus'.calls = Dropped(dbus.calls, gone)
      /\ dbus'.serviceList = [dbus.serviceList EXCEPT ![s] = "none"]
      /\ dbus'.dbusServices = dbus.dbusServices \ {s}
  BY DEF ServiceWithdrawn, UuidsChanged, DbGood, DbShape, DbFields
<1>2. \A k \in 1..Len(dbus.jobs) : LeHome[dbus.jobs[k].attr] = s => dbus.jobs[k].op \in gone
  <2> TAKE k \in 1..Len(dbus.jobs)
  <2> HAVE LeHome[dbus.jobs[k].attr] = s
  <2>1. dbus.jobs[k] \in ToSet(dbus.jobs)
    BY <1>1 DEF ToSet, DbShape
  <2> QED
    BY <2>1
<1> HIDE DEF gone
<1>3. /\ dbus'.calls \in Seq(LeResults) /\ Open(dbus'.calls) = Open(dbus.calls) \ gone
      /\ Len(dbus'.calls) = Len(dbus.calls) /\ DbUnanswered(dbus'.calls, dbus.calls)
  BY <1>1, OpenParts, DbUnansweredParts DEF DbShape
<1>4. DbPending(dbus') /\ DbCarried(dbus') /\ DbOthers(dbus')
  BY <1>1, DbQueueSame
<1>5. /\ dbus.state = "Discovered" /\ dbus'.serviceList \in [LeServices -> ServiceStates]
      /\ \A x \in LeServices : dbus'.serviceList[x] = IF x = s THEN "none" ELSE dbus.serviceList[x]
  BY <1>1 DEF DbSession, DbShape, NoServices, ServiceStates
<1>6. DbShape(dbus')
  BY <1>1, <1>3, <1>5 DEF DbShape, DbFlags
<1>7. DbSession(dbus')
  BY <1>1, <1>5 DEF DbSession
<1>8. DbList(dbus')
  <2>1. ASSUME NEW k \in 1..Len(dbus.jobs), dbus.jobs[k].op \in Open(dbus'.calls)
        PROVE  dbus'.serviceList[LeHome[dbus.jobs[k].attr]] = "Discovered"
    <3>1. LeHome[dbus.jobs[k].attr] # s /\ dbus.jobs[k].op \in Open(dbus.calls)
      BY <1>2, <1>3, <2>1
    <3>2. dbus.jobs[k] \in DBusJobs
      BY <1>1 DEF DbShape
    <3>3. LeHome[dbus.jobs[k].attr] \in LeServices
      BY <3>2, LeAssumption DEF DBusJobs
    <3> QED
      BY <1>1, <1>5, <3>1, <3>3 DEF DbList
  <2> QED
    BY <1>1, <1>3, <2>1, DbListSame
<1> QED
  BY <1>3, <1>4, <1>6, <1>7, <1>8 DEF DbGood

\* A job more: it waits behind the others, or is started.
LEMMA DbAddedReady ==
  ASSUME NEW d, DbGood(d), d.state # "Unconnected", NEW e, e.state = d.state,
         e.jobPending = d.jobPending, e.waiting = d.waiting, e.jobs \in Seq(DBusJobs),
         e.jobs # <<>>,
         d.jobs # <<>> => e.jobs[1].kind = d.jobs[1].kind /\ e.jobs[1].op = d.jobs[1].op
  PROVE  DbReady(e) /\ DbOthers(e)
<1>1. \A i \in Nat : DbCarries(e, i) <=> DbCarries(d, i)
  BY DEF DbCarries
<1>2. DbOthers(e)
  BY <1>1 DEF DbGood, DbOthers
<1>3. d.jobPending => DbPending(e)
  BY <1>1 DEF DbGood, DbPending
<1>4. d.jobPending => DbCarried(e)
  BY <1>1 DEF DbGood, DbPending, DbCarried
<1>5. ~d.jobPending /\ DBusPatient => \A i \in Nat : ~DbCarries(e, i)
  BY <1>1 DEF DbGood, DbCarried
<1> QED
  BY <1>2, <1>3, <1>4, <1>5 DEF DbReady

LEMMA DbAccessInv ==
  ASSUME DbGood(dbus), NEW a \in LeAttributes, NEW kind \in CallKinds(a), AccessAttribute(a, kind)
  PROVE  DbGood(dbus') /\ DbUnanswered(dbus'.calls, dbus.calls)
<1> DEFINE n == Len(dbus.jobs)
           op == Len(dbus.calls) + 1
           job == GattJob(kind, a, FALSE, op)
           d(result) == [dbus EXCEPT !.calls = Append(@, result)]
           e == [d("open") EXCEPT !.jobs = Append(@, job)]
<1>1. /\ dbus.serviceList[LeHome[a]] = "Discovered" /\ Len(dbus.calls) < dbus.scenario.calls
      /\ \/ dbus' = AppendJob(d("open"), job)
         \/ dbus' = d("error") \/ dbus' = d("ok")
  BY DEF AccessAttribute, MayAccess
<1>2. /\ DbShape(dbus) /\ DbSession(dbus) /\ DbList(dbus) /\ dbus.state = "Discovered"
      /\ LeHome[a] \in LeServices
  BY <1>1, LeAssumption DEF DbGood, DbSession, NoServices
<1>3. dbus.calls \in Seq(LeResults) /\ Len(dbus.calls) \in Nat /\ op \in 1..LeMaxCalls
  <2>1. dbus.calls \in Seq(LeResults) /\ Len(dbus.calls) \in Nat
    BY <1>2 DEF DbShape
  <2>2. dbus.scenario \in DBusScenarios
    BY <1>2 DEF DbShape, DbFlags
  <2>3. op \in 0..LeMaxCalls
    BY <1>1, <2>1, <2>2, DbSessions
  <2> QED
    BY <2>1, <2>3
<1>4. CASE \E result \in {"ok", "error"} : dbus' = d(result)
  <2> PICK result \in {"ok", "error"} : dbus' = d(result)
    BY <1>4
  <2>1. /\ DOMAIN dbus' = DbFields /\ dbus'.scenario = dbus.scenario
        /\ dbus'.state = dbus.state
        /\ dbus'.session = dbus.session /\ dbus'.said = dbus.said
        /\ dbus'.disconnectSignalRequired = dbus.disconnectSignalRequired
        /\ dbus'.jobPending = dbus.jobPending /\ dbus'.device = dbus.device
        /\ dbus'.pendingConnect = dbus.pendingConnect /\ dbus'.jobs = dbus.jobs
        /\ dbus'.signals = dbus.signals /\ dbus'.waiting = dbus.waiting
        /\ dbus'.calls = Append(dbus.calls, result)
        /\ dbus'.serviceList = dbus.serviceList
        /\ dbus'.dbusServices = dbus.dbusServices
    BY <1>2 DEF DbShape, DbFields
  <2>2. result \in LeResults /\ result # "open"
    BY DEF LeResults
  <2>3. /\ dbus'.calls \in Seq(LeResults) /\ Open(dbus'.calls) = Open(dbus.calls)
        /\ Len(dbus'.calls) = Len(dbus.calls) + 1 /\ DbUnanswered(dbus'.calls, dbus.calls)
    <3>1. /\ Append(dbus.calls, result) \in Seq(LeResults)
          /\ Len(Append(dbus.calls, result)) = Len(dbus.calls) + 1
          /\ Open(Append(dbus.calls, result)) = Open(dbus.calls)
      <4>1. \A r \in LeResults :
              /\ Append(dbus.calls, r) \in Seq(LeResults)
              /\ Len(Append(dbus.calls, r)) = Len(dbus.calls) + 1
              /\ Open(Append(dbus.calls, r)) =
                   Open(dbus.calls) \cup (IF r = "open" THEN {Len(dbus.calls) + 1} ELSE {})
        BY <1>3, OpenParts
      <4>2. Open(Append(dbus.calls, result)) = Open(dbus.calls) \cup {}
        BY <2>2, <4>1
      <4> QED
        BY <2>2, <4>1, <4>2
    <3>2. DbUnanswered(Append(dbus.calls, result), dbus.calls)
      BY <1>3, <2>2, DbUnansweredParts
    <3> QED
      BY <2>1, <3>1, <3>2
  <2>4. DbPending(dbus') /\ DbCarried(dbus') /\ DbOthers(dbus')
    BY <2>1, DbQueueSame
  <2>5. DbShape(dbus') /\ DbSession(dbus')
    BY <1>2, <2>1, <2>3 DEF DbShape, DbFlags, DbSession
  <2>6. DbList(dbus')
    <3>1. \A k \in 1..Len(dbus'.jobs) : dbus'.jobs[k].op <= Len(dbus'.calls)
      <4> TAKE k \in 1..Len(dbus'.jobs)
      <4>1. dbus.jobs[k] \in DBusJobs /\ dbus.jobs[k].op <= Len(dbus.calls)
        BY <1>2, <2>1 DEF DbShape, DbList
      <4>2. dbus.jobs[k].op \in Int
        BY <4>1 DEF DBusJobs
      <4> QED
        BY <1>3, <2>1, <2>3, <4>1, <4>2
    <3> QED
      BY <1>2, <2>1, <2>3, <3>1 DEF DbList
  <2> QED
    BY <2>3, <2>4, <2>5, <2>6 DEF DbGood
<1>5. CASE dbus' = AppendJob(d("open"), job)
  <2>1. dbus' = ScheduleNextJob(e)
    BY <1>5 DEF AppendJob
  <2>2. /\ DOMAIN e = DbFields /\ e.scenario = dbus.scenario
        /\ e.state = dbus.state
        /\ e.session = dbus.session /\ e.said = dbus.said
        /\ e.disconnectSignalRequired = dbus.disconnectSignalRequired
        /\ e.jobPending = dbus.jobPending /\ e.device = dbus.device
        /\ e.pendingConnect = dbus.pendingConnect /\ e.jobs = Append(dbus.jobs, job)
        /\ e.signals = dbus.signals /\ e.waiting = dbus.waiting
        /\ e.calls = Append(dbus.calls, "open")
        /\ e.serviceList = dbus.serviceList
        /\ e.dbusServices = dbus.dbusServices
    BY <1>2 DEF DbShape, DbFields
  <2>3. "open" \in LeResults
    BY DEF LeResults
  <2>4. /\ e.calls \in Seq(LeResults) /\ Open(e.calls) = Open(dbus.calls) \cup {op}
        /\ Len(e.calls) = Len(dbus.calls) + 1 /\ DbUnanswered(e.calls, dbus.calls)
    BY <1>3, <2>2, <2>3, OpenParts, DbUnansweredParts
  <2>5. job \in DBusJobs /\ job.op = op /\ job.attr = a
    BY <1>3 DEF GattJob, DBusJobs, CallKinds, LeCalls
  <2> HIDE DEF e, job
  <2>6. /\ e.jobs \in Seq(DBusJobs) /\ Len(e.jobs) = n + 1 /\ n \in Nat
        /\ e.jobs[n + 1] = job /\ \A i \in 1..n : e.jobs[i] = dbus.jobs[i]
    BY <1>2, <2>2, <2>5, AppendParts DEF DbShape
  <2>7. \A k \in 1..n : dbus.jobs[k].op \in Nat /\ dbus.jobs[k].op <= Len(dbus.calls)
    <3> TAKE k \in 1..n
    <3>1. dbus.jobs[k] \in DBusJobs
      BY <1>2 DEF DbShape
    <3> QED
      BY <1>2, <3>1 DEF DBusJobs, DbList
  <2>8. DbList(e)
    <3>1. \A k \in 1..Len(e.jobs) : e.jobs[k].op <= Len(e.calls)
      <4> TAKE k \in 1..Len(e.jobs)
      <4>1. CASE k \in 1..n
        <5>1. e.jobs[k].op \in Nat /\ e.jobs[k].op <= Len(dbus.calls)
          BY <2>6, <2>7, <4>1
        <5> QED
          BY <1>3, <2>4, <5>1
      <4>2. CASE k = n + 1
        BY <1>3, <2>4, <2>5, <2>6, <4>2
      <4> QED
        BY <2>6, <4>1, <4>2
    <3>2. \A k \in 1..Len(e.jobs) : e.jobs[k].op \in Open(e.calls) =>
            e.serviceList[LeHome[e.jobs[k].attr]] = "Discovered"
      <4> TAKE k \in 1..Len(e.jobs)
      <4>1. CASE k \in 1..n
        <5>1. dbus.jobs[k].op # op
          BY <1>3, <2>7, <4>1
        <5> QED
          BY <1>2, <2>2, <2>4, <2>6, <4>1, <5>1 DEF DbList
      <4>2. CASE k = n + 1
        BY <1>1, <2>2, <2>5, <2>6, <4>2
      <4> QED
        BY <2>6, <4>1, <4>2
    <3>3. \A k, l \in 1..Len(e.jobs) : e.jobs[k].op = e.jobs[l].op /\ e.jobs[k].op # 0 => k = l
      <4>1. \A k \in 1..n : e.jobs[k].op # op
        BY <1>3, <2>6, <2>7
      <4>2. e.jobs[n + 1].op = op
        BY <2>5, <2>6
      <4>3. \A k, l \in 1..n : e.jobs[k].op = e.jobs[l].op /\ e.jobs[k].op # 0 => k = l
        BY <1>2, <2>6 DEF DbList
      <4>4. \A k \in 1..Len(e.jobs) : k \in 1..n \/ k = n + 1
        BY <2>6
      <4> QED
        BY <4>1, <4>2, <4>3, <4>4
    <3>4. \A o \in Open(e.calls) : \E k \in 1..Len(e.jobs) : e.jobs[k].op = o
      <4> TAKE o \in Open(e.calls)
      <4>1. CASE o = op
        <5>1. n + 1 \in 1..Len(e.jobs) /\ e.jobs[n + 1].op = o
          BY <2>5, <2>6, <4>1
        <5> QED
          BY <5>1
      <4>2. CASE o \in Open(dbus.calls)
        <5>1. PICK k \in 1..n : dbus.jobs[k].op = o
          BY <1>2, <4>2 DEF DbList
        <5>2. k \in 1..Len(e.jobs) /\ e.jobs[k].op = o
          BY <2>6, <5>1
        <5> QED
          BY <5>2
      <4> QED
        BY <2>4, <4>1, <4>2
    <3> QED
      BY <3>1, <3>2, <3>3, <3>4 DEF DbList
  <2>9. DbShape(e) /\ DbSession(e)
    BY <1>2, <2>2, <2>4, <2>6 DEF DbShape, DbFlags, DbSession
  <2>10. e.jobs # <<>> /\ (dbus.jobs # <<>> => e.jobs[1] = dbus.jobs[1])
    <3>1. dbus.jobs # <<>> => 1 \in 1..n
      BY <1>2 DEF DbShape
    <3> QED
      BY <2>6, <3>1
  <2>11. DbReady(e) /\ DbOthers(e)
    BY <1>2, <2>2, <2>6, <2>10, DbAddedReady
  <2> QED
    BY <2>1, <2>4, <2>8, <2>9, <2>11, DbScheduleGood
<1> QED
  BY <1>1, <1>4, <1>5

\* discoverServiceDetails() and the answers of its reads: a service, all of whose calls
\* have ended, is discovered.
LEMMA DbDetailsListed ==
  ASSUME DbShape(dbus), DbList(dbus), NEW s \in LeServices, dbus.serviceList[s] = "Remote",
         NEW list, \A x \in LeServices : x # s => list[x] = dbus.serviceList[x],
         NEW k \in 1..Len(dbus.jobs), dbus.jobs[k].op \in Open(dbus.calls)
  PROVE  list[LeHome[dbus.jobs[k].attr]] = "Discovered"
<1>1. dbus.jobs[k] \in DBusJobs
  BY DEF DbShape
<1>2. LeHome[dbus.jobs[k].attr] \in LeServices
  BY <1>1, LeAssumption DEF DBusJobs
<1>3. dbus.serviceList[LeHome[dbus.jobs[k].attr]] = "Discovered"
  BY DEF DbList
<1> QED
  BY <1>2, <1>3

LEMMA DbDetailsSame ==
  ASSUME DbGood(dbus), NEW s \in LeServices, NEW r, DOMAIN r = DbFields,
         dbus.serviceList[s] = "Remote",
         r.scenario = dbus.scenario, r.state = dbus.state, r.session = dbus.session,
         r.said = dbus.said, r.disconnectSignalRequired = dbus.disconnectSignalRequired,
         r.jobPending = dbus.jobPending, r.device = dbus.device,
         r.pendingConnect = dbus.pendingConnect, r.signals = dbus.signals,
         r.waiting = dbus.waiting, r.calls = dbus.calls, r.dbusServices = dbus.dbusServices,
         r.serviceList = [dbus.serviceList EXCEPT ![s] = "Discovering"]
           \/ r.serviceList = [dbus.serviceList EXCEPT ![s] = "Discovered"]
  PROVE  /\ r.jobs \in Seq(DBusJobs) => DbShape(r)
         /\ r.jobs = <<>> \/ dbus.state \notin {"Unconnected", "Connecting"} => DbSession(r)
         /\ r.jobs = dbus.jobs => DbGood(r)
<1>1. DbShape(dbus) /\ DbSession(dbus) /\ DbList(dbus)
  BY DEF DbGood
<1>2. dbus.state = "Discovered" /\ s \in dbus.dbusServices
  BY <1>1 DEF DbSession, NoServices
<1>3. /\ r.serviceList \in [LeServices -> ServiceStates]
      /\ \A x \in LeServices : x # s => r.serviceList[x] = dbus.serviceList[x]
  BY <1>1 DEF DbShape, ServiceStates
<1>4. r.jobs \in Seq(DBusJobs) => DbShape(r)
  BY <1>1, <1>3 DEF DbShape, DbFlags
<1>5. DbSession(r)
  BY <1>1, <1>2, <1>3 DEF DbSession
<1>6. ASSUME NEW k \in 1..Len(dbus.jobs), dbus.jobs[k].op \in Open(dbus.calls)
      PROVE  r.serviceList[LeHome[dbus.jobs[k].attr]] = "Discovered"
  BY <1>1, <1>3, <1>6, DbDetailsListed
<1>7. ASSUME r.jobs = dbus.jobs
      PROVE  DbGood(r)
  <2>1. DbPending(r) /\ DbCarried(r) /\ DbOthers(r)
    BY <1>7, DbQueueSame
  <2>2. DbList(r)
    BY <1>1, <1>6, <1>7, DbListSame
  <2>3. DbShape(r)
    BY <1>1, <1>4, <1>7 DEF DbShape
  <2> QED
    BY <1>5, <2>1, <2>2, <2>3 DEF DbGood
<1> QED
  BY <1>4, <1>5, <1>7

\* The reads of a discovery, behind the jobs there are.
LEMMA DbMarkedParts ==
  ASSUME NEW q \in Seq(DBusJobs), NEW m \in Nat, NEW reads \in [1..m -> DBusJobs],
         \A i \in 1..m : reads[i].op = 0, q \o reads # <<>>
  PROVE  LET e == MarkLast(q \o reads)
         IN  /\ e \in Seq(DBusJobs) /\ Len(e) = Len(q) + m /\ e # <<>> /\ Len(q) \in Nat
             /\ \A k \in 1..Len(q) :
                  e[k].op = q[k].op /\ e[k].attr = q[k].attr /\ e[k].kind = q[k].kind
             /\ \A k \in 1..Len(q) + m : k \notin 1..Len(q) => e[k].op = 0
<1> DEFINE t == q \o reads
           n == Len(q)
           e == [t EXCEPT ![Len(t)].last = TRUE]
<1>1. reads \in Seq(DBusJobs) /\ Len(reads) = m /\ n \in Nat
  BY RewrittenParts
<1>2. /\ t \in Seq(DBusJobs) /\ Len(t) = n + m
      /\ \A k \in 1..n : t[k] = q[k]
      /\ \A k \in 1..n + m : k \notin 1..n => k - n \in 1..m /\ t[k] = reads[k - n]
  BY <1>1
<1> HIDE DEF t
<1>3. Len(t) \in 1..n + m /\ DOMAIN t = 1..n + m /\ \A k \in 1..n + m : t[k] \in DBusJobs
  BY <1>1, <1>2 DEF t
<1>4. DOMAIN e = 1..n + m /\ \A k \in 1..n + m :
        e[k] = IF k = Len(t) THEN [t[k] EXCEPT !.last = TRUE] ELSE t[k]
  BY <1>3
<1>5. \A k \in 1..n + m : /\ e[k] \in DBusJobs /\ e[k].op = t[k].op
                          /\ e[k].attr = t[k].attr /\ e[k].kind = t[k].kind
  <2> TAKE k \in 1..n + m
  <2>1. t[k] \in DBusJobs
    BY <1>3
  <2>2. LET r == [t[k] EXCEPT !.last = TRUE]
        IN  r \in DBusJobs /\ r.op = t[k].op /\ r.attr = t[k].attr /\ r.kind = t[k].kind
    BY <2>1 DEF DBusJobs
  <2> QED
    BY <1>4, <2>1, <2>2
<1>6. e = [k \in 1..n + m |-> e[k]] /\ n + m \in Nat
  <2>1. n + m \in Nat
    BY <1>1
  <2>2. e = [k \in DOMAIN t |-> IF k = Len(t) THEN [t[k] EXCEPT !.last = TRUE] ELSE t[k]]
    BY Zenon
  <2>3. e = [k \in DOMAIN e |-> e[k]]
    BY ONLY <2>2, Zenon
  <2> QED
    BY ONLY <1>4, <2>1, <2>3, Zenon
<1> HIDE DEF e
<1>7. e \in [1..n + m -> DBusJobs]
  BY <1>5, <1>6
<1>8. e \in Seq(DBusJobs) /\ Len(e) = n + m
  BY <1>6, <1>7, RewrittenParts
<1>9. e # <<>>
  BY <1>3, <1>8
<1>10. \A k \in 1..n : k \in 1..n + m
  BY <1>1
<1>11. MarkLast(t) = e
  BY DEF MarkLast, e
<1> QED
  BY <1>1, <1>2, <1>5, <1>8, <1>9, <1>10, <1>11 DEF t

LEMMA DbDetailsInv ==
  ASSUME DbGood(dbus), NEW s \in LeServices, NEW full \in BOOLEAN, DiscoverServiceDetails(s, full)
  PROVE  DbGood(dbus') /\ DbUnanswered(dbus'.calls, dbus.calls)
<1> DEFINE d == [dbus EXCEPT !.serviceList[s] = "Discovering"]
           done == [d EXCEPT !.serviceList[s] = "Discovered"]
           A == {a \in LeAttributes : full /\ LeHome[a] = s}
           reads(order) == [i \in DOMAIN order |->
                              GattJob(ReadKind(order[i]), order[i], TRUE, 0)]
<1>1. /\ dbus.serviceList[s] = "Remote"
      /\ \/ dbus' = done
         \/ dbus' = [d EXCEPT !.state = "Discovered"]
         \/ \E order \in Orders(A) : LET jobs == d.jobs \o reads(order)
              IN  dbus' = IF jobs = <<>> THEN done
                          ELSE ScheduleNextJob([d EXCEPT !.jobs = MarkLast(jobs)])
  BY DEF DiscoverServiceDetails, MayDiscoverDetails
<1>2. /\ DbShape(dbus) /\ DbSession(dbus) /\ DbList(dbus) /\ dbus.state = "Discovered"
      /\ dbus.calls \in Seq(LeResults) /\ DbUnanswered(dbus.calls, dbus.calls)
  BY <1>1, DbUnansweredParts DEF DbGood, DbSession, NoServices, DbShape
<1>3. /\ DOMAIN d = DbFields
      /\ d.scenario = dbus.scenario /\ d.state = dbus.state /\ d.session = dbus.session
      /\ d.said = dbus.said /\ d.disconnectSignalRequired = dbus.disconnectSignalRequired
      /\ d.jobPending = dbus.jobPending /\ d.device = dbus.device
      /\ d.pendingConnect = dbus.pendingConnect /\ d.signals = dbus.signals
      /\ d.waiting = dbus.waiting /\ d.calls = dbus.calls /\ d.dbusServices = dbus.dbusServices
      /\ d.serviceList = [dbus.serviceList EXCEPT ![s] = "Discovering"] /\ d.jobs = dbus.jobs
  BY <1>2 DEF DbShape, DbFields
<1>4. /\ DOMAIN done = DbFields
      /\ done.scenario = dbus.scenario /\ done.state = dbus.state /\ done.session = dbus.session
      /\ done.said = dbus.said /\ done.disconnectSignalRequired = dbus.disconnectSignalRequired
      /\ done.jobPending = dbus.jobPending /\ done.device = dbus.device
      /\ done.pendingConnect = dbus.pendingConnect /\ done.signals = dbus.signals
      /\ done.waiting = dbus.waiting /\ done.calls = dbus.calls
      /\ done.dbusServices = dbus.dbusServices /\ done.jobs = dbus.jobs
      /\ done.serviceList = [dbus.serviceList EXCEPT ![s] = "Discovered"]
  BY <1>2 DEF DbShape, DbFields
<1>5. [d EXCEPT !.state = "Discovered"] = d
  BY <1>2, <1>3 DEF DbFields
<1> HIDE DEF d, done
<1>6. DbGood(d)
  BY <1>1, <1>3, DbDetailsSame
<1>7. DbGood(done)
  BY <1>1, <1>4, DbDetailsSame
<1>8. ASSUME NEW order \in Orders(A), d.jobs \o reads(order) # <<>>,
             dbus' = ScheduleNextJob([d EXCEPT !.jobs = MarkLast(d.jobs \o reads(order))])
      PROVE  DbGood(dbus') /\ DbUnanswered(dbus'.calls, dbus.calls)
  <2> DEFINE m == Cardinality(A)
             n == Len(d.jobs)
             q == MarkLast(d.jobs \o reads(order))
             e == [d EXCEPT !.jobs = q]
  <2>1. m \in Nat
    <3>1. IsFiniteSet(A)
      BY LeAssumption, FS_Subset
    <3> QED
      BY <3>1, FS_CardinalityType
  <2>2. /\ reads(order) \in [1..m -> DBusJobs]
        /\ \A i \in 1..m : reads(order)[i].op = 0
    <3>1. order \in [1..m -> A] /\ A \subseteq LeAttributes
      BY DEF Orders
    <3>2. \A a \in LeAttributes : /\ GattJob(ReadKind(a), a, TRUE, 0) \in DBusJobs
                                  /\ GattJob(ReadKind(a), a, TRUE, 0).op = 0
      BY LeAssumption DEF GattJob, ReadKind, DBusJobs, LeCalls
    <3> QED
      BY <3>1, <3>2
  <2> HIDE DEF reads, m
  <2>3. /\ q \in Seq(DBusJobs) /\ Len(q) = n + m /\ q # <<>> /\ n \in Nat
        /\ \A k \in 1..n : q[k].op = d.jobs[k].op /\ q[k].attr = d.jobs[k].attr
                             /\ q[k].kind = d.jobs[k].kind
        /\ \A k \in 1..n + m : k \notin 1..n => q[k].op = 0
    <3>1. d.jobs \in Seq(DBusJobs)
      BY <1>2, <1>3 DEF DbShape
    <3> QED
      BY <1>8, <2>1, <2>2, <3>1, DbMarkedParts
  <2> HIDE DEF q
  <2>4. /\ DOMAIN e = DbFields
        /\ e.scenario = dbus.scenario /\ e.state = dbus.state /\ e.session = dbus.session
        /\ e.said = dbus.said /\ e.disconnectSignalRequired = dbus.disconnectSignalRequired
        /\ e.jobPending = dbus.jobPending /\ e.device = dbus.device
        /\ e.pendingConnect = dbus.pendingConnect /\ e.signals = dbus.signals
        /\ e.waiting = dbus.waiting /\ e.calls = dbus.calls
        /\ e.dbusServices = dbus.dbusServices /\ e.jobs = q
        /\ e.serviceList = [dbus.serviceList EXCEPT ![s] = "Discovering"]
    BY <1>3 DEF DbFields
  <2>5. dbus' = ScheduleNextJob(e)
    BY <1>8 DEF q
  <2> HIDE DEF e
  <2>6. /\ DbShape(e) /\ DbSession(e)
        /\ \A k \in 1..Len(dbus.jobs) : dbus.jobs[k].op \in Open(dbus.calls) =>
             e.serviceList[LeHome[dbus.jobs[k].attr]] = "Discovered"
    <3>1. e.jobs \in Seq(DBusJobs)
      BY <2>3, <2>4
    <3>2. /\ e.serviceList = [dbus.serviceList EXCEPT ![s] = "Discovering"]
          /\ DOMAIN e = DbFields /\ e.scenario = dbus.scenario /\ e.state = dbus.state
      BY <2>4
    <3>3. dbus.serviceList[s] = "Remote" /\ dbus.state = "Discovered" /\ DbGood(dbus)
      BY <1>1, <1>2
    <3>4. DbShape(e)
      BY ONLY s \in LeServices, <2>4, <3>1, <3>2, <3>3, DbDetailsSame
    <3>5. DbSession(e)
      BY ONLY s \in LeServices, <2>4, <3>1, <3>2, <3>3, DbDetailsSame
    <3>6. \A k \in 1..Len(dbus.jobs) : dbus.jobs[k].op \in Open(dbus.calls) =>
            e.serviceList[LeHome[dbus.jobs[k].attr]] = "Discovered"
      <4>1. DbShape(dbus) /\ DbList(dbus)
        BY <3>3 DEF DbGood
      <4>2. \A x \in LeServices : x # s => e.serviceList[x] = dbus.serviceList[x]
        BY <3>2, <4>1 DEF DbShape
      <4> QED
        BY <3>3, <4>1, <4>2, DbDetailsListed
    <3> QED
      BY <3>4, <3>5, <3>6
  <2>7. 0 \notin Open(dbus.calls) /\ \A k \in 1..n : k \in 1..n + m
    BY <1>2, <2>1, <2>3, OpenParts
  <2>8. DbList(e)
    <3>1. ASSUME NEW k \in 1..n + m
          PROVE  /\ e.jobs[k].op <= Len(e.calls)
                 /\ e.jobs[k].op \in Open(e.calls) =>
                      e.serviceList[LeHome[e.jobs[k].attr]] = "Discovered"
      <4>1. CASE k \in 1..n
        BY SMTT(30), <1>2, <1>3, <2>3, <2>4, <2>6, <4>1 DEF DbList
      <4>2. CASE k \notin 1..n
        <5>1. e.jobs[k].op = 0 /\ Len(e.calls) \in Nat
          BY <1>2, <2>3, <2>4, <4>2
        <5> QED
          BY <2>4, <2>7, <5>1
      <4> QED
        BY <4>1, <4>2
    <3>2. \A k, l \in 1..n + m : e.jobs[k].op = e.jobs[l].op /\ e.jobs[k].op # 0 => k = l
      <4> SUFFICES ASSUME NEW k \in 1..n + m, NEW l \in 1..n + m,
                          e.jobs[k].op = e.jobs[l].op, e.jobs[k].op # 0
                   PROVE  k = l
        OBVIOUS
      <4>1. k \in 1..n /\ l \in 1..n
        BY <2>3, <2>4
      <4> QED
        BY <1>2, <1>3, <2>3, <2>4, <4>1 DEF DbList
    <3>3. \A op \in Open(e.calls) : \E k \in 1..n + m : e.jobs[k].op = op
      <4> TAKE op \in Open(e.calls)
      <4>1. PICK k \in 1..n : d.jobs[k].op = op
        BY <1>2, <1>3, <2>4 DEF DbList
      <4> QED
        BY <2>3, <2>4, <2>7, <4>1
    <3> QED
      BY <2>3, <2>4, <3>1, <3>2, <3>3 DEF DbList
  <2>9. DbReady(e) /\ DbOthers(e)
    <3>1. dbus.jobs # <<>> => 1 \in 1..n
      BY <1>2, <1>3 DEF DbShape
    <3>2. dbus.jobs # <<>> => /\ e.jobs[1].kind = dbus.jobs[1].kind
                              /\ e.jobs[1].op = dbus.jobs[1].op
      BY <1>3, <2>3, <2>4, <3>1
    <3> QED
      BY <1>2, <2>3, <2>4, <3>2, DbAddedReady
  <2> QED
    BY <1>2, <2>4, <2>5, <2>6, <2>8, <2>9, DbScheduleGood
<1>9. d.calls = dbus.calls /\ done.calls = dbus.calls
  BY <1>3, <1>4
<1> QED
  BY <1>1, <1>2, <1>5, <1>6, <1>7, <1>8, <1>9

\* The answer that has come is no longer waited for.
DbFrame(r, d) ==
  /\ DOMAIN r = DbFields
  /\ r.scenario = d.scenario /\ r.state = d.state /\ r.session = d.session /\ r.said = d.said
  /\ r.disconnectSignalRequired = d.disconnectSignalRequired /\ r.device = d.device
  /\ r.pendingConnect = d.pendingConnect /\ r.signals = d.signals
  /\ r.dbusServices = d.dbusServices

LEMMA DbRemovedParts ==
  ASSUME DbGood(dbus), NEW i \in 1..Len(dbus.waiting)
  PROVE  LET d == [dbus EXCEPT !.waiting = RemoveAt(@, i)]
         IN  /\ DbFrame(d, dbus) /\ d.jobs = dbus.jobs /\ d.jobPending = dbus.jobPending
             /\ d.serviceList = dbus.serviceList /\ d.calls = dbus.calls
             /\ d.waiting = RemoveAt(dbus.waiting, i)
             /\ DbShape(d) /\ DbSession(d) /\ DbList(d) /\ DbOthers(d)
             /\ ~DbCarries(dbus, i) \/ ~dbus.jobPending => DbGood(d)
             /\ DBusPatient /\ dbus.state # "Unconnected" /\ DbCarries(dbus, i) =>
                  /\ dbus.waiting[i].op = dbus.jobs[1].op
                  /\ \A k \in Nat : ~DbCarries(d, k)
<1> DEFINE d == [dbus EXCEPT !.waiting = RemoveAt(@, i)]
           n == Len(dbus.waiting)
<1>1. /\ DbShape(dbus) /\ DbSession(dbus) /\ DbList(dbus) /\ DbOthers(dbus)
      /\ DbPending(dbus) /\ DbCarried(dbus)
  BY DEF DbGood
<1>2. /\ DbFrame(d, dbus) /\ d.jobs = dbus.jobs /\ d.jobPending = dbus.jobPending
      /\ d.serviceList = dbus.serviceList /\ d.calls = dbus.calls
      /\ d.waiting = RemoveAt(dbus.waiting, i)
  BY <1>1 DEF DbShape, DbFields, DbFrame
<1> HIDE DEF d
<1>3. /\ d.waiting \in Seq(DbWaits) /\ Len(d.waiting) = n - 1 /\ n \in Nat
      /\ \A k \in 1..n - 1 : d.waiting[k] = IF k < i THEN dbus.waiting[k] ELSE dbus.waiting[k + 1]
  <2>1. dbus.waiting \in Seq(DbWaits)
    BY <1>1 DEF DbShape
  <2> QED
    BY <1>2, <2>1, RemoveAtParts
<1>4. \A k \in 1..n - 1 : /\ k \in 1..n /\ k + 1 \in 1..n
                          /\ k < i => k # i
                          /\ ~(k < i) => k + 1 # i
  BY <1>3
<1>5. /\ \A k \in Nat : DbCarries(d, k) =>
           \E l \in 1..n : l # i /\ DbCarries(dbus, l) /\ d.waiting[k] = dbus.waiting[l]
      /\ \A k \in 1..n - 1 : ~DbCarries(d, k) =>
           \E l \in 1..n : ~DbCarries(dbus, l) /\ d.waiting[k] = dbus.waiting[l]
  BY <1>3, <1>4 DEF DbCarries
<1>6. DbOthers(d)
  BY <1>1, <1>3, <1>5 DEF DbOthers
<1>7. DbShape(d)
  BY <1>1, <1>2, <1>3 DEF DbShape, DbFlags, DbFrame
<1>8. DbSession(d) /\ DbList(d)
  BY <1>1, <1>2 DEF DbSession, DbList, DbFrame
<1>9. ASSUME ~DbCarries(dbus, i) \/ ~dbus.jobPending
      PROVE  DbPending(d) /\ DbCarried(d)
  <2>1. ASSUME ~DbCarries(dbus, i), NEW l \in Nat, DbCarries(dbus, l)
        PROVE  LET k == IF l < i THEN l ELSE l - 1
               IN  k \in Nat /\ DbCarries(d, k) /\ d.waiting[k] = dbus.waiting[l]
    <3>1. l \in 1..n /\ l # i
      BY <2>1 DEF DbCarries
    <3>2. CASE l < i
      <4>1. l \in 1..n - 1 /\ d.waiting[l] = dbus.waiting[l]
        BY <1>3, <3>1, <3>2
      <4> QED
        BY <1>3, <2>1, <3>2, <4>1 DEF DbCarries
    <3>3. CASE ~(l < i)
      <4>1. l - 1 \in 1..n - 1 /\ ~(l - 1 < i) /\ l - 1 + 1 = l
        BY <1>3, <3>1, <3>3
      <4>2. d.waiting[l - 1] = dbus.waiting[l]
        BY <1>3, <4>1
      <4> QED
        BY <1>3, <2>1, <3>3, <4>1, <4>2 DEF DbCarries
    <3> QED
      BY <3>2, <3>3
  <2>2. dbus.jobPending => \E k \in Nat : DbCarries(d, k)
    BY <1>1, <1>9, <2>1 DEF DbPending
  <2>3. DbPending(d)
    BY <1>1, <1>2, <2>2 DEF DbPending
  <2>4. ASSUME DBusPatient, d.state # "Unconnected", NEW k \in Nat, DbCarries(d, k)
        PROVE  /\ d.jobPending /\ d.waiting[k] = Waiting(d.jobs[1].kind, d.jobs[1].op)
               /\ \A m \in Nat : DbCarries(d, m) => m = k
    <3>1. dbus.state # "Unconnected" /\ \A l \in 1..n : l \in Nat
      BY <1>2, <1>3, <2>4 DEF DbFrame
    <3>2. PICK l \in 1..n : l # i /\ DbCarries(dbus, l) /\ d.waiting[k] = dbus.waiting[l]
      BY <1>5, <2>4
    <3>3. /\ dbus.jobPending /\ dbus.waiting[l] = Waiting(dbus.jobs[1].kind, dbus.jobs[1].op)
          /\ \A m \in Nat : DbCarries(dbus, m) => m = l
      BY <1>1, <2>4, <3>1, <3>2 DEF DbCarried
    <3>4. ASSUME NEW m \in Nat, DbCarries(d, m)
          PROVE  m = k
      <4>1. /\ k \in 1..n - 1 /\ m \in 1..n - 1
            /\ d.waiting[k].kind \in LeCalls /\ d.waiting[m].kind \in LeCalls
        BY <1>3, <2>4, <3>4 DEF DbCarries
      <4>2. ASSUME NEW x \in 1..n - 1, d.waiting[x].kind \in LeCalls
            PROVE  IF x < i THEN x = l ELSE x + 1 = l
        <5>1. CASE x < i
          BY <1>3, <1>4, <3>3, <4>2, <5>1 DEF DbCarries
        <5>2. CASE ~(x < i)
          BY <1>3, <1>4, <3>3, <4>2, <5>2 DEF DbCarries
        <5> QED
          BY <5>1, <5>2
      <4>3. (IF k < i THEN k = l ELSE k + 1 = l) /\ (IF m < i THEN m = l ELSE m + 1 = l)
        BY <4>1, <4>2
      <4>4. k \in Nat /\ m \in Nat /\ i \in Nat /\ l \in Nat
        BY <2>4, <3>2, <3>4
      <4> QED
        BY ONLY <4>3, <4>4
    <3> QED
      BY <1>2, <3>2, <3>3, <3>4
  <2>5. DbCarried(d)
    BY <2>4 DEF DbCarried
  <2> QED
    BY <2>3, <2>5
<1>10. ASSUME DBusPatient, dbus.state # "Unconnected", DbCarries(dbus, i)
       PROVE  dbus.waiting[i].op = dbus.jobs[1].op /\ \A k \in Nat : ~DbCarries(d, k)
  <2>1. /\ dbus.waiting[i] = Waiting(dbus.jobs[1].kind, dbus.jobs[1].op)
        /\ \A k \in Nat : DbCarries(dbus, k) => k = i
    BY <1>1, <1>10 DEF DbCarried
  <2>2. \A l \in 1..n : l \in Nat
    OBVIOUS
  <2> QED
    BY <1>5, <2>1, <2>2 DEF Waiting
<1>11. ~DbCarries(dbus, i) \/ ~dbus.jobPending => DbGood(d)
  BY <1>6, <1>7, <1>8, <1>9 DEF DbGood
<1> QED
  BY <1>2, <1>6, <1>7, <1>8, <1>10, <1>11 DEF d

\* A call is answered by the answer of its own D-Bus call.
DbOwn(r) ==
  \A op \in Open(dbus.calls) : r.calls[op] \in {"ok", "error"} =>
    /\ \E k \in 1..Len(dbus.waiting) : dbus.waiting[k].op = op
    /\ \A k \in 1..Len(r.waiting) : r.waiting[k].op # op

\* The answer of the pending job: it is taken from the list, and its call from those that
\* are open.
LEMMA DbFinishedGood ==
  ASSUME DbGood(dbus), NEW i \in 1..Len(dbus.waiting), DbCarries(dbus, i), dbus.jobPending,
         NEW e, DbFrame(e, dbus), e.jobs = dbus.jobs, e.waiting = RemoveAt(dbus.waiting, i),
         \/ e.serviceList = dbus.serviceList
         \/ \E s \in LeServices : /\ dbus.serviceList[s] # "none"
                                  /\ e.serviceList = [dbus.serviceList EXCEPT ![s] = "Discovered"],
         \/ e.calls = dbus.calls /\ dbus.jobs[1].op \notin Open(dbus.calls)
         \/ \E r \in {"ok", "error"} : e.calls = Answered(dbus.calls, dbus.jobs[1].op, r)
  PROVE  LET r == PrepareNextJob(e)
         IN  DbGood(r) /\ Len(r.calls) = Len(dbus.calls) /\ (DBusPatient => DbOwn(r))
<1> DEFINE n == Len(dbus.jobs)
           op == dbus.jobs[1].op
           f == [e EXCEPT !.jobs = Tail(@), !.jobPending = FALSE]
           w == RemoveAt(dbus.waiting, i)
<1>1. /\ DbShape(dbus) /\ DbSession(dbus) /\ DbList(dbus) /\ DbOthers(dbus) /\ DbPending(dbus)
  BY DEF DbGood
<1>2. /\ dbus.jobs \in Seq(DBusJobs) /\ dbus.calls \in Seq(LeResults) /\ dbus.jobs # <<>>
      /\ dbus.waiting \in Seq(DbWaits) /\ dbus.state \notin {"Unconnected", "Connecting"}
  BY <1>1 DEF DbShape, DbPending, DbSession
<1>3. /\ Tail(dbus.jobs) \in Seq(DBusJobs) /\ n \in Nat /\ n >= 1
      /\ Len(Tail(dbus.jobs)) = n - 1
      /\ \A k \in 1..n - 1 : Tail(dbus.jobs)[k] = dbus.jobs[k + 1]
  BY <1>2, TailParts
<1>4. /\ DbFrame(f, dbus) /\ f.jobs = Tail(dbus.jobs) /\ f.jobPending = FALSE
      /\ f.waiting = w /\ f.serviceList = e.serviceList /\ f.calls = e.calls
  BY DEF DbFrame, DbFields
<1>5. PrepareNextJob(e) = ScheduleNextJob(f)
  BY DEF PrepareNextJob
<1> HIDE DEF f, w
<1>6. /\ w \in Seq(DbWaits)
      /\ \A k \in 1..Len(w) : w[k].kind \notin LeCalls => w[k].op = 0
      /\ DBusPatient => /\ dbus.waiting[i].op = op
                        /\ \A k \in 1..Len(w) : w[k].kind \notin LeCalls
  <2> DEFINE d == [dbus EXCEPT !.waiting = RemoveAt(@, i)]
  <2>1. /\ d.waiting = w /\ DbShape(d) /\ DbOthers(d)
        /\ DBusPatient => dbus.waiting[i].op = op /\ \A k \in Nat : ~DbCarries(d, k)
    BY <1>2, DbRemovedParts DEF w
  <2> HIDE DEF d
  <2>2. \A k \in 1..Len(w) : DbCarries(d, k) <=> w[k].kind \in LeCalls
    BY <2>1 DEF DbCarries
  <2>3. \A k \in 1..Len(w) : k \in Nat
    OBVIOUS
  <2> QED
    BY <2>1, <2>2, <2>3 DEF DbShape, DbOthers
<1>7. /\ e.calls \in Seq(LeResults) /\ Len(e.calls) = Len(dbus.calls)
      /\ Open(e.calls) = Open(dbus.calls) \ {op}
      /\ \A x \in Open(dbus.calls) : x # op => e.calls[x] = "open"
  <2>1. CASE e.calls = dbus.calls /\ op \notin Open(dbus.calls)
    BY <1>2, <2>1 DEF Open
  <2>2. ASSUME NEW r \in {"ok", "error"}, e.calls = Answered(dbus.calls, op, r)
        PROVE  <1>7!:
    <3>1. r \in LeResults /\ r # "open"
      BY DEF LeResults
    <3>2. e.calls \in Seq(LeResults)
      BY <1>2, <2>2, <3>1, AnsweredParts
    <3>3. /\ Len(e.calls) = Len(dbus.calls) /\ Open(e.calls) = Open(dbus.calls) \ {op}
          /\ Open(dbus.calls) \subseteq 1..Len(dbus.calls)
          /\ \A x \in 1..Len(dbus.calls) : e.calls[x] =
               IF x = op /\ x \in Open(dbus.calls) THEN r ELSE dbus.calls[x]
      BY <1>2, <2>2, <3>1, OpenParts
    <3> QED
      BY <3>2, <3>3 DEF Open
  <2> QED
    BY <2>1, <2>2
<1>8. /\ e.serviceList \in [LeServices -> ServiceStates]
      /\ \A s \in LeServices : /\ e.serviceList[s] # "none" => dbus.serviceList[s] # "none"
                               /\ dbus.serviceList[s] = "Discovered" => e.serviceList[s] = "Discovered"
      /\ dbus.state # "Discovered" => e.serviceList = NoServices
  <2>1. dbus.serviceList \in [LeServices -> ServiceStates]
    BY <1>1 DEF DbShape
  <2>2. CASE e.serviceList = dbus.serviceList
    BY <1>1, <2>1, <2>2 DEF DbSession
  <2>3. ASSUME NEW s \in LeServices, dbus.serviceList[s] # "none",
               e.serviceList = [dbus.serviceList EXCEPT ![s] = "Discovered"]
        PROVE  <1>8!:
    <3>1. dbus.state = "Discovered"
      BY <1>1, <2>3 DEF DbSession, NoServices
    <3> QED
      BY <2>1, <2>3, <3>1 DEF ServiceStates
  <2> QED
    BY <2>2, <2>3
<1>9. DbShape(f)
  BY <1>1, <1>3, <1>4, <1>6, <1>7, <1>8 DEF DbShape, DbFlags, DbFrame
<1>10. DbSession(f)
  <2>1. /\ f.state = dbus.state /\ f.said = dbus.said /\ f.dbusServices = dbus.dbusServices
        /\ f.disconnectSignalRequired = dbus.disconnectSignalRequired
        /\ f.pendingConnect = dbus.pendingConnect /\ f.serviceList = e.serviceList
    BY <1>4 DEF DbFrame
  <2> QED
    BY <1>1, <1>2, <1>8, <2>1 DEF DbSession
<1>11. DbList(f)
  <2>1. /\ Len(f.jobs) = n - 1 /\ Open(f.calls) = Open(dbus.calls) \ {op}
        /\ Len(f.calls) = Len(dbus.calls) /\ f.serviceList = e.serviceList
        /\ \A k \in 1..n - 1 : f.jobs[k] = dbus.jobs[k + 1] /\ k + 1 \in 1..n
    BY <1>3, <1>4, <1>7
  <2>2. \A k \in 1..n : LeHome[dbus.jobs[k].attr] \in LeServices
    <3> TAKE k \in 1..n
    <3>1. dbus.jobs[k] \in DBusJobs
      BY <1>2
    <3> QED
      BY <3>1, LeAssumption DEF DBusJobs
  <2>3. \A k \in 1..n - 1 :
          /\ f.jobs[k].op <= Len(f.calls)
          /\ f.jobs[k].op \in Open(f.calls) => f.serviceList[LeHome[f.jobs[k].attr]] = "Discovered"
    BY SMTT(30), <1>1, <1>8, <2>1, <2>2 DEF DbList
  <2>4. ASSUME NEW k \in 1..n - 1, NEW l \in 1..n - 1, f.jobs[k].op = f.jobs[l].op, f.jobs[k].op # 0
        PROVE  k = l
    <3>1. \A a, b \in 1..n : dbus.jobs[a].op = dbus.jobs[b].op /\ dbus.jobs[a].op # 0 => a = b
      BY <1>1 DEF DbList
    <3>2. /\ k + 1 \in 1..n /\ l + 1 \in 1..n
          /\ dbus.jobs[k + 1].op = dbus.jobs[l + 1].op /\ dbus.jobs[k + 1].op # 0
      BY <2>1, <2>4
    <3>3. k + 1 = l + 1
      BY ONLY <3>1, <3>2
    <3> QED
      BY <3>3
  <2>5. ASSUME NEW x \in Open(f.calls)
        PROVE  \E k \in 1..n - 1 : f.jobs[k].op = x
    <3>1. PICK l \in 1..n : dbus.jobs[l].op = x /\ x # op
      BY <1>1, <2>1, <2>5 DEF DbList
    <3>2. l - 1 \in 1..n - 1 /\ l - 1 + 1 = l
      BY <1>3, <3>1
    <3> QED
      BY <2>1, <3>1, <3>2
  <2> QED
    BY <2>1, <2>3, <2>4, <2>5 DEF DbList
<1>12. DbOthers(f) /\ DbReady(f)
  <2>1. \A k : DbCarries(f, k) <=> k \in 1..Len(w) /\ w[k].kind \in LeCalls
    BY <1>4 DEF DbCarries
  <2>2. DbOthers(f)
    BY <1>4, <1>6, <2>1 DEF DbOthers
  <2> QED
    BY <1>4, <1>6, <2>1, <2>2 DEF DbReady
<1>13. /\ DbGood(ScheduleNextJob(f)) /\ ScheduleNextJob(f).calls = e.calls
       /\ \/ ScheduleNextJob(f).waiting = w
          \/ \E k \in 1..n - 1 : ScheduleNextJob(f).waiting =
               Append(w, Waiting(dbus.jobs[k + 1].kind, dbus.jobs[k + 1].op))
  <2>1. /\ DbGood(ScheduleNextJob(f)) /\ ScheduleNextJob(f).calls = f.calls
        /\ \/ ScheduleNextJob(f).waiting = f.waiting
           \/ \E k \in 1..Len(f.jobs) : ScheduleNextJob(f).waiting =
                Append(f.waiting, Waiting(f.jobs[k].kind, f.jobs[k].op))
    BY <1>9, <1>10, <1>11, <1>12, DbScheduleGood
  <2> QED
    BY <1>3, <1>4, <2>1
<1>14. ASSUME DBusPatient
       PROVE  DbOwn(PrepareNextJob(e))
  <2> SUFFICES ASSUME NEW x \in Open(dbus.calls), e.calls[x] \in {"ok", "error"}
               PROVE  /\ \E k \in 1..Len(dbus.waiting) : dbus.waiting[k].op = x
                      /\ \A k \in 1..Len(ScheduleNextJob(f).waiting) :
                           ScheduleNextJob(f).waiting[k].op # x
    BY <1>5, <1>13 DEF DbOwn
  <2>1. x = op /\ dbus.waiting[i].op = x /\ x # 0
    <3>1. Open(dbus.calls) \subseteq 1..Len(dbus.calls)
      BY <1>2, OpenParts
    <3> QED
      BY <1>6, <1>7, <1>14, <3>1
  <2>2. \A k \in 1..Len(w) : w[k].op # x
    BY <1>6, <1>14, <2>1
  <2>3. ASSUME NEW k \in 1..n - 1, ScheduleNextJob(f).waiting =
                 Append(w, Waiting(dbus.jobs[k + 1].kind, dbus.jobs[k + 1].op))
        PROVE  \A l \in 1..Len(ScheduleNextJob(f).waiting) : ScheduleNextJob(f).waiting[l].op # x
    <3> DEFINE v == Waiting(dbus.jobs[k + 1].kind, dbus.jobs[k + 1].op)
    <3>1. k + 1 \in 1..n /\ 1 \in 1..n /\ k + 1 # 1
      BY <1>3, <2>3
    <3>2. v.op # x
      BY <1>1, <2>1, <3>1 DEF DbList, Waiting
    <3>3. Len(w) \in Nat /\ Len(Append(w, v)) = Len(w) + 1 /\ Append(w, v)[Len(w) + 1] = v
          /\ \A l \in 1..Len(w) : Append(w, v)[l] = w[l]
      <4>1. v \in {v} \cup DbWaits /\ w \in Seq({v} \cup DbWaits)
        BY <1>6
      <4> HIDE DEF v
      <4> QED
        BY <4>1, AppendParts
    <3>4. \A l \in 1..Len(w) + 1 : l \in 1..Len(w) \/ l = Len(w) + 1
      BY <3>3
    <3> QED
      BY <2>2, <2>3, <3>2, <3>3, <3>4
  <2> QED
    BY <1>13, <2>1, <2>2, <2>3
<1> QED
  BY <1>5, <1>7, <1>13, <1>14

LEMMA DbReadFinished ==
  ASSUME DbGood(dbus), NEW i \in 1..Len(dbus.waiting), DbCarries(dbus, i), NEW ok \in BOOLEAN,
         NEW r, LET d == [dbus EXCEPT !.waiting = RemoveAt(@, i)]
                IN  r = OnReadFinished(d, ok) \/ r = OnWriteFinished(d, ok)
  PROVE  DbGood(r) /\ Len(r.calls) = Len(dbus.calls) /\ (DBusPatient => DbOwn(r))
<1> DEFINE d == [dbus EXCEPT !.waiting = RemoveAt(@, i)]
           job == Head(dbus.jobs)
           s == LeHome[job.attr]
           result == IF ok THEN "ok" ELSE "error"
           told == [d EXCEPT !.calls = Answered(@, job.op, result)]
           found == [d EXCEPT !.serviceList[s] = "Discovered"]
<1>1. /\ DbFrame(d, dbus) /\ d.jobs = dbus.jobs /\ d.jobPending = dbus.jobPending
      /\ d.serviceList = dbus.serviceList /\ d.calls = dbus.calls
      /\ d.waiting = RemoveAt(dbus.waiting, i)
      /\ ~dbus.jobPending => DbGood(d)
  BY DbRemovedParts
<1>2. /\ told.serviceList = d.serviceList /\ DbFrame(told, dbus) /\ told.jobs = d.jobs
      /\ told.waiting = d.waiting /\ told.calls = Answered(d.calls, job.op, result)
      /\ found.serviceList = [d.serviceList EXCEPT ![s] = "Discovered"] /\ DbFrame(found, dbus)
      /\ found.jobs = d.jobs /\ found.waiting = d.waiting /\ found.calls = d.calls
  BY <1>1 DEF DbFrame, DbFields
<1> HIDE DEF d, told, found
<1>3. /\ r = OnReadFinished(d, ok) \/ r = OnWriteFinished(d, ok)
      /\ d.jobPending <=> d.jobs # <<>>
  BY <1>1 DEF d, DbGood, DbPending
<1>4. CASE ~dbus.jobPending
  <2>1. r = d
    BY <1>1, <1>3, <1>4 DEF OnReadFinished, OnWriteFinished
  <2>2. dbus.calls \in Seq(LeResults)
    BY DEF DbGood, DbShape
  <2>3. DbUnanswered(dbus.calls, dbus.calls)
    BY <2>2, DbUnansweredParts
  <2>4. DbOwn(d)
    BY <1>1, <2>3 DEF DbOwn, DbUnanswered
  <2> QED
    BY <1>1, <1>4, <2>1, <2>4
<1>5. CASE dbus.jobPending
  <2>1. /\ dbus.jobs \in Seq(DBusJobs) /\ dbus.jobs # <<>> /\ dbus.calls \in Seq(LeResults)
        /\ \A x \in LeServices : dbus.serviceList[x] # "none" => x \in dbus.dbusServices
    BY <1>1, <1>3, <1>5 DEF DbGood, DbShape, DbSession
  <2>2. /\ job = dbus.jobs[1] /\ job \in DBusJobs /\ 1 \in 1..Len(dbus.jobs)
    BY <2>1, TailParts
  <2>3. s \in LeServices
    BY <2>2, LeAssumption DEF DBusJobs
  <2>4. job.op \in Open(dbus.calls) => dbus.serviceList[s] = "Discovered" /\ s \in dbus.dbusServices
    BY <2>1, <2>2, <2>3 DEF DbGood, DbList
  <2>5. job.disc => job.op \notin Open(dbus.calls)
    <3>1. Open(dbus.calls) \subseteq 1..Len(dbus.calls)
      BY <2>1, OpenParts
    <3> QED
      BY <2>2, <3>1 DEF DBusJobs
  <2>6. Runnable(d, job) <=> /\ dbus.serviceList[s] \in {"Discovering", "Discovered"}
                             /\ s \in dbus.dbusServices
    BY <1>1 DEF Runnable, ServiceForHandle, DbFrame
  <2>7. ASSUME r = OnReadFinished(d, ok)
        PROVE  \/ /\ r = PrepareNextJob(d) /\ job.op \notin Open(dbus.calls)
               \/ r = PrepareNextJob(told)
               \/ /\ r = PrepareNextJob(found) /\ job.op \notin Open(dbus.calls)
                  /\ dbus.serviceList[s] # "none"
    <3>1. r = PrepareNextJob(IF ~Runnable(d, job) THEN d
                             ELSE IF job.disc THEN IF ok /\ job.last THEN found ELSE d
                             ELSE told)
      BY <1>1, <1>3, <1>5, <2>7 DEF OnReadFinished, told, found
    <3> HIDE DEF job, s
    <3> QED
      BY <2>4, <2>5, <2>6, <3>1
  <2>8. ASSUME r = OnWriteFinished(d, ok)
        PROVE  \/ /\ r = PrepareNextJob(d) /\ job.op \notin Open(dbus.calls)
               \/ r = PrepareNextJob(told)
    <3>1. r = PrepareNextJob(IF s \notin d.dbusServices THEN d ELSE told)
      BY <1>1, <1>3, <1>5, <2>8 DEF OnWriteFinished, told
    <3>2. d.dbusServices = dbus.dbusServices
      BY <1>1 DEF DbFrame
    <3> HIDE DEF job, s
    <3> QED
      BY <2>4, <3>1, <3>2
  <2>9. ASSUME NEW e \in {d, told, found}, r = PrepareNextJob(e),
               \/ e = d /\ job.op \notin Open(dbus.calls)
               \/ e = told
               \/ e = found /\ job.op \notin Open(dbus.calls) /\ dbus.serviceList[s] # "none"
        PROVE  DbGood(r) /\ Len(r.calls) = Len(dbus.calls) /\ (DBusPatient => DbOwn(r))
    <3>1. /\ DbFrame(e, dbus) /\ e.jobs = dbus.jobs /\ e.waiting = RemoveAt(dbus.waiting, i)
      BY <1>1, <1>2, <2>9
    <3>2. \/ e.serviceList = dbus.serviceList
          \/ \E x \in LeServices : /\ dbus.serviceList[x] # "none"
                                   /\ e.serviceList = [dbus.serviceList EXCEPT ![x] = "Discovered"]
      BY <1>1, <1>2, <2>3, <2>9
    <3>3. \/ e.calls = dbus.calls /\ dbus.jobs[1].op \notin Open(dbus.calls)
          \/ \E y \in {"ok", "error"} : e.calls = Answered(dbus.calls, dbus.jobs[1].op, y)
      BY <1>1, <1>2, <2>2, <2>9
    <3> QED
      BY <1>5, <2>9, <3>1, <3>2, <3>3, DbFinishedGood
  <2> QED
    BY <1>3, <2>7, <2>8, <2>9
<1> QED
  BY <1>4, <1>5

LEMMA DbReplyInv ==
  ASSUME DbGood(dbus), NEW i \in DOMAIN dbus.waiting, Reply(i)
  PROVE  DbGood(dbus') /\ (DBusPatient => DbOwn(dbus'))
<1> DEFINE d == [dbus EXCEPT !.waiting = RemoveAt(@, i)]
           kind == dbus.waiting[i].kind
<1>1. /\ DbShape(dbus) /\ DbSession(dbus) /\ dbus.calls \in Seq(LeResults)
      /\ dbus.waiting \in Seq(DbWaits) /\ i \in 1..Len(dbus.waiting)
  BY DEF DbGood, DbShape
<1>2. \/ kind \in {"Connect", "Disconnect"} /\ (dbus' = d \/ dbus' = ExecuteClose(d))
      \/ /\ kind \in LeCalls
         /\ \E ok \in BOOLEAN : dbus' = OnReadFinished(d, ok) \/ dbus' = OnWriteFinished(d, ok)
  BY DEF Reply, LeCalls
<1>3. kind \in LeCalls <=> DbCarries(dbus, i)
  BY <1>1 DEF DbCarries
<1>4. /\ DbShape(d) /\ DbSession(d) /\ DbOthers(d) /\ d.calls = dbus.calls
      /\ ~DbCarries(dbus, i) => DbGood(d)
  BY <1>1, DbRemovedParts
<1>5. CASE kind \in {"Connect", "Disconnect"}
  <2>1. ~DbCarries(dbus, i) /\ (dbus' = d \/ dbus' = ExecuteClose(d))
    BY <1>2, <1>3, <1>5 DEF LeCalls
  <2> HIDE DEF d
  <2>2. DbGood(ExecuteClose(d)) /\ ExecuteClose(d).calls = Dropped(d.calls, DOMAIN d.calls)
    <3>1. d.said = "connected" <=> d.disconnectSignalRequired
      BY <1>4 DEF DbSession
    <3> QED
      BY <1>4, <3>1, DbCloseGood
  <2>3. DbUnanswered(dbus'.calls, dbus.calls)
    <3>1. CASE dbus' = d
      BY <1>1, <1>4, <3>1, DbUnansweredParts
    <3>2. CASE dbus' = ExecuteClose(d)
      BY <1>1, <1>4, <2>2, <3>2, DbUnansweredParts
    <3> QED
      BY <2>1, <3>1, <3>2
  <2> QED
    BY <1>4, <2>1, <2>2, <2>3 DEF DbOwn, DbUnanswered
<1>6. CASE kind \in LeCalls
  <2>1. PICK ok \in BOOLEAN : dbus' = OnReadFinished(d, ok) \/ dbus' = OnWriteFinished(d, ok)
    BY <1>2, <1>6 DEF LeCalls
  <2> QED
    BY <1>1, <1>3, <1>6, <2>1, DbReadFinished
<1> QED
  BY <1>2, <1>5, <1>6

\* Every step keeps this, and no answer goes to another call.
LEMMA DbNextInv ==
  ASSUME DbGood(dbus), [DBusNext]_dbusVars
  PROVE  DbGood(dbus') /\ (DBusPatient => DbOwn(dbus'))
<1>1. ASSUME DbUnanswered(dbus'.calls, dbus.calls)
      PROVE  DbOwn(dbus')
  BY <1>1 DEF DbOwn, DbUnanswered
<1>2. CASE UNCHANGED dbusVars
  <2>1. dbus' = dbus /\ dbus.calls \in Seq(LeResults)
    BY <1>2 DEF dbusVars, DbGood, DbShape
  <2> QED
    BY <1>1, <2>1, DbUnansweredParts
<1>3. CASE ConnectToDevice
  BY <1>3, DbConnectInv DEF DbOwn
<1>4. CASE DisconnectFromDevice
  BY <1>1, <1>4, DbDisconnectInv
<1>5. CASE DiscoverServices
  BY <1>1, <1>5, DbDiscoverInv
<1>6. ASSUME NEW s \in LeServices, NEW full \in BOOLEAN, DiscoverServiceDetails(s, full)
      PROVE  DbGood(dbus') /\ (DBusPatient => DbOwn(dbus'))
  BY <1>1, <1>6, DbDetailsInv
<1>7. ASSUME NEW a \in LeAttributes, NEW kind \in CallKinds(a), AccessAttribute(a, kind)
      PROVE  DbGood(dbus') /\ (DBusPatient => DbOwn(dbus'))
  BY <1>1, <1>7, DbAccessInv
<1>8. ASSUME NEW i \in DOMAIN dbus.waiting, Reply(i)
      PROVE  DbGood(dbus') /\ (DBusPatient => DbOwn(dbus'))
  BY <1>8, DbReplyInv
<1>9. CASE DevicePropertiesChanged
  BY <1>1, <1>9, DbSignalsInv
<1>10. ASSUME NEW s \in LeServices, ServiceWithdrawn(s)
       PROVE  DbGood(dbus') /\ (DBusPatient => DbOwn(dbus'))
  BY <1>1, <1>10, DbWithdrawnInv
<1>11. CASE LinkUp \/ Resolve \/ LinkDown \/ InterfacesRemoved
  BY <1>1, <1>11, DbLinkInv
<1> QED
  BY <1>2, <1>3, <1>4, <1>5, <1>6, <1>7, <1>8, <1>9, <1>10, <1>11 DEF DBusNext

DbLinkType == link \in [up : BOOLEAN, resolved : BOOLEAN]
LEMMA DbLinkTyped ==
  ASSUME DbLinkType, [DBusNext]_dbusVars
  PROVE  DbLinkType'
<1> USE DEF DbLinkType
<1>1. CASE UNCHANGED link
  BY <1>1
<1>2. CASE LinkUp
  BY <1>2, link' = [link EXCEPT !.up = TRUE] DEF LinkUp
<1>3. CASE Resolve
  BY <1>3, link' = [link EXCEPT !.resolved = TRUE] DEF Resolve
<1>4. CASE LinkDown \/ InterfacesRemoved
  <2>1. link' = [up |-> FALSE, resolved |-> FALSE]
    BY <1>4, Zenon DEF LinkDown, InterfacesRemoved
  <2> QED
    BY ONLY <2>1
<1>5. \/ UNCHANGED link
      \/ LinkUp \/ Resolve \/ LinkDown \/ InterfacesRemoved
  BY DEF dbusVars, DBusNext, ConnectToDevice, DisconnectFromDevice, DiscoverServices,
         DiscoverServiceDetails, AccessAttribute, Reply, DevicePropertiesChanged,
         ServiceWithdrawn
<1> QED
  BY <1>1, <1>2, <1>3, <1>4, <1>5

\* What an application is promised of it.
LEMMA DbPromise ==
  ASSUME DbGood(dbus), DbLinkType
  PROVE  DBusTypeOK /\ DBusJobsMove /\ DBusAnnounced
<1>1. /\ DbShape(dbus) /\ DbFlags(dbus) /\ DbSession(dbus) /\ DbList(dbus) /\ DbPending(dbus)
  BY DEF DbGood, DbShape
<1>2. DBusTypeOK
  BY <1>1 DEF DbShape, DbFlags, DBusTypeOK, DbLinkType, DbWaits
<1>3. DBusJobsMove
  <2>1. dbus.jobs \in Seq(DBusJobs) /\ dbus.waiting \in Seq(DbWaits)
    BY <1>1 DEF DbShape
  <2>2. DOMAIN dbus.jobs = 1..Len(dbus.jobs) /\ DOMAIN dbus.waiting = 1..Len(dbus.waiting)
    BY <2>1
  <2> QED
    BY <1>1, <2>2 DEF DBusJobsMove, DbPending, DbCarries, DbList
<1>4. DBusAnnounced
  BY <1>1 DEF DBusAnnounced, DbSession, DbFlags
<1> QED
  BY <1>2, <1>3, <1>4

-----------------------------------------------------------------------------
(* AndroidController: Android *)

\* Android reports the end of a connection once, disconnectFromDevice() does not meet its
\* beginning, and connectToDevice() waits until no job of the last one is pending.
AgOrderly == \A c \in AgScenarios : {"reuse", "closeRace", "zombie"} \cap c.may = {}

\* Jobs, messages and signals.
AgWork ==
  {j \in AgJobs : j.type # "none" /\ (j.type = "Mtu" \/ j.handle \in DOMAIN Entries)}
AgRequests == {j \in AgWork : j.type \in {"Read", "Write"}}
AgSessions == 1..LeMaxSessions
AgTasks ==
  [task : {"io"}, of : {0}] \cup [task : {"mtuChanged"}, of : AgSessions]
    \cup [task : {"services"}, of : AgSessions, ok : BOOLEAN]
    \cup [task : {"connection"}, of : AgSessions, up : BOOLEAN, ok : BOOLEAN]
    \cup [task : {"answer"}, of : AgSessions, job : AgRequests, ok : BOOLEAN]
AgSignals ==
  [signal : {"connection"}, up : BOOLEAN, ok : BOOLEAN]
    \cup [signal : {"servicesDiscovered"}, ok : BOOLEAN]
    \cup [signal : {"detailsFinished"}, service : LeServices]
    \cup [signal : {"read", "error"}, handle : DOMAIN Entries, op : 0..LeMaxCalls]
    \cup [signal : {"written"}, handle : DOMAIN Entries, op : 0..LeMaxCalls, ok : BOOLEAN]

AgFields ==
  {"mBluetoothGatt", "entries", "valueKnown", "servicesToBeDiscovered", "readWriteQueue",
   "pendingJob", "handleForTimeout", "handler", "toQt", "conns", "busy", "discovering", "bond"}
AgShape(g) ==
  /\ DOMAIN g = AgFields
  /\ g.mBluetoothGatt \in 0..LeMaxSessions /\ g.entries \in BOOLEAN
  /\ g.valueKnown \subseteq DOMAIN Entries
  /\ g.servicesToBeDiscovered \in Seq(DOMAIN Entries)
  /\ g.readWriteQueue \in Seq(AgWork) /\ g.pendingJob \in AgWork \cup {NoJob}
  /\ g.handler \in Seq(AgTasks) /\ g.toQt \in Seq(AgSignals)
  /\ g.conns \in [AgSessions -> {"none", "connecting", "abandoned", "up", "closing", "down", "closed"}]
  /\ g.busy \in AgRequests \cup {NoJob} /\ g.discovering \in BOOLEAN
  /\ g.bond \in {"none", "bonding", "ended"}

\* The gate stands for the pending job, which has its watchdog or waits for a pairing.
AgPending(g) ==
  /\ g.handleForTimeout # HandleForReset =>
       /\ g.pendingJob # NoJob
       /\ g.handleForTimeout = ModifiedHandle(g.pendingJob.handle, g.pendingJob.type)
  /\ g.mBluetoothGatt # 0 /\ g.pendingJob # NoJob =>
       /\ g.handleForTimeout # HandleForReset \/ (g.bond = "bonding" /\ g.pendingJob.type # "Mtu")
       /\ g.pendingJob.type # "Mtu" => g.entries
\* Requests need the handles of a discovery, and Android's messages are of mBluetoothGatt.
AgQueue(g) ==
  /\ g.mBluetoothGatt = 0 =>
       /\ ~g.entries /\ ~g.discovering
       /\ g.handleForTimeout = HandleForReset /\ g.readWriteQueue = <<>>
  /\ g.busy # NoJob => g.entries
  /\ \A i \in 1..Len(g.readWriteQueue) : g.readWriteQueue[i].type # "Mtu" => g.entries
  /\ \A i \in 1..Len(g.handler) :
       /\ g.handler[i].task = "answer" => g.entries
       /\ g.handler[i].of # 0 => g.handler[i].of = g.mBluetoothGatt

\* The controller
InTree(s) == \E i \in DOMAIN AgTree : AgTree[i].service = s
AgUp == {"Connected", "Discovering", "Discovered", "Closing"}
AgControl(d) ==
  /\ DOMAIN d = {"state", "serviceList", "calls", "said", "session", "crashed", "scenario"}
  /\ d.state \in ControllerStates /\ d.said \in {"connected", "disconnected"}
  /\ d.serviceList \in [LeServices -> ServiceStates]
  /\ d.calls \in Seq(LeResults \cup {"lost"}) /\ Len(d.calls) <= LeMaxCalls
  /\ d.session \in 0..LeMaxSessions /\ d.scenario \in AgScenarios
  /\ d.said = "connected" <=> d.state \in AgUp
  /\ d.state \notin AgUp => d.serviceList = NoServices
  /\ \A s \in LeServices : d.serviceList[s] # "none" => InTree(s)

\* Nothing is under way for a controller that is not connected.
AgIdle(g) ==
  /\ ~g.discovering /\ ~g.entries /\ g.busy = NoJob /\ g.readWriteQueue = <<>>
  /\ g.mBluetoothGatt # 0 => g.pendingJob = NoJob
  /\ \A i \in 1..Len(g.handler) : g.handler[i].of # 0 => g.handler[i].task = "connection"
  /\ \A i \in 1..Len(g.toQt) : g.toQt[i].signal # "servicesDiscovered"

\* Reports on the connection, on their way to the thread of mHandler and to that of Qt.
Reported(g, i) == i \in 1..Len(g.handler) /\ g.handler[i].task = "connection"
Signalled(g, i) == i \in 1..Len(g.toQt) /\ g.toQt[i].signal = "connection"
Live(g, k) == k \in AgSessions /\ g.conns[k] \in {"connecting", "up", "closing"}
\* Android works on mBluetoothGatt only, and for a controller that waits for it.
AgLives(g, state) ==
  /\ \A k \in AgSessions : Live(g, k) => k = g.mBluetoothGatt /\ state # "Unconnected"
  /\ \A k \in AgSessions : g.conns[k] = "connecting" => state = "Connecting"
\* What is reported is of an attempt that has ended, or of the end of a connection.
AgSilent(g, state) ==
  (state = "Unconnected" \/ \E k \in AgSessions : g.conns[k] = "connecting") =>
    \A i \in Nat : ~Reported(g, i) /\ ~Signalled(g, i)
\* A connection is reported once, and before its end.
AgUpReported(g, state) ==
  \A i \in Nat : Reported(g, i) /\ g.handler[i].up =>
    /\ state = "Connecting" /\ \A j \in Nat : ~Signalled(g, j)
    /\ \A j \in Nat : Reported(g, j) /\ j # i => j > i /\ ~g.handler[j].up /\ g.handler[i].ok
    /\ ~g.handler[i].ok => \A k \in AgSessions : ~Live(g, k)
AgUpSignalled(g, state) ==
  \A i \in Nat : Signalled(g, i) /\ g.toQt[i].up =>
    /\ state = "Connecting"
    /\ \A j \in Nat : Signalled(g, j) /\ j # i => j > i /\ ~g.toQt[j].up /\ g.toQt[i].ok
    /\ \A j \in Nat : Reported(g, j) => ~g.handler[j].up /\ g.toQt[i].ok
    /\ ~g.toQt[i].ok => \A k \in AgSessions : ~Live(g, k)
\* The end of a connection is the last thing that is reported of it.
AgDownReported(g) ==
  \A i \in Nat : Reported(g, i) /\ ~g.handler[i].up =>
    /\ \A k \in AgSessions : ~Live(g, k)
    /\ \A j \in Nat : Reported(g, j) /\ ~g.handler[j].up => j = i
AgDownSignalled(g) ==
  \A i \in Nat : Signalled(g, i) /\ ~g.toQt[i].up =>
    /\ g.mBluetoothGatt = 0
    /\ \A j \in 1..Len(g.toQt) : j > i =>
         g.toQt[j].signal \notin {"connection", "servicesDiscovered"}
AgReports(g, state) ==
  /\ AgLives(g, state) /\ AgSilent(g, state)
  /\ AgUpReported(g, state) /\ AgUpSignalled(g, state)
  /\ AgDownReported(g) /\ AgDownSignalled(g)

AgGood(g, d) ==
  /\ AgShape(g) /\ AgPending(g) /\ AgQueue(g) /\ AgControl(d) /\ AgReports(g, d.state)
  /\ d.state \notin AgUp => AgIdle(g)

-----------------------------------------------------------------------------
(* The entries: those of a service are below it, in the order of the handles. *)

AgEntries ==
  {e \in [type : {"Service", "Characteristic", "CharacteristicValue", "Descriptor"},
          service : LeServices, attr : LeAttributes \cup {0}] : InTree(e.service)}

\* The entries of the characteristic c of the service s, and those of the service i.
CharEntries(s, c) ==
  <<AgEntry("Characteristic", s, c.char), AgEntry("CharacteristicValue", s, 0)>>
    \o [k \in DOMAIN c.descs |-> AgEntry("Descriptor", s, c.descs[k])]
CharsEntries(i) ==
  [j \in DOMAIN AgTree[i].chars |-> CharEntries(AgTree[i].service, AgTree[i].chars[j])]
ServiceEntries(i) ==
  <<AgEntry("Service", AgTree[i].service, 0)>> \o FlattenSeq(CharsEntries(i))

LEMMA EntriesAre == Entries = FlattenSeq([i \in DOMAIN AgTree |-> ServiceEntries(i)])
BY DEF Entries, ServiceEntries, CharsEntries, CharEntries

LEMMA TreeParts ==
  ASSUME NEW i \in DOMAIN AgTree
  PROVE  /\ AgTree[i].service \in LeServices /\ InTree(AgTree[i].service)
         /\ AgTree[i].chars \in Seq([char : LeAttributes, descs : Seq(LeAttributes)])
         /\ DOMAIN AgTree[i].chars = 1..Len(AgTree[i].chars) /\ Len(AgTree[i].chars) \in Nat
         /\ \A j \in DOMAIN AgTree[i].chars :
              /\ AgTree[i].chars[j].char \in LeAttributes
              /\ AgTree[i].chars[j].descs \in Seq(LeAttributes)
<1> DEFINE chars == [char : LeAttributes, descs : Seq(LeAttributes)]
<1>1. AgTree[i] \in [service : LeServices, chars : Seq(chars)]
  <2> DEFINE T == [service : LeServices, chars : Seq(chars)]
  <2>1. AgTree \in Seq(T)
    BY AgTreeAssumption, Zenon
  <2> HIDE DEF T
  <2>2. AgTree[i] \in T
    BY <2>1
  <2> QED
    BY <2>2 DEF T
<1>2. AgTree[i].service \in LeServices /\ AgTree[i].chars \in Seq(chars)
  BY <1>1
<1>3. /\ DOMAIN AgTree[i].chars = 1..Len(AgTree[i].chars) /\ Len(AgTree[i].chars) \in Nat
      /\ \A j \in DOMAIN AgTree[i].chars : AgTree[i].chars[j] \in chars
  <2> HIDE DEF chars
  <2> QED
    BY <1>2
<1> QED
  BY <1>2, <1>3 DEF InTree

LEMMA CharEntriesParts ==
  ASSUME NEW s \in LeServices, InTree(s), NEW c, c.char \in LeAttributes,
         c.descs \in Seq(LeAttributes)
  PROVE  /\ CharEntries(s, c) \in Seq(AgEntries)
         /\ \E h \in 1..Len(CharEntries(s, c)) : CharEntries(s, c)[h].attr = c.char
         /\ \A k \in DOMAIN c.descs :
              \E h \in 1..Len(CharEntries(s, c)) : CharEntries(s, c)[h].attr = c.descs[k]
<1> DEFINE a == <<AgEntry("Characteristic", s, c.char), AgEntry("CharacteristicValue", s, 0)>>
           b == [k \in DOMAIN c.descs |-> AgEntry("Descriptor", s, c.descs[k])]
           x == CharEntries(s, c)
<1>1. /\ AgEntry("Characteristic", s, c.char) \in AgEntries
      /\ AgEntry("CharacteristicValue", s, 0) \in AgEntries
      /\ AgEntry("Characteristic", s, c.char).attr = c.char
  BY DEF AgEntry, AgEntries
<1>2. a \in Seq(AgEntries) /\ Len(a) = 2 /\ a[1].attr = c.char
  BY <1>1
<1>3. /\ DOMAIN c.descs = 1..Len(c.descs) /\ Len(c.descs) \in Nat
      /\ \A k \in DOMAIN c.descs : c.descs[k] \in LeAttributes
  OBVIOUS
<1>4. \A k \in DOMAIN c.descs : /\ AgEntry("Descriptor", s, c.descs[k]) \in AgEntries
                                /\ AgEntry("Descriptor", s, c.descs[k]).attr = c.descs[k]
  BY <1>3 DEF AgEntry, AgEntries
<1>5. /\ b \in [1..Len(c.descs) -> AgEntries]
      /\ \A k \in DOMAIN c.descs : b[k].attr = c.descs[k]
  BY <1>3, <1>4
<1> HIDE DEF a, b
<1>6. b \in Seq(AgEntries) /\ Len(b) = Len(c.descs)
  BY <1>3, <1>5, RewrittenParts
<1>7. x = a \o b
  BY DEF CharEntries, a, b
<1> HIDE DEF x
<1>8. a \in Seq(AgEntries) /\ b \in Seq(AgEntries)
  BY <1>2, <1>6
<1>9. x \in Seq(AgEntries)
  BY ONLY <1>7, <1>8, ConcatParts
<1>10. \A h \in 1..Len(a) : h \in 1..Len(x) /\ x[h] = a[h]
  BY ONLY <1>7, <1>8, ConcatParts
<1>11. \A h \in 1..Len(b) : Len(a) + h \in 1..Len(x) /\ x[Len(a) + h] = b[h]
  BY ONLY <1>7, <1>8, ConcatParts
<1>12. \E h \in 1..Len(x) : x[h].attr = c.char
  <2>1. 1 \in 1..Len(x) /\ x[1] = a[1]
    BY <1>2, <1>10
  <2> QED
    BY <1>2, <2>1
<1>13. \A k \in DOMAIN c.descs : \E h \in 1..Len(x) : x[h].attr = c.descs[k]
  BY <1>3, <1>5, <1>6, <1>11
<1> QED
  BY <1>9, <1>12, <1>13 DEF x

LEMMA ServiceEntriesParts ==
  ASSUME NEW i \in DOMAIN AgTree
  PROVE  /\ ServiceEntries(i) \in Seq(AgEntries) /\ Len(ServiceEntries(i)) \in Nat
         /\ 1 \in 1..Len(ServiceEntries(i))
         /\ ServiceEntries(i)[1] = AgEntry("Service", AgTree[i].service, 0)
         /\ \A j \in DOMAIN AgTree[i].chars :
              /\ \E h \in 1..Len(ServiceEntries(i)) :
                   ServiceEntries(i)[h].attr = AgTree[i].chars[j].char
              /\ \A k \in DOMAIN AgTree[i].chars[j].descs :
                   \E h \in 1..Len(ServiceEntries(i)) :
                     ServiceEntries(i)[h].attr = AgTree[i].chars[j].descs[k]
<1> DEFINE s == AgTree[i].service
           chars == AgTree[i].chars
           ss == CharsEntries(i)
           a == <<AgEntry("Service", s, 0)>>
           b == FlattenSeq(ss)
           x == ServiceEntries(i)
<1>1. /\ s \in LeServices /\ InTree(s) /\ DOMAIN chars = 1..Len(chars) /\ Len(chars) \in Nat
      /\ \A j \in DOMAIN chars : chars[j].char \in LeAttributes /\ chars[j].descs \in Seq(LeAttributes)
  BY TreeParts
<1>2. \A j \in DOMAIN chars :
        /\ CharEntries(s, chars[j]) \in Seq(AgEntries)
        /\ \E h \in 1..Len(CharEntries(s, chars[j])) :
             CharEntries(s, chars[j])[h].attr = chars[j].char
        /\ \A k \in DOMAIN chars[j].descs :
             \E h \in 1..Len(CharEntries(s, chars[j])) :
               CharEntries(s, chars[j])[h].attr = chars[j].descs[k]
  BY SMTT(30), <1>1, CharEntriesParts
<1>3. ss = [j \in DOMAIN chars |-> CharEntries(s, chars[j])]
  BY DEF CharsEntries
<1>4. AgEntry("Service", s, 0) \in AgEntries
  BY <1>1 DEF AgEntry, AgEntries
<1>5. a \in Seq(AgEntries) /\ Len(a) = 1 /\ a[1] = AgEntry("Service", s, 0)
  BY <1>4
<1> HIDE DEF s, chars, ss, a
<1>6. ss \in [1..Len(chars) -> Seq(AgEntries)]
  BY <1>1, <1>2, <1>3
<1>7. ss \in Seq(Seq(AgEntries)) /\ Len(ss) = Len(chars)
  BY <1>1, <1>6, RewrittenParts
<1>8. b \in Seq(AgEntries)
  BY ONLY <1>7, FlattenParts
<1>9. \A j \in 1..Len(ss) : \A k \in 1..Len(ss[j]) : \E h \in 1..Len(b) : b[h] = ss[j][k]
  BY ONLY <1>7, FlattenParts
<1>10. x = a \o b
  BY DEF ServiceEntries, ss, a, s
<1> HIDE DEF b, x
<1>11. a \in Seq(AgEntries)
  BY <1>5
<1>12. x \in Seq(AgEntries) /\ Len(x) = Len(a) + Len(b) /\ Len(b) \in Nat
  BY ONLY <1>8, <1>10, <1>11, ConcatParts
<1>13. \A h \in 1..Len(a) : h \in 1..Len(x) /\ x[h] = a[h]
  BY ONLY <1>8, <1>10, <1>11, ConcatParts
<1>14. \A h \in 1..Len(b) : Len(a) + h \in 1..Len(x) /\ x[Len(a) + h] = b[h]
  BY ONLY <1>8, <1>10, <1>11, ConcatParts
<1>15. ASSUME NEW j \in DOMAIN chars, NEW at, NEW l \in 1..Len(ss[j]), ss[j][l].attr = at
       PROVE  \E h \in 1..Len(x) : x[h].attr = at
  <2>1. j \in 1..Len(ss)
    BY <1>1, <1>7
  <2>2. PICK h \in 1..Len(b) : b[h] = ss[j][l]
    BY <1>9, <1>15, <2>1
  <2> QED
    BY <1>14, <1>15, <2>2
<1>16. ASSUME NEW j \in DOMAIN chars
       PROVE  /\ \E h \in 1..Len(x) : x[h].attr = chars[j].char
              /\ \A k \in DOMAIN chars[j].descs : \E h \in 1..Len(x) : x[h].attr = chars[j].descs[k]
  <2>1. ss[j] = CharEntries(s, chars[j])
    BY <1>3, <1>16
  <2>2. \E h \in 1..Len(ss[j]) : ss[j][h].attr = chars[j].char
    BY <1>2, <1>16, <2>1
  <2>3. \A k \in DOMAIN chars[j].descs : \E h \in 1..Len(ss[j]) : ss[j][h].attr = chars[j].descs[k]
    BY <1>2, <1>16, <2>1
  <2> QED
    BY <1>15, <1>16, <2>2, <2>3
<1>17. 1 \in 1..Len(x) /\ x[1] = AgEntry("Service", s, 0)
  BY <1>5, <1>13
<1>18. Len(x) \in Nat
  BY <1>5, <1>12
<1> QED
  BY <1>12, <1>16, <1>17, <1>18 DEF x, s, chars

LEMMA EntriesParts ==
  /\ Entries \in Seq(AgEntries) /\ Len(Entries) \in Nat /\ DOMAIN Entries = 1..Len(Entries)
  /\ \A h \in DOMAIN Entries : Entries[h].service \in LeServices /\ InTree(Entries[h].service)
  /\ \A i \in DOMAIN AgTree : \A k \in 1..Len(ServiceEntries(i)) :
       \E h \in DOMAIN Entries : Entries[h] = ServiceEntries(i)[k]
<1> DEFINE ss == [i \in DOMAIN AgTree |-> ServiceEntries(i)]
<1>1. DOMAIN AgTree = 1..Len(AgTree) /\ Len(AgTree) \in Nat
  <2> DEFINE T == [service : LeServices,
                   chars : Seq([char : LeAttributes, descs : Seq(LeAttributes)])]
  <2>1. AgTree \in Seq(T)
    BY AgTreeAssumption, Zenon
  <2> HIDE DEF T
  <2> QED
    BY <2>1
<1>2. ss \in [1..Len(AgTree) -> Seq(AgEntries)]
  BY <1>1, ServiceEntriesParts
<1>3. \A i \in DOMAIN AgTree : ss[i] = ServiceEntries(i)
  OBVIOUS
<1>4. Entries = FlattenSeq(ss)
  BY EntriesAre
<1> HIDE DEF ss
<1>5. ss \in Seq(Seq(AgEntries)) /\ Len(ss) = Len(AgTree)
  BY <1>1, <1>2, RewrittenParts
<1>6. Entries \in Seq(AgEntries)
  BY ONLY <1>4, <1>5, FlattenParts
<1>7. \A i \in 1..Len(ss) : \A k \in 1..Len(ss[i]) : \E h \in 1..Len(Entries) : Entries[h] = ss[i][k]
  <2>1. \A i \in 1..Len(ss) : \A k \in 1..Len(ss[i]) :
          \E h \in 1..Len(FlattenSeq(ss)) : FlattenSeq(ss)[h] = ss[i][k]
    BY ONLY <1>5, FlattenParts
  <2> QED
    BY ONLY <1>4, <2>1
<1>8. DOMAIN Entries = 1..Len(Entries) /\ Len(Entries) \in Nat
  BY <1>6
<1>9. \A h \in DOMAIN Entries : Entries[h] \in AgEntries
  BY <1>6
<1>10. \A h \in DOMAIN Entries : Entries[h].service \in LeServices /\ InTree(Entries[h].service)
  BY <1>9 DEF AgEntries
<1>11. ASSUME NEW i \in DOMAIN AgTree, NEW k \in 1..Len(ServiceEntries(i))
       PROVE  \E h \in DOMAIN Entries : Entries[h] = ServiceEntries(i)[k]
  <2>1. i \in 1..Len(ss) /\ ss[i] = ServiceEntries(i)
    BY <1>1, <1>3, <1>5
  <2>2. \E h \in 1..Len(Entries) : Entries[h] = ss[i][k]
    BY <1>7, <1>11, <2>1
  <2> QED
    BY <1>8, <2>1, <2>2
<1> QED
  BY <1>6, <1>8, <1>10, <1>11

\* The handle of an attribute that the peer has.
LEMMA HandleOfParts ==
  ASSUME NEW a \in LeAttributes, InTree(LeHome[a])
  PROVE  HandleOf(a) \in DOMAIN Entries
<1>1. PICK n \in DOMAIN AgTree : \E j \in DOMAIN AgTree[n].chars :
        \/ AgTree[n].chars[j].char = a
        \/ \E k \in DOMAIN AgTree[n].chars[j].descs : AgTree[n].chars[j].descs[k] = a
  <2>1. \A i \in DOMAIN AgTree, b \in LeAttributes : LeHome[b] = AgTree[i].service =>
          \E n \in DOMAIN AgTree : \E j \in DOMAIN AgTree[n].chars :
            \/ AgTree[n].chars[j].char = b
            \/ \E k \in DOMAIN AgTree[n].chars[j].descs : AgTree[n].chars[j].descs[k] = b
    BY AgTreeAssumption, Zenon
  <2>2. PICK i \in DOMAIN AgTree : LeHome[a] = AgTree[i].service
    BY DEF InTree
  <2> QED
    BY <2>1, <2>2, Zenon
<1>2. \E h \in 1..Len(ServiceEntries(n)) : ServiceEntries(n)[h].attr = a
  <2>1. PICK j \in DOMAIN AgTree[n].chars :
          \/ AgTree[n].chars[j].char = a
          \/ \E k \in DOMAIN AgTree[n].chars[j].descs : AgTree[n].chars[j].descs[k] = a
    BY <1>1
  <2>2. CASE AgTree[n].chars[j].char = a
    <3>1. \E h \in 1..Len(ServiceEntries(n)) :
            ServiceEntries(n)[h].attr = AgTree[n].chars[j].char
      BY ServiceEntriesParts
    <3> QED
      BY <2>2, <3>1
  <2>3. ASSUME NEW k \in DOMAIN AgTree[n].chars[j].descs, AgTree[n].chars[j].descs[k] = a
        PROVE  \E h \in 1..Len(ServiceEntries(n)) : ServiceEntries(n)[h].attr = a
    <3>1. \E h \in 1..Len(ServiceEntries(n)) :
            ServiceEntries(n)[h].attr = AgTree[n].chars[j].descs[k]
      BY ServiceEntriesParts
    <3> QED
      BY <2>3, <3>1
  <2> QED
    BY <2>1, <2>2, <2>3
<1>3. \E h \in DOMAIN Entries : Entries[h].attr = a
  BY <1>2, EntriesParts
<1> QED
  BY <1>3, Zenon DEF HandleOf

\* A service's entries are between its handle and its end handle.
LEMMA ServiceHandles ==
  ASSUME NEW s, InTree(s)
  PROVE  /\ ServiceHandle(s) \in DOMAIN Entries /\ EndHandle(s) \in DOMAIN Entries
         /\ ServiceHandle(s) \in Nat /\ EndHandle(s) \in Nat /\ ServiceHandle(s) <= EndHandle(s)
         /\ Entries[EndHandle(s)].service = s
<1>1. DOMAIN Entries = 1..Len(Entries) /\ Len(Entries) \in Nat
  BY EntriesParts
<1>2. \E h \in DOMAIN Entries : Entries[h] = AgEntry("Service", s, 0)
  <2>1. PICK i \in DOMAIN AgTree : AgTree[i].service = s
    BY DEF InTree
  <2>2. 1 \in 1..Len(ServiceEntries(i)) /\ ServiceEntries(i)[1] = AgEntry("Service", s, 0)
    BY <2>1, ServiceEntriesParts
  <2> QED
    BY <2>2, EntriesParts
<1>3. /\ ServiceHandle(s) \in DOMAIN Entries
      /\ Entries[ServiceHandle(s)] = AgEntry("Service", s, 0)
  BY <1>2, Zenon DEF ServiceHandle
<1>4. Entries[ServiceHandle(s)].service = s
  BY <1>3 DEF AgEntry
<1> DEFINE P == {i \in DOMAIN Entries : Entries[i].service = s}
           T == {Len(Entries) - i : i \in P}
<1>5. T \subseteq Nat /\ T # {}
  <2>1. \A i \in P : Len(Entries) - i \in Nat
    BY <1>1
  <2>2. Len(Entries) - ServiceHandle(s) \in T
    BY <1>3, <1>4
  <2> QED
    BY <2>1, <2>2
<1>6. PICK t \in T : \A u \in T : t <= u
  <2> HIDE DEF T
  <2> QED
    BY <1>5, LeastNumber
<1>7. PICK h \in P : t = Len(Entries) - h
  OBVIOUS
<1>8. \A i \in P : i <= h
  <2> TAKE i \in P
  <2>1. t <= Len(Entries) - i
    BY <1>6
  <2>2. i \in Nat /\ h \in Nat
    BY <1>1
  <2> QED
    BY <1>1, <1>7, <2>1, <2>2
<1>9. /\ EndHandle(s) \in DOMAIN Entries /\ Entries[EndHandle(s)].service = s
      /\ \A i \in DOMAIN Entries : Entries[i].service = s => i <= EndHandle(s)
  <2>1. \E e \in DOMAIN Entries :
          /\ Entries[e].service = s
          /\ \A i \in DOMAIN Entries : Entries[i].service = s => i <= e
    BY <1>7, <1>8
  <2> QED
    BY <2>1, Zenon DEF EndHandle
<1> QED
  BY <1>1, <1>3, <1>4, <1>9

-----------------------------------------------------------------------------
(* What is known of values, and told of them *)

\* t goes on where q ended, with reports on values and services only.
AgTold(t, q) ==
  /\ t \in Seq(AgSignals) /\ Len(q) \in Nat /\ Len(t) \in Nat /\ Len(q) <= Len(t)
  /\ \A i \in 1..Len(q) : t[i] = q[i]
  /\ \A i \in 1..Len(t) : i > Len(q) => t[i].signal \notin {"connection", "servicesDiscovered"}

\* r is g but for the values that are known.
AgQuiet(r, g) ==
  /\ DOMAIN r = AgFields
  /\ r.mBluetoothGatt = g.mBluetoothGatt /\ r.entries = g.entries
  /\ r.readWriteQueue = g.readWriteQueue /\ r.pendingJob = g.pendingJob
  /\ r.handleForTimeout = g.handleForTimeout /\ r.handler = g.handler
  /\ r.conns = g.conns /\ r.busy = g.busy /\ r.discovering = g.discovering /\ r.bond = g.bond
  /\ r.valueKnown \subseteq DOMAIN Entries
  /\ r.servicesToBeDiscovered \in Seq(DOMAIN Entries)
  /\ AgTold(r.toQt, g.toQt)

LEMMA AgToldSelf ==
  ASSUME NEW q \in Seq(AgSignals)
  PROVE  AgTold(q, q)
BY DEF AgTold

LEMMA AgToldMore ==
  ASSUME NEW t, NEW q, AgTold(t, q), NEW m \in AgSignals,
         m.signal \notin {"connection", "servicesDiscovered"}
  PROVE  AgTold(Append(t, m), q)
<1>1. t \in Seq(AgSignals) /\ Len(q) \in Nat /\ Len(q) <= Len(t)
  BY DEF AgTold
<1>2. /\ Append(t, m) \in Seq(AgSignals) /\ Len(Append(t, m)) = Len(t) + 1 /\ Len(t) \in Nat
      /\ Append(t, m)[Len(t) + 1] = m /\ \A i \in 1..Len(t) : Append(t, m)[i] = t[i]
  BY <1>1, AppendParts
<1>3. /\ \A i \in 1..Len(q) : i \in 1..Len(t)
      /\ \A i \in 1..Len(t) + 1 : i \in 1..Len(t) \/ i = Len(t) + 1
  BY <1>1, <1>2
<1> QED
  BY <1>1, <1>2, <1>3 DEF AgTold

LEMMA AgToldOn ==
  ASSUME NEW u, NEW t, NEW q, AgTold(u, t), AgTold(t, q)
  PROVE  AgTold(u, q)
<1>1. \A i \in 1..Len(q) : i \in 1..Len(t)
  BY DEF AgTold
<1>2. \A i \in 1..Len(u) : i > Len(t) \/ i \in 1..Len(t)
  BY DEF AgTold
<1> QED
  BY <1>1, <1>2 DEF AgTold

LEMMA AgQuietShape ==
  ASSUME NEW g, AgShape(g), NEW r, AgQuiet(r, g)
  PROVE  AgShape(r)
BY DEF AgShape, AgQuiet, AgTold

LEMMA AgQuietOn ==
  ASSUME NEW g, NEW r, NEW q, AgQuiet(q, r), AgQuiet(r, g)
  PROVE  AgQuiet(q, g)
BY AgToldOn DEF AgQuiet

LEMMA AgQuietSelf ==
  ASSUME NEW g, AgShape(g)
  PROVE  AgQuiet(g, g)
BY AgToldSelf DEF AgQuiet, AgShape

LEMMA AgNative ==
  ASSUME NEW g, AgShape(g), NEW m \in AgSignals,
         m.signal \notin {"connection", "servicesDiscovered"}
  PROVE  AgQuiet(Native(g, m), g)
<1> DEFINE r == Native(g, m)
<1>1. AgTold(g.toQt, g.toQt)
  BY AgToldSelf DEF AgShape
<1>2. AgTold(Append(g.toQt, m), g.toQt)
  BY <1>1, AgToldMore
<1>3. DOMAIN g = AgFields /\ r.toQt = Append(g.toQt, m)
  BY DEF AgShape, AgFields, Native
<1>4. /\ DOMAIN r = AgFields
      /\ \A f \in AgFields : f # "toQt" => r[f] = g[f]
  BY <1>3 DEF Native, AgFields
<1>5. /\ r.mBluetoothGatt = g.mBluetoothGatt /\ r.entries = g.entries
      /\ r.readWriteQueue = g.readWriteQueue /\ r.pendingJob = g.pendingJob
      /\ r.handleForTimeout = g.handleForTimeout /\ r.handler = g.handler
      /\ r.conns = g.conns /\ r.busy = g.busy /\ r.discovering = g.discovering
      /\ r.bond = g.bond /\ r.valueKnown = g.valueKnown
      /\ r.servicesToBeDiscovered = g.servicesToBeDiscovered
  BY <1>3, <1>4 DEF AgFields, Native
<1> HIDE DEF r
<1> QED
  BY <1>2, <1>3, <1>4, <1>5 DEF AgQuiet, AgShape, r

LEMMA AgKnown ==
  ASSUME NEW g, AgShape(g), NEW known, known \subseteq DOMAIN Entries,
         NEW todo \in Seq(DOMAIN Entries)
  PROVE  /\ AgQuiet([g EXCEPT !.valueKnown = known, !.servicesToBeDiscovered = todo], g)
         /\ AgQuiet([g EXCEPT !.valueKnown = known], g)
<1> DEFINE r == [g EXCEPT !.valueKnown = known, !.servicesToBeDiscovered = todo]
           q == [g EXCEPT !.valueKnown = known]
<1>1. AgTold(g.toQt, g.toQt)
  BY AgToldSelf DEF AgShape
<1>2. DOMAIN g = AgFields
  BY DEF AgShape
<1>3. /\ DOMAIN r = AgFields /\ r.toQt = g.toQt
      /\ r.mBluetoothGatt = g.mBluetoothGatt /\ r.entries = g.entries
      /\ r.readWriteQueue = g.readWriteQueue /\ r.pendingJob = g.pendingJob
      /\ r.handleForTimeout = g.handleForTimeout /\ r.handler = g.handler
      /\ r.conns = g.conns /\ r.busy = g.busy /\ r.discovering = g.discovering
      /\ r.bond = g.bond /\ r.valueKnown = known /\ r.servicesToBeDiscovered = todo
  BY <1>2 DEF AgFields
<1>4. /\ DOMAIN q = AgFields /\ q.toQt = g.toQt
      /\ q.mBluetoothGatt = g.mBluetoothGatt /\ q.entries = g.entries
      /\ q.readWriteQueue = g.readWriteQueue /\ q.pendingJob = g.pendingJob
      /\ q.handleForTimeout = g.handleForTimeout /\ q.handler = g.handler
      /\ q.conns = g.conns /\ q.busy = g.busy /\ q.discovering = g.discovering
      /\ q.bond = g.bond /\ q.valueKnown = known
      /\ q.servicesToBeDiscovered = g.servicesToBeDiscovered
  BY <1>2 DEF AgFields
<1>5. g.servicesToBeDiscovered \in Seq(DOMAIN Entries)
  BY DEF AgShape
<1> HIDE DEF r, q
<1>6. AgQuiet(r, g)
  BY <1>1, <1>3 DEF AgQuiet
<1>7. AgQuiet(q, g)
  BY <1>1, <1>4, <1>5 DEF AgQuiet
<1> QED
  BY <1>6, <1>7 DEF r, q

LEMMA AgSaid ==
  /\ \A s \in LeServices : [signal |-> "detailsFinished", service |-> s] \in AgSignals
  /\ \A h \in DOMAIN Entries, op \in 0..LeMaxCalls :
       ReadSignal(h, op) \in AgSignals /\ ErrorSignal(h, op) \in AgSignals
  /\ \A h \in DOMAIN Entries, op \in 0..LeMaxCalls, ok \in BOOLEAN :
       [signal |-> "written", handle |-> h, op |-> op, ok |-> ok] \in AgSignals
BY DEF AgSignals, ReadSignal, ErrorSignal

\* The end of the discovery of a service, or an entry that may be its last.
LEMMA AgFinish ==
  ASSUME NEW g, AgShape(g), NEW s, InTree(s), s \in LeServices
  PROVE  AgQuiet(FinishCurrentServiceDiscovery(g, s), g)
<1> DEFINE known == g.valueKnown \cup {ServiceHandle(s)}
           todo == IF g.servicesToBeDiscovered = <<>> THEN g.servicesToBeDiscovered
                   ELSE Tail(g.servicesToBeDiscovered)
           r == [g EXCEPT !.valueKnown = known, !.servicesToBeDiscovered = todo]
           m == [signal |-> "detailsFinished", service |-> s]
<1>1. known \subseteq DOMAIN Entries
  BY ServiceHandles DEF AgShape
<1>2. todo \in Seq(DOMAIN Entries)
  <2>1. g.servicesToBeDiscovered \in Seq(DOMAIN Entries)
    BY DEF AgShape
  <2> HIDE DEF known
  <2> QED
    BY <2>1, TailParts
<1>3. FinishCurrentServiceDiscovery(g, s) = Native(r, m)
  <2>1. DOMAIN g = AgFields
    BY DEF AgShape
  <2> QED
    BY <2>1 DEF FinishCurrentServiceDiscovery, AgFields
<1>4. m \in AgSignals /\ m.signal \notin {"connection", "servicesDiscovered"}
  BY AgSaid
<1> HIDE DEF m
<1>5. AgQuiet(r, g)
  <2> HIDE DEF known, todo
  <2> QED
    BY <1>1, <1>2, AgKnown
<1> HIDE DEF r
<1> QED
  BY <1>3, <1>4, <1>5, AgQuietShape, AgNative, AgQuietOn

LEMMA AgEntryDone ==
  ASSUME NEW g, AgShape(g), NEW h \in DOMAIN Entries
  PROVE  AgQuiet(EntryDone(g, h), g)
<1>1. Entries[h].service \in LeServices /\ InTree(Entries[h].service)
  BY EntriesParts
<1> QED
  BY <1>1, AgFinish, AgQuietSelf DEF EntryDone

LEMMA AgSkipJob ==
  ASSUME NEW g, AgShape(g), NEW job \in AgWork
  PROVE  AgQuiet(SkipJob(g, job), g)
<1> DEFINE h == job.handle
           known == [g EXCEPT !.valueKnown = @ \cup {h}]
           told == Native(known, ReadSignal(h, job.op))
<1>1. CASE job.type = "Mtu"
  BY <1>1, AgQuietSelf DEF SkipJob
<1>2. CASE job.type # "Mtu"
  <2>1. h \in DOMAIN Entries /\ job.op \in 0..LeMaxCalls
    BY <1>2 DEF AgWork, AgJobs
  <2>2. /\ ReadSignal(h, job.op) \in AgSignals /\ ErrorSignal(h, job.op) \in AgSignals
        /\ ReadSignal(h, job.op).signal = "read" /\ ErrorSignal(h, job.op).signal = "error"
    BY <2>1, AgSaid DEF ReadSignal, ErrorSignal
  <2>3. AgQuiet(Native(g, ErrorSignal(h, job.op)), g)
    BY <2>2, AgNative
  <2>4. AgQuiet(known, g) /\ AgShape(known)
    <3>1. g.valueKnown \cup {h} \subseteq DOMAIN Entries /\ "valueKnown" \in DOMAIN g
      BY <2>1 DEF AgShape, AgFields
    <3>2. known = [g EXCEPT !.valueKnown = g.valueKnown \cup {h}]
      BY <3>1
    <3>3. g.servicesToBeDiscovered \in Seq(DOMAIN Entries)
      BY DEF AgShape
    <3> HIDE DEF known
    <3> QED
      BY <3>1, <3>2, <3>3, AgKnown, AgQuietShape
  <2> HIDE DEF known
  <2>5. AgQuiet(told, g) /\ AgShape(told)
    BY <2>2, <2>4, AgNative, AgQuietOn, AgQuietShape
  <2> HIDE DEF told
  <2>6. AgQuiet(EntryDone(known, h), g) /\ AgQuiet(EntryDone(told, h), g)
    BY <2>1, <2>4, <2>5, AgEntryDone, AgQuietOn
  <2>7. SkipJob(g, job) \in
          {Native(g, ErrorSignal(h, job.op)), EntryDone(known, h), EntryDone(told, h)}
    BY <1>2 DEF SkipJob, known, told
  <2> QED
    BY <2>3, <2>6, <2>7
<1> QED
  BY <1>1, <1>2

AgRecord(g) == g = [f \in AgFields |-> g[f]]

LEMMA AgFinishRecord ==
  ASSUME NEW g, DOMAIN g = AgFields, NEW s
  PROVE  AgRecord(FinishCurrentServiceDiscovery(g, s))
<1> DEFINE r == [g EXCEPT !.valueKnown = @ \cup {ServiceHandle(s)},
                          !.servicesToBeDiscovered = IF @ = <<>> THEN @ ELSE Tail(@)]
<1>1. DOMAIN r = AgFields
  OBVIOUS
<1>2. FinishCurrentServiceDiscovery(g, s) =
        [r EXCEPT !.toQt = Append(r.toQt, [signal |-> "detailsFinished", service |-> s])]
  BY <1>1 DEF FinishCurrentServiceDiscovery, Native, AgFields
<1> HIDE DEF r
<1> QED
  BY <1>1, <1>2 DEF AgRecord

LEMMA AgSkipRecord ==
  ASSUME NEW g, AgRecord(g), DOMAIN g = AgFields, NEW job
  PROVE  AgRecord(SkipJob(g, job))
<1> DEFINE h == job.handle
           known == [g EXCEPT !.valueKnown = g.valueKnown \cup {h}]
           told == Native(known, ReadSignal(h, job.op))
           missed == Native(g, ErrorSignal(h, job.op))
<1>1. AgRecord(known) /\ DOMAIN known = AgFields
  BY DEF AgRecord
<1>2. known = [g EXCEPT !.valueKnown = @ \cup {h}]
  BY DEF AgFields
<1> HIDE DEF known
<1>3. told = [known EXCEPT !.toQt = Append(known.toQt, ReadSignal(h, job.op))]
  BY <1>1 DEF Native, AgFields
<1>4. AgRecord(told) /\ DOMAIN told = AgFields
  <2>1. DOMAIN told = AgFields
    BY <1>1, <1>3
  <2> QED
    BY <1>1, <1>3, <2>1 DEF AgRecord
<1>5. missed = [g EXCEPT !.toQt = Append(g.toQt, ErrorSignal(h, job.op))]
  BY DEF Native, AgFields
<1>6. AgRecord(missed)
  BY <1>5 DEF AgRecord
<1>7. SkipJob(g, job) \in {g, missed, known, told}
        \cup {FinishCurrentServiceDiscovery(known, Entries[h].service),
              FinishCurrentServiceDiscovery(told, Entries[h].service)}
  BY <1>2 DEF SkipJob, EntryDone
<1> HIDE DEF told, missed
<1> QED
  BY <1>1, <1>4, <1>6, <1>7, AgFinishRecord

LEMMA AgSkip ==
  ASSUME NEW g, AgShape(g), AgRecord(g), NEW jobs \in Seq(AgWork)
  PROVE  AgQuiet(Skip(g, jobs), g)
<1> DEFINE n == Len(jobs)
           old == {g[f] : f \in AgFields}
           knowns == SUBSET DOMAIN Entries
           todos == Seq(DOMAIN Entries)
           told == Seq(AgSignals)
           U == old \cup knowns \cup todos \cup told
           X == {r \in [AgFields -> U] : AgQuiet(r, g)}
           step == [k \in 1..n |-> [r \in X |-> SkipJob(r, jobs[k])]]
           P(f) == f = [k \in 0..n |-> IF k = 0 THEN g ELSE SkipJob(f[k - 1], jobs[k])]
           after == CHOOSE f : P(f)
<1>1. n \in Nat /\ \A k \in 1..n : jobs[k] \in AgWork
  OBVIOUS
<1>2. ASSUME NEW r, AgQuiet(r, g), AgRecord(r)
      PROVE  r \in X
  <2>1. r.valueKnown \in U /\ r.servicesToBeDiscovered \in U /\ r.toQt \in U
    <3>1. r.valueKnown \in knowns /\ r.servicesToBeDiscovered \in todos /\ r.toQt \in told
      BY <1>2 DEF AgQuiet, AgTold
    <3> HIDE DEF old, knowns, todos, told
    <3> QED
      BY <3>1
  <2>2. \A f \in AgFields : f \notin {"valueKnown", "servicesToBeDiscovered", "toQt"} =>
          r[f] = g[f]
    BY <1>2 DEF AgQuiet, AgFields
  <2>3. \A f \in AgFields : g[f] \in U
    OBVIOUS
  <2> HIDE DEF U
  <2>4. \A f \in AgFields : r[f] \in U
    BY <2>1, <2>2, <2>3
  <2>5. r \in [AgFields -> U]
    BY <1>2, <2>4 DEF AgRecord
  <2> QED
    BY <1>2, <2>5
<1>3. g \in X
  BY <1>2, AgQuietSelf
<1>4. ASSUME NEW k \in 1..n, NEW r \in X
      PROVE  SkipJob(r, jobs[k]) \in X
  <2>1. AgQuiet(r, g) /\ r \in [AgFields -> U]
    OBVIOUS
  <2> HIDE DEF X, U
  <2>2. AgRecord(r) /\ DOMAIN r = AgFields /\ AgShape(r)
    BY <2>1, AgQuietShape DEF AgRecord
  <2>3. AgQuiet(SkipJob(r, jobs[k]), g) /\ AgRecord(SkipJob(r, jobs[k]))
    BY <1>1, <2>1, <2>2, AgSkipJob, AgSkipRecord, AgQuietOn
  <2> QED
    BY <1>2, <2>3
<1> HIDE DEF X
<1>5. step \in [1..n -> [X -> X]] /\ \A k \in 1..n : \A r \in X : step[k][r] = SkipJob(r, jobs[k])
  BY <1>4
<1> HIDE DEF step
<1>6. PICK f : f \in [0..n -> X] /\ f[0] = g /\ \A k \in 1..n : f[k] = step[k][f[k - 1]]
  <2>1. n \in Nat /\ g \in X /\ step \in StepsOf(n, X)
    BY <1>1, <1>3, <1>5 DEF StepsOf
  <2>2. \E f : f \in [0..n -> X] /\ GoesOn(f, g, step, n)
    BY ONLY <2>1, RecursionUpTo
  <2> QED
    BY <2>2 DEF GoesOn
<1>7. P(f)
  <2>1. \A k \in 0..n : f[k] = IF k = 0 THEN g ELSE SkipJob(f[k - 1], jobs[k])
    <3> TAKE k \in 0..n
    <3>1. k # 0 => k \in 1..n /\ k - 1 \in 0..n
      BY <1>1
    <3>2. k # 0 => f[k - 1] \in X
      BY <1>6, <3>1
    <3> QED
      BY <1>5, <1>6, <3>1, <3>2
  <2>2. f = [k \in 0..n |-> f[k]]
    BY <1>6
  <2> QED
    BY ONLY <2>1, <2>2, Zenon
<1>8. P(after)
  BY <1>7, Zenon
<1> HIDE DEF after
<1>9. /\ after[0] = g
      /\ \A k \in 1..n : after[k] = SkipJob(after[k - 1], jobs[k])
  <2>1. 0 \in 0..n /\ \A k \in 1..n : k \in 0..n /\ k # 0
    BY <1>1
  <2> HIDE DEF n
  <2> QED
    BY ONLY <1>8, <2>1
<1>10. \A k \in 0..n : after[k] \in X
  <2>1. after[0] \in X /\ \A k \in 1..n : after[k - 1] \in X => after[k] \in X
    BY <1>3, <1>4, <1>9
  <2> QED
    BY <1>1, <2>1, RecursionKeeps
<1>11. Skip(g, jobs) = after[n]
  BY DEF Skip, after
<1> QED
  BY <1>1, <1>10, <1>11 DEF X

-----------------------------------------------------------------------------
(* performNextIO() *)

\* r is g after performNextIO() has taken a job off the queue, or skipped them all.
AgServed(r, g) ==
  /\ DOMAIN r = AgFields
  /\ r.mBluetoothGatt = g.mBluetoothGatt /\ r.entries = g.entries
  /\ r.conns = g.conns /\ r.discovering = g.discovering /\ r.bond = g.bond
  /\ r.valueKnown \subseteq DOMAIN Entries
  /\ r.servicesToBeDiscovered \in Seq(DOMAIN Entries)
  /\ AgTold(r.toQt, g.toQt)
  /\ r.readWriteQueue \in Seq(AgWork)
  /\ \A k \in 1..Len(r.readWriteQueue) :
       \E i \in 1..Len(g.readWriteQueue) : r.readWriteQueue[k] = g.readWriteQueue[i]
  /\ \/ /\ r.pendingJob = NoJob /\ r.handleForTimeout = HandleForReset
        /\ r.busy = g.busy /\ r.handler = g.handler
     \/ \E i \in 1..Len(g.readWriteQueue) :
          /\ r.pendingJob = g.readWriteQueue[i]
          /\ r.handleForTimeout = ModifiedHandle(r.pendingJob.handle, r.pendingJob.type)
          /\ \/ /\ r.pendingJob.type = "Mtu" /\ r.busy = g.busy
                /\ r.handler = Append(g.handler, [task |-> "mtuChanged", of |-> g.mBluetoothGatt])
             \/ /\ r.pendingJob.type \in {"Read", "Write"} /\ r.busy = r.pendingJob
                /\ r.handler = g.handler

AgMayServe(g) == g.mBluetoothGatt # 0 /\ g.readWriteQueue # <<>> /\ g.pendingJob = NoJob

LEMMA AgPerform ==
  ASSUME NEW g, AgShape(g), AgRecord(g), AgMayServe(g)
  PROVE  AgServed(PerformNextIO(g), g)
<1> DEFINE q == g.readWriteQueue
           first == SelectInSeq(q, LAMBDA j : Taken(g, j))
           m == IF first = 0 THEN Len(q) ELSE first - 1
           skipped == IF first = 0 THEN q ELSE SubSeq(q, 1, first - 1)
           rest == SubSeq(q, Len(skipped) + 1, Len(q))
           after == Skip(g, skipped)
           done == [after EXCEPT !.handleForTimeout = HandleForReset,
                                 !.readWriteQueue = IF rest = <<>> THEN rest ELSE Tail(rest)]
<1>1. /\ q \in Seq(AgWork) /\ Len(q) \in Nat /\ q # <<>> /\ g.pendingJob = NoJob
      /\ g.mBluetoothGatt # 0 /\ DOMAIN q = 1..Len(q) /\ \A i \in 1..Len(q) : q[i] \in AgWork
  BY DEF AgShape, AgMayServe
<1>2. first = 0 \/ (first \in 1..Len(q) /\ Taken(g, q[first]))
  <2> DEFINE I == {i \in 1..Len(q) : Taken(g, q[i])}
  <2>1. first = IF I # {} THEN Min(I) ELSE 0
    BY DEF SelectInSeq
  <2>2. CASE I # {}
    <3>1. Min(I) \in I
      <4>1. I \in SUBSET Nat
        OBVIOUS
      <4> HIDE DEF I
      <4> QED
        BY <2>2, <4>1, FirstOf
    <3> QED
      BY <2>1, <2>2, <3>1
  <2> QED
    BY <2>1, <2>2
<1> HIDE DEF first
<1>3. /\ m \in 0..Len(q) /\ skipped \in Seq(AgWork) /\ Len(skipped) = m
      /\ first # 0 => m + 1 = first
  <2> HIDE DEF q
  <2>1. CASE first = 0
    BY <1>1, <2>1
  <2>2. CASE first # 0
    <3>1. m \in 0..Len(q) /\ m = first - 1
      BY <1>1, <1>2, <2>2
    <3>2. SubSeq(q, 1, m) \in Seq(AgWork) /\ Len(SubSeq(q, 1, m)) = m
      BY <1>1, <3>1, PrefixParts
    <3> QED
      BY <1>1, <1>2, <2>2, <3>1, <3>2
  <2> QED
    BY <2>1, <2>2
<1>4. /\ first = 0 => rest = <<>>
      /\ first # 0 => /\ rest \in Seq(AgWork) /\ rest # <<>> /\ Head(rest) = q[first]
                      /\ Len(rest) = Len(q) - first + 1
                      /\ \A k \in 1..Len(rest) : rest[k] = q[k + first - 1]
  <2> HIDE DEF q, m, skipped
  <2>1. CASE first = 0
    <3>1. rest = SubSeq(q, Len(q) + 1, Len(q))
      BY <1>3, <2>1 DEF m
    <3> QED
      BY <1>1, <2>1, <3>1
  <2>2. CASE first # 0
    <3>1. first \in 1..Len(q) /\ rest = SubSeq(q, first, Len(q))
      BY <1>2, <1>3, <2>2
    <3>2. /\ rest \in Seq(AgWork) /\ Len(rest) = Len(q) - first + 1
          /\ \A k \in 1..Len(q) - first + 1 : rest[k] = q[k + first - 1]
      BY <1>1, <3>1, SuffixParts
    <3> HIDE DEF rest
    <3>3. Len(rest) >= 1 /\ 1 \in 1..Len(q) - first + 1 /\ 1 + first - 1 = first
      BY <1>1, <3>1, <3>2
    <3>4. rest # <<>> /\ Head(rest) = rest[1]
      BY <3>2, <3>3
    <3> QED
      BY <2>2, <3>1, <3>2, <3>3, <3>4
  <2> QED
    BY <2>1, <2>2
<1>5. AgQuiet(after, g)
  <2> HIDE DEF skipped
  <2> QED
    BY <1>3, AgSkip
<1>6. PerformNextIO(g) = IF rest = <<>> THEN done ELSE StartJob(done, Head(rest))
  BY <1>1 DEF PerformNextIO, first
<1> HIDE DEF q, m, skipped, rest, after
<1>7. /\ DOMAIN done = AgFields
      /\ done.mBluetoothGatt = g.mBluetoothGatt /\ done.entries = g.entries
      /\ done.conns = g.conns /\ done.discovering = g.discovering /\ done.bond = g.bond
      /\ done.pendingJob = NoJob /\ done.busy = g.busy /\ done.handler = g.handler
      /\ done.handleForTimeout = HandleForReset
      /\ done.readWriteQueue = IF rest = <<>> THEN rest ELSE Tail(rest)
      /\ done.valueKnown \subseteq DOMAIN Entries
      /\ done.servicesToBeDiscovered \in Seq(DOMAIN Entries) /\ AgTold(done.toQt, g.toQt)
  BY <1>1, <1>5 DEF AgQuiet, AgFields
<1> HIDE DEF done
<1>8. CASE first = 0
  <2>1. done.readWriteQueue = <<>> /\ PerformNextIO(g) = done
    BY <1>4, <1>6, <1>7, <1>8
  <2>2. <<>> \in Seq(AgWork) /\ 1..Len(<<>>) = {}
    OBVIOUS
  <2> QED
    BY <1>7, <2>1, <2>2 DEF AgServed
<1>9. CASE first # 0
  <2> DEFINE r == StartJob(done, Head(rest))
             job == Head(rest)
  <2>1. r = PerformNextIO(g) /\ job = q[first] /\ first \in 1..Len(q) /\ job \in AgWork
    BY <1>1, <1>2, <1>4, <1>6, <1>9
  <2>2. job.type = "Mtu" \/ job.type \in {"Read", "Write"}
    BY <1>2, <1>9, <2>1 DEF Taken
  <2>3. /\ Tail(rest) \in Seq(AgWork)
        /\ \A k \in 1..Len(Tail(rest)) : \E i \in 1..Len(q) : Tail(rest)[k] = q[i]
    <3>1. /\ Tail(rest) \in Seq(AgWork) /\ Len(Tail(rest)) = Len(rest) - 1
          /\ \A k \in 1..Len(rest) - 1 : Tail(rest)[k] = rest[k + 1]
      BY <1>4, <1>9, TailParts
    <3>2. ASSUME NEW k \in 1..Len(rest) - 1
          PROVE  k + 1 \in 1..Len(rest) /\ k + 1 + first - 1 \in 1..Len(q)
      BY <1>1, <1>4, <1>9, <2>1
    <3> QED
      BY <1>4, <1>9, <3>1, <3>2
  <2>4. done.readWriteQueue = Tail(rest)
    BY <1>4, <1>7, <1>9
  <2> HIDE DEF job
  <2>5. /\ DOMAIN r = AgFields /\ r.pendingJob = job
        /\ r.handleForTimeout = ModifiedHandle(job.handle, job.type)
        /\ r.busy = IF job.type = "Mtu" THEN done.busy ELSE job
        /\ r.handler = IF job.type = "Mtu"
                       THEN Append(done.handler, [task |-> "mtuChanged", of |-> done.mBluetoothGatt])
                       ELSE done.handler
        /\ r.mBluetoothGatt = done.mBluetoothGatt /\ r.entries = done.entries
        /\ r.conns = done.conns /\ r.discovering = done.discovering /\ r.bond = done.bond
        /\ r.readWriteQueue = done.readWriteQueue
        /\ r.valueKnown = done.valueKnown /\ r.toQt = done.toQt
        /\ r.servicesToBeDiscovered = done.servicesToBeDiscovered
    BY <1>7 DEF StartJob, AgFields, job
  <2> HIDE DEF r
  <2>6. \/ /\ r.pendingJob.type = "Mtu" /\ r.busy = g.busy
           /\ r.handler = Append(g.handler, [task |-> "mtuChanged", of |-> g.mBluetoothGatt])
        \/ /\ r.pendingJob.type \in {"Read", "Write"} /\ r.busy = r.pendingJob
           /\ r.handler = g.handler
    BY <1>7, <2>2, <2>5
  <2>7. AgServed(r, g)
    <3>1. /\ r.readWriteQueue = Tail(rest) /\ r.pendingJob = q[first] /\ q = g.readWriteQueue
          /\ r.handleForTimeout = ModifiedHandle(r.pendingJob.handle, r.pendingJob.type)
      BY <2>1, <2>4, <2>5 DEF q
    <3>2. /\ r.readWriteQueue \in Seq(AgWork)
          /\ \A k \in 1..Len(r.readWriteQueue) :
               \E i \in 1..Len(g.readWriteQueue) : r.readWriteQueue[k] = g.readWriteQueue[i]
      BY <2>3, <3>1
    <3>3. \E i \in 1..Len(g.readWriteQueue) :
            /\ r.pendingJob = g.readWriteQueue[i]
            /\ r.handleForTimeout = ModifiedHandle(r.pendingJob.handle, r.pendingJob.type)
            /\ \/ /\ r.pendingJob.type = "Mtu" /\ r.busy = g.busy
                  /\ r.handler = Append(g.handler, [task |-> "mtuChanged", of |-> g.mBluetoothGatt])
               \/ /\ r.pendingJob.type \in {"Read", "Write"} /\ r.busy = r.pendingJob
                  /\ r.handler = g.handler
      BY <2>1, <2>6, <3>1
    <3> QED
      BY <1>7, <2>5, <3>2, <3>3 DEF AgServed
  <2> QED
    BY <2>1, <2>7
<1> QED
  BY <1>8, <1>9

\* h goes on where q ended, with messages other than reports on the connection.
AgPosted(h, q) ==
  /\ h \in Seq(AgTasks) /\ Len(q) \in Nat /\ Len(h) \in Nat /\ Len(q) <= Len(h)
  /\ \A i \in 1..Len(q) : h[i] = q[i]
  /\ \A i \in 1..Len(h) : i > Len(q) => h[i].task # "connection"

LEMMA AgPostedSelf ==
  ASSUME NEW q \in Seq(AgTasks)
  PROVE  AgPosted(q, q)
BY DEF AgPosted

LEMMA AgPostedMore ==
  ASSUME NEW q \in Seq(AgTasks), NEW m \in AgTasks, m.task # "connection"
  PROVE  AgPosted(Append(q, m), q)
<1>1. /\ Append(q, m) \in Seq(AgTasks) /\ Len(Append(q, m)) = Len(q) + 1 /\ Len(q) \in Nat
      /\ Append(q, m)[Len(q) + 1] = m /\ \A i \in 1..Len(q) : Append(q, m)[i] = q[i]
  BY AppendParts
<1>2. \A i \in 1..Len(q) + 1 : i > Len(q) => i = Len(q) + 1
  BY <1>1
<1> QED
  BY <1>1, <1>2 DEF AgPosted

\* The same reports are under way.
LEMMA AgReportsSame ==
  ASSUME NEW g, NEW state, AgReports(g, state), NEW r,
         r.conns = g.conns, r.mBluetoothGatt = g.mBluetoothGatt,
         AgPosted(r.handler, g.handler), AgTold(r.toQt, g.toQt)
  PROVE  AgReports(r, state)
<1>1. \A i \in Nat : /\ Reported(r, i) <=> Reported(g, i)
                     /\ Reported(g, i) => r.handler[i] = g.handler[i]
  BY DEF AgPosted, Reported
<1>2. \A i \in Nat : /\ Signalled(r, i) <=> Signalled(g, i)
                     /\ Signalled(g, i) => r.toQt[i] = g.toQt[i]
  BY DEF AgTold, Signalled
<1>3. \A k : Live(r, k) <=> Live(g, k)
  BY DEF Live
<1>4. AgLives(r, state) /\ AgSilent(r, state)
  BY <1>1, <1>2, <1>3 DEF AgReports, AgLives, AgSilent
<1>5. AgUpReported(r, state)
  BY <1>1, <1>2, <1>3 DEF AgReports, AgUpReported
<1>6. AgUpSignalled(r, state)
  BY <1>1, <1>2, <1>3 DEF AgReports, AgUpSignalled
<1>7. AgDownReported(r)
  BY <1>1, <1>3 DEF AgReports, AgDownReported
<1>8. AgDownSignalled(r)
  <2> SUFFICES ASSUME NEW i \in Nat, Signalled(r, i), ~r.toQt[i].up
               PROVE  /\ r.mBluetoothGatt = 0
                      /\ \A j \in 1..Len(r.toQt) : j > i =>
                           r.toQt[j].signal \notin {"connection", "servicesDiscovered"}
    BY DEF AgDownSignalled
  <2>1. /\ Signalled(g, i) /\ g.mBluetoothGatt = 0
        /\ \A j \in 1..Len(g.toQt) : j > i =>
             g.toQt[j].signal \notin {"connection", "servicesDiscovered"}
    BY <1>2 DEF AgReports, AgDownSignalled
  <2>2. ASSUME NEW j \in 1..Len(r.toQt), j > i
        PROVE  r.toQt[j].signal \notin {"connection", "servicesDiscovered"}
    <3>1. j > Len(g.toQt) \/ j \in 1..Len(g.toQt)
      BY DEF AgTold
    <3> QED
      BY <2>1, <2>2, <3>1 DEF AgTold
  <2> QED
    BY <2>1, <2>2
<1> QED
  BY <1>4, <1>5, <1>6, <1>7, <1>8 DEF AgReports

\* What holds of a queue that performNextIO() is about to take a job from.
AgOpen(g, d) ==
  /\ AgShape(g) /\ AgQueue(g) /\ AgControl(d) /\ AgReports(g, d.state) /\ AgRecord(g)
  /\ d.state \notin AgUp => AgIdle(g)
  /\ \/ AgPending(g)
     \/ /\ g.pendingJob = NoJob /\ g.mBluetoothGatt # 0
        /\ g.handleForTimeout = HandleForReset \/ g.readWriteQueue # <<>>

LEMMA AgPerformGood ==
  ASSUME NEW g, NEW d, AgOpen(g, d)
  PROVE  AgGood(PerformNextIO(g), d) /\ Len(g.handler) <= Len(PerformNextIO(g).handler)
<1> DEFINE r == PerformNextIO(g)
<1>1. AgShape(g) /\ AgQueue(g) /\ AgControl(d) /\ AgReports(g, d.state) /\ AgRecord(g)
  BY DEF AgOpen
<1>2. CASE ~AgMayServe(g)
  <2>1. r = g
    BY <1>2 DEF PerformNextIO, AgMayServe
  <2>2. AgPending(g)
    BY <1>2 DEF AgOpen, AgPending, AgMayServe
  <2>3. Len(g.handler) \in Nat
    BY <1>1 DEF AgShape
  <2> QED
    BY <1>1, <2>1, <2>2, <2>3 DEF AgOpen, AgGood
<1>3. CASE AgMayServe(g)
  <2>1. AgServed(r, g)
    BY <1>1, <1>3, AgPerform
  <2> HIDE DEF r
  <2>2. d.state \in AgUp
    BY <1>3 DEF AgOpen, AgIdle, AgMayServe
  <2>3. g.mBluetoothGatt \in AgSessions
    BY <1>1, <1>3, LeAssumption DEF AgShape, AgMayServe, AgSessions
  <2>4. AgPosted(r.handler, g.handler) /\ r.handler \in Seq(AgTasks)
    <3> DEFINE m == [task |-> "mtuChanged", of |-> g.mBluetoothGatt]
    <3>1. g.handler \in Seq(AgTasks) /\ m \in AgTasks /\ m.task # "connection"
      BY <1>1, <2>3 DEF AgShape, AgTasks
    <3>2. r.handler = g.handler \/ r.handler = Append(g.handler, m)
      BY <2>1 DEF AgServed
    <3> HIDE DEF m
    <3>3. AgPosted(r.handler, g.handler)
      BY <3>1, <3>2, AgPostedSelf, AgPostedMore
    <3> QED
      BY <3>3 DEF AgPosted
  <2>5. \/ /\ r.pendingJob = NoJob /\ r.handleForTimeout = HandleForReset /\ r.busy = g.busy
        \/ /\ r.pendingJob \in AgWork
           /\ r.handleForTimeout = ModifiedHandle(r.pendingJob.handle, r.pendingJob.type)
           /\ r.pendingJob.type # "Mtu" => g.entries
           /\ \/ r.pendingJob.type = "Mtu" /\ r.busy = g.busy
              \/ r.pendingJob.type \in {"Read", "Write"} /\ r.busy = r.pendingJob
    <3>1. \A i \in 1..Len(g.readWriteQueue) : g.readWriteQueue[i] \in AgWork
      BY <1>1 DEF AgShape
    <3>2. \A i \in 1..Len(g.readWriteQueue) : g.readWriteQueue[i].type # "Mtu" => g.entries
      BY <1>1 DEF AgQueue
    <3>3. \/ /\ r.pendingJob = NoJob /\ r.handleForTimeout = HandleForReset /\ r.busy = g.busy
          \/ \E i \in 1..Len(g.readWriteQueue) :
               /\ r.pendingJob = g.readWriteQueue[i]
               /\ r.handleForTimeout = ModifiedHandle(r.pendingJob.handle, r.pendingJob.type)
               /\ \/ r.pendingJob.type = "Mtu" /\ r.busy = g.busy
                  \/ r.pendingJob.type \in {"Read", "Write"} /\ r.busy = r.pendingJob
      BY <2>1 DEF AgServed
    <3> QED
      BY <3>1, <3>2, <3>3
  <2>6. r.busy \in AgRequests \cup {NoJob} /\ r.pendingJob \in AgWork \cup {NoJob}
        /\ (r.busy # NoJob => g.entries)
    <3>1. g.busy \in AgRequests \cup {NoJob} /\ (g.busy # NoJob => g.entries)
      BY <1>1 DEF AgShape, AgQueue
    <3>2. r.busy = g.busy \/ (r.busy \in AgRequests /\ g.entries)
      BY <2>5 DEF AgRequests
    <3> QED
      BY <2>5, <3>1, <3>2
  <2>7. AgShape(r)
    <3>1. r.toQt \in Seq(AgSignals)
      BY <2>1 DEF AgServed, AgTold
    <3> QED
      BY <1>1, <2>1, <2>4, <2>6, <3>1 DEF AgShape, AgServed
  <2>8. AgPending(r)
    <3>1. CASE r.pendingJob = NoJob /\ r.handleForTimeout = HandleForReset
      BY <3>1 DEF AgPending
    <3>2. CASE /\ r.pendingJob \in AgWork
               /\ r.handleForTimeout = ModifiedHandle(r.pendingJob.handle, r.pendingJob.type)
               /\ r.pendingJob.type # "Mtu" => g.entries
      <4>1. r.pendingJob.type # "none" /\ r.pendingJob # NoJob
        BY <3>2 DEF AgWork, NoJob, Job
      <4>2. r.handleForTimeout # HandleForReset
        BY <3>2, <4>1 DEF ModifiedHandle, HandleForReset
      <4>3. r.entries = g.entries
        BY <2>1 DEF AgServed
      <4> QED
        BY <3>2, <4>1, <4>2, <4>3 DEF AgPending
    <3> QED
      BY <2>5, <3>1, <3>2
  <2>9. AgQueue(r)
    <3>1. r.mBluetoothGatt = g.mBluetoothGatt /\ r.mBluetoothGatt # 0 /\ r.entries = g.entries
      BY <1>3, <2>1 DEF AgServed, AgMayServe
    <3>2. \A i \in 1..Len(r.readWriteQueue) : r.readWriteQueue[i].type # "Mtu" => r.entries
      BY <1>1, <2>1, <3>1 DEF AgServed, AgQueue
    <3>3. \A i \in 1..Len(r.handler) :
            /\ r.handler[i].task = "answer" => r.entries
            /\ r.handler[i].of # 0 => r.handler[i].of = r.mBluetoothGatt
      <4> DEFINE m == [task |-> "mtuChanged", of |-> g.mBluetoothGatt]
      <4>1. \A i \in 1..Len(g.handler) :
              /\ g.handler[i].task = "answer" => g.entries
              /\ g.handler[i].of # 0 => g.handler[i].of = g.mBluetoothGatt
        BY <1>1 DEF AgQueue
      <4>2. CASE r.handler = g.handler
        BY <3>1, <4>1, <4>2
      <4>3. CASE r.handler = Append(g.handler, m)
        <5>1. g.handler \in Seq(AgTasks) /\ m \in AgTasks
          BY <1>1, <2>3 DEF AgShape, AgTasks
        <5>2. m.task = "mtuChanged" /\ m.of = g.mBluetoothGatt
          OBVIOUS
        <5> HIDE DEF m
        <5>3. /\ Len(r.handler) = Len(g.handler) + 1 /\ r.handler[Len(g.handler) + 1] = m
              /\ \A i \in 1..Len(g.handler) : r.handler[i] = g.handler[i]
              /\ Len(g.handler) \in Nat
          BY <4>3, <5>1, AppendParts
        <5>4. \A i \in 1..Len(r.handler) : i \in 1..Len(g.handler) \/ i = Len(g.handler) + 1
          BY <5>3
        <5> QED
          BY <3>1, <4>1, <5>2, <5>3, <5>4
      <4> QED
        BY <2>1, <4>2, <4>3 DEF AgServed
    <3> QED
      BY <2>6, <3>1, <3>2, <3>3 DEF AgQueue
  <2>10. AgReports(r, d.state)
    BY <1>1, <2>1, <2>4, AgReportsSame DEF AgServed
  <2>11. Len(g.handler) <= Len(r.handler)
    BY <2>4 DEF AgPosted
  <2> QED
    BY <1>1, <2>2, <2>7, <2>8, <2>9, <2>10, <2>11 DEF AgGood, r
<1> QED
  BY <1>2, <1>3

-----------------------------------------------------------------------------
(* The application *)

\* The answer that ends the pending job is that of its own request.
AgOwn(g, r) ==
  /\ g.pendingJob # NoJob /\ r.pendingJob # g.pendingJob
  /\ g.handler # <<>> /\ Head(g.handler).task = "answer" /\ Len(r.handler) < Len(g.handler)
  => /\ Head(g.handler).job.type = g.pendingJob.type
     /\ Head(g.handler).job.handle = g.pendingJob.handle

LEMMA AgNotTaken ==
  ASSUME NEW g, NEW r, Len(g.handler) \in Nat, Len(r.handler) \in Nat,
         Len(g.handler) <= Len(r.handler)
  PROVE  AgOwn(g, r)
BY DEF AgOwn

AgCalls == Seq(LeResults \cup {"lost"})
LEMMA AgCallsParts ==
  ASSUME NEW calls \in AgCalls
  PROVE  /\ Len(calls) \in Nat
         /\ \A S : Dropped(calls, S) \in AgCalls /\ Len(Dropped(calls, S)) = Len(calls)
         /\ \A op, result : result \in LeResults \cup {"lost"} =>
              /\ Answered(calls, op, result) \in AgCalls
              /\ Len(Answered(calls, op, result)) = Len(calls)
<1> DEFINE R == LeResults \cup {"lost"}
<1>1. /\ DOMAIN calls = 1..Len(calls) /\ Len(calls) \in Nat /\ calls \in [1..Len(calls) -> R]
  BY DEF AgCalls
<1>2. "dropped" \in R
  BY DEF LeResults
<1> HIDE DEF R
<1>3. ASSUME NEW S
      PROVE  Dropped(calls, S) \in AgCalls /\ Len(Dropped(calls, S)) = Len(calls)
  <2>1. Dropped(calls, S) \in [1..Len(calls) -> R]
    BY <1>1, <1>2 DEF Dropped
  <2> QED
    BY <1>1, <2>1, RewrittenParts DEF AgCalls, R
<1>4. ASSUME NEW op, NEW result, result \in R
      PROVE  Answered(calls, op, result) \in AgCalls /\ Len(Answered(calls, op, result)) = Len(calls)
  <2>1. Answered(calls, op, result) \in [1..Len(calls) -> R]
    BY <1>1, <1>4 DEF Answered
  <2> QED
    BY <1>1, <2>1, RewrittenParts DEF AgCalls, R
<1> QED
  BY <1>1, <1>3, <1>4 DEF R

LEMMA AgInitInv == AndroidInit => AgGood(gatt, andr)
<1> SUFFICES ASSUME AndroidInit PROVE AgGood(gatt, andr)
  OBVIOUS
<1>1. gatt = AgInit
  BY DEF AndroidInit
<1>2. PICK scenario \in AgScenarios :
        andr = [state |-> "Unconnected", serviceList |-> NoServices, calls |-> <<>>,
                said |-> "disconnected", session |-> 0, crashed |-> FALSE,
                scenario |-> scenario]
  BY DEF AndroidInit
<1>3. /\ DOMAIN gatt = AgFields /\ gatt.mBluetoothGatt = 0 /\ gatt.entries = FALSE
      /\ gatt.valueKnown = {} /\ gatt.servicesToBeDiscovered = <<>>
      /\ gatt.readWriteQueue = <<>> /\ gatt.pendingJob = NoJob
      /\ gatt.handleForTimeout = HandleForReset /\ gatt.handler = <<>> /\ gatt.toQt = <<>>
      /\ gatt.conns = [c \in 1..LeMaxSessions |-> "none"] /\ gatt.busy = NoJob
      /\ gatt.discovering = FALSE /\ gatt.bond = "none"
  BY <1>1 DEF AgInit, AgFields
<1>4. /\ DOMAIN andr = {"state", "serviceList", "calls", "said", "session", "crashed", "scenario"}
      /\ andr.state = "Unconnected" /\ andr.serviceList = NoServices /\ andr.calls = <<>>
      /\ andr.said = "disconnected" /\ andr.session = 0 /\ andr.scenario \in AgScenarios
  BY <1>2
<1>5. AgShape(gatt)
  <2>1. gatt.conns \in [AgSessions -> {"none", "connecting", "abandoned", "up", "closing",
                                      "down", "closed"}]
    BY <1>3 DEF AgSessions
  <2>2. <<>> \in Seq(AgWork) /\ <<>> \in Seq(DOMAIN Entries) /\ <<>> \in Seq(AgTasks)
        /\ <<>> \in Seq(AgSignals) /\ 0 \in 0..LeMaxSessions
    BY LeAssumption
  <2> QED
    BY ONLY <1>3, <2>1, <2>2 DEF AgShape
<1>6. AgPending(gatt) /\ AgQueue(gatt)
  BY <1>3 DEF AgPending, AgQueue
<1>7. AgControl(andr)
  <2>1. <<>> \in Seq(LeResults \cup {"lost"}) /\ Len(<<>>) = 0
    OBVIOUS
  <2> QED
    BY <1>4, <2>1, LeAssumption DEF AgControl, ControllerStates, ServiceStates, NoServices, AgUp
<1>8. /\ \A i : ~Reported(gatt, i) /\ ~Signalled(gatt, i)
      /\ \A k \in AgSessions : gatt.conns[k] = "none" /\ ~Live(gatt, k)
  BY <1>3 DEF Reported, Signalled, Live, AgSessions
<1>9. AgReports(gatt, andr.state)
  BY <1>4, <1>8 DEF AgReports, AgLives, AgSilent, AgUpReported, AgUpSignalled,
                    AgDownReported, AgDownSignalled
<1>10. AgIdle(gatt)
  BY <1>3 DEF AgIdle
<1> QED
  BY <1>5, <1>6, <1>7, <1>9, <1>10 DEF AgGood

LEMMA AgBounds ==
  ASSUME AgOrderly, AgControl(andr)
  PROVE  /\ ~AndroidMay("reuse") /\ ~AndroidMay("closeRace") /\ ~AndroidMay("zombie")
         /\ andr.scenario.sessions \in 1..LeMaxSessions
         /\ andr.scenario.calls \in 0..LeMaxCalls
BY AgAssumption DEF AgOrderly, AgControl, AndroidMay

\* The state of a connected controller changes into that of a connected one.
LEMMA AgStill ==
  ASSUME NEW g, NEW state \in AgUp, NEW new \in AgUp, AgReports(g, state)
  PROVE  AgReports(g, new)
<1>1. state \notin {"Connecting", "Unconnected"} /\ new # "Unconnected"
  BY DEF AgUp
<1>2. \A k \in AgSessions : g.conns[k] # "connecting"
  BY <1>1 DEF AgReports, AgLives
<1>3. AgLives(g, new)
  BY <1>1, <1>2 DEF AgReports, AgLives
<1>4. AgSilent(g, new)
  BY <1>1, <1>2 DEF AgSilent
<1>5. AgUpReported(g, new) /\ AgUpSignalled(g, new)
  BY <1>1 DEF AgReports, AgUpReported, AgUpSignalled
<1> QED
  BY <1>3, <1>4, <1>5 DEF AgReports

LEMMA AgConnectInv ==
  ASSUME AgOrderly, AgGood(gatt, andr), AndroidConnect
  PROVE  AgGood(gatt', andr') /\ AgOwn(gatt, gatt')
<1>1. /\ AgShape(gatt) /\ AgPending(gatt) /\ AgQueue(gatt) /\ AgControl(andr)
      /\ AgReports(gatt, andr.state) /\ andr.state = "Unconnected" /\ AgIdle(gatt)
  BY DEF AgGood, AndroidConnect, MayConnect, AgUp
<1>2. gatt.pendingJob = NoJob /\ andr.session < andr.scenario.sessions
  BY <1>1, AgBounds DEF AndroidConnect
<1> DEFINE c == andr.session + 1
<1>3. c \in AgSessions /\ c # 0 /\ c \in 0..LeMaxSessions
  BY <1>1, <1>2, AgBounds, LeAssumption DEF AgSessions, AgControl
<1>4. Len(gatt.handler) \in Nat
  BY <1>1 DEF AgShape
<1>5. CASE andr' = [andr EXCEPT !.session = @ + 1] /\ UNCHANGED gatt
  <2>1. /\ DOMAIN andr' = DOMAIN andr /\ andr'.session = c
        /\ andr'.state = andr.state /\ andr'.serviceList = andr.serviceList
        /\ andr'.calls = andr.calls /\ andr'.said = andr.said
        /\ andr'.scenario = andr.scenario
    BY <1>1, <1>5 DEF AgControl
  <2>2. AgControl(andr')
    BY <1>1, <1>3, <2>1 DEF AgControl
  <2>3. gatt' = gatt
    BY <1>5
  <2> QED
    BY <1>1, <1>4, <2>1, <2>2, <2>3, AgNotTaken DEF AgGood
<1>6. CASE /\ andr' = [andr EXCEPT !.session = @ + 1, !.state = "Connecting"]
           /\ gatt' = Connect(gatt, andr'.session)
  <2>1. /\ DOMAIN andr' = DOMAIN andr /\ andr'.session = c
        /\ andr'.state = "Connecting" /\ andr'.serviceList = andr.serviceList
        /\ andr'.calls = andr.calls /\ andr'.said = andr.said
        /\ andr'.scenario = andr.scenario
    BY <1>1, <1>6 DEF AgControl
  <2>2. AgControl(andr')
    BY <1>1, <1>3, <2>1 DEF AgControl, AgUp, ControllerStates
  <2>3. /\ DOMAIN gatt' = AgFields /\ gatt'.mBluetoothGatt = c
        /\ gatt'.conns = [gatt.conns EXCEPT ![c] = "connecting"] /\ gatt'.busy = NoJob
        /\ gatt'.discovering = FALSE /\ gatt'.bond = "none"
        /\ gatt'.entries = gatt.entries /\ gatt'.valueKnown = gatt.valueKnown
        /\ gatt'.servicesToBeDiscovered = gatt.servicesToBeDiscovered
        /\ gatt'.readWriteQueue = gatt.readWriteQueue /\ gatt'.pendingJob = gatt.pendingJob
        /\ gatt'.handleForTimeout = gatt.handleForTimeout /\ gatt'.handler = gatt.handler
        /\ gatt'.toQt = gatt.toQt
    <3>1. DOMAIN gatt = AgFields
      BY <1>1 DEF AgShape
    <3> HIDE DEF c
    <3> QED
      BY <1>6, <2>1, <3>1 DEF Connect, AgFields
  <2> HIDE DEF c
  <2>4. \A i \in Nat : ~Reported(gatt, i) /\ ~Signalled(gatt, i)
    BY <1>1 DEF AgReports, AgSilent
  <2>5. \A i \in Nat : ~Reported(gatt', i) /\ ~Signalled(gatt', i)
    BY <2>3, <2>4 DEF Reported, Signalled
  <2>6. /\ gatt.conns \in [AgSessions -> {"none", "connecting", "abandoned", "up", "closing",
                                        "down", "closed"}]
        /\ gatt'.conns[c] = "connecting"
        /\ \A k \in AgSessions : k # c => gatt'.conns[k] = gatt.conns[k]
    BY <1>1, <1>3, <2>3 DEF AgShape
  <2>7. AgShape(gatt')
    BY <1>1, <1>3, <2>3, <2>6 DEF AgShape
  <2>8. AgPending(gatt')
    BY <1>1, <1>2, <2>3 DEF AgPending
  <2>9. \A i \in 1..Len(gatt.handler) : gatt.handler[i].of = 0
    BY <1>1, <1>4, <2>4 DEF AgIdle, Reported
  <2>10. AgIdle(gatt')
    BY <1>1, <1>2, <2>3 DEF AgIdle
  <2>11. AgQueue(gatt')
    BY <1>1, <1>3, <2>3, <2>9 DEF AgQueue, AgIdle
  <2>12. \A k \in AgSessions : ~Live(gatt, k)
    BY <1>1 DEF AgReports, AgLives
  <2>13. \A k \in AgSessions : Live(gatt', k) => k = c
    BY <2>6, <2>12 DEF Live
  <2>14. AgLives(gatt', andr'.state)
    BY <1>1, <2>1, <2>3, <2>13 DEF AgLives
  <2>15. AgReports(gatt', andr'.state)
    BY <2>5, <2>14 DEF AgReports, AgSilent, AgUpReported, AgUpSignalled,
                      AgDownReported, AgDownSignalled
  <2> QED
    BY <1>4, <2>2, <2>3, <2>7, <2>8, <2>10, <2>11, <2>15, AgNotTaken DEF AgGood
<1> QED
  BY <1>5, <1>6 DEF AndroidConnect

LEMMA AgDisconnectInv ==
  ASSUME AgOrderly, AgGood(gatt, andr), AndroidDisconnect
  PROVE  AgGood(gatt', andr') /\ AgOwn(gatt, gatt')
<1>1. /\ AgShape(gatt) /\ AgPending(gatt) /\ AgQueue(gatt) /\ AgControl(andr)
      /\ AgReports(gatt, andr.state) /\ andr.state # "Unconnected"
      /\ andr.state \notin AgUp => AgIdle(gatt)
  BY DEF AgGood, AndroidDisconnect, MayDisconnect
<1>2. Len(gatt.handler) \in Nat
  BY <1>1 DEF AgShape
<1> DEFINE b == gatt.mBluetoothGatt
           state == IF andr.state = "Connecting" THEN "Unconnected" ELSE "Closing"
<1>3. /\ DOMAIN andr' = DOMAIN andr /\ andr'.session = andr.session
      /\ andr'.state = state /\ andr'.serviceList = NoServices
      /\ andr'.calls = Dropped(andr.calls, DOMAIN andr.calls) /\ andr'.said = andr.said
      /\ andr'.scenario = andr.scenario
  BY <1>1 DEF AgControl, AndroidDisconnect
<1>4. AgControl(andr')
  <2>1. Len(andr.calls) <= LeMaxCalls /\ andr.calls \in AgCalls
    BY <1>1 DEF AgControl, AgCalls
  <2>2. andr'.calls \in AgCalls /\ Len(andr'.calls) <= LeMaxCalls
    BY <1>3, <2>1, AgCallsParts
  <2>3. NoServices \in [LeServices -> ServiceStates] /\ \A s \in LeServices : NoServices[s] = "none"
    BY DEF NoServices, ServiceStates
  <2>4. andr.state \in AgUp <=> state \in AgUp
    BY <1>1 DEF AgUp, AgControl, ControllerStates
  <2>5. state \in ControllerStates
    BY DEF ControllerStates
  <2> HIDE DEF state
  <2> QED
    BY <1>1, <1>3, <2>2, <2>3, <2>4, <2>5 DEF AgControl, AgCalls
<1>5. /\ DOMAIN gatt' = AgFields /\ gatt'.mBluetoothGatt = b
      /\ gatt'.busy = gatt.busy /\ gatt'.discovering = gatt.discovering /\ gatt'.bond = gatt.bond
      /\ gatt'.entries = gatt.entries /\ gatt'.valueKnown = gatt.valueKnown
      /\ gatt'.servicesToBeDiscovered = gatt.servicesToBeDiscovered
      /\ gatt'.readWriteQueue = gatt.readWriteQueue /\ gatt'.pendingJob = gatt.pendingJob
      /\ gatt'.handleForTimeout = gatt.handleForTimeout /\ gatt'.handler = gatt.handler
      /\ gatt'.toQt = gatt.toQt
      /\ b = 0 => gatt'.conns = gatt.conns
      /\ b # 0 => gatt'.conns = [gatt.conns EXCEPT ![b] =
                     CASE @ = "up" -> "closing" [] @ = "connecting" -> "abandoned" [] OTHER -> @]
  <2>1. DOMAIN gatt = AgFields /\ gatt' = Disconnect(gatt)
    BY <1>1 DEF AgShape, AndroidDisconnect
  <2>2. CASE b = 0
    BY <2>1, <2>2 DEF Disconnect
  <2>3. CASE b # 0
    BY <2>1, <2>3 DEF Disconnect, AgFields
  <2> QED
    BY <2>2, <2>3
<1> HIDE DEF b
<1>6. /\ gatt.conns \in [AgSessions -> {"none", "connecting", "abandoned", "up", "closing",
                                      "down", "closed"}]
      /\ b \in 0..LeMaxSessions /\ gatt.mBluetoothGatt = b
  BY <1>1 DEF AgShape, b
<1>7. /\ gatt'.conns \in [AgSessions -> {"none", "connecting", "abandoned", "up", "closing",
                                       "down", "closed"}]
      /\ \A k \in AgSessions : k # b => gatt'.conns[k] = gatt.conns[k]
      /\ b # 0 => /\ b \in AgSessions
                  /\ gatt.conns[b] = "up" => gatt'.conns[b] = "closing"
                  /\ gatt.conns[b] = "connecting" => gatt'.conns[b] = "abandoned"
                  /\ gatt.conns[b] \notin {"up", "connecting"} => gatt'.conns[b] = gatt.conns[b]
  <2>1. CASE b = 0
    BY <1>5, <1>6, <2>1
  <2>2. CASE b # 0
    <3>1. b \in AgSessions
      BY <1>6, <2>2, LeAssumption DEF AgSessions
    <3> QED
      BY <1>5, <1>6, <2>2, <3>1
  <2> QED
    BY <2>1, <2>2
<1>8. AgShape(gatt')
  BY <1>1, <1>5, <1>6, <1>7 DEF AgShape
<1>9. AgPending(gatt')
  BY <1>1, <1>5, <1>6 DEF AgPending
<1>10. AgQueue(gatt')
  BY <1>1, <1>5, <1>6 DEF AgQueue
<1>11. AgIdle(gatt) => AgIdle(gatt')
  BY <1>1, <1>5, <1>6 DEF AgIdle
<1>12. \A i \in Nat : (Reported(gatt', i) <=> Reported(gatt, i))
                      /\ (Signalled(gatt', i) <=> Signalled(gatt, i))
  BY <1>5 DEF Reported, Signalled
<1>13. ASSUME NEW k \in AgSessions
       PROVE  gatt'.conns[k] # "connecting" /\ (Live(gatt', k) => Live(gatt, k) /\ k = b)
  <2>1. Live(gatt, k) => k = b
    BY <1>1, <1>6 DEF AgReports, AgLives
  <2>2. k # 0
    BY LeAssumption DEF AgSessions
  <2>3. CASE k = b
    BY <1>7, <2>2, <2>3 DEF Live
  <2>4. CASE k # b
    BY <1>7, <2>1, <2>4 DEF Live
  <2> QED
    BY <2>3, <2>4
<1>14. \A k \in AgSessions : Live(gatt', k) => Live(gatt, k) /\ k = b
  BY <1>13
<1>15. CASE andr.state = "Connecting"
  <2>1. \E k \in AgSessions : gatt.conns[k] = "connecting"
    BY <1>1, <1>6, <1>15, AgBounds DEF AndroidDisconnect
  <2>2. \A i \in Nat : ~Reported(gatt', i) /\ ~Signalled(gatt', i)
    BY <1>1, <1>12, <2>1 DEF AgReports, AgSilent
  <2>3. PICK k \in AgSessions : gatt.conns[k] = "connecting"
    BY <2>1
  <2>4. k = b /\ gatt.conns[b] = "connecting" /\ b # 0
    BY <1>1, <1>6, <2>3, LeAssumption DEF AgReports, AgLives, Live, AgSessions
  <2>5. \A j \in AgSessions : ~Live(gatt', j)
    BY <1>7, <1>14, <2>4 DEF Live
  <2>6. AgReports(gatt', andr'.state)
    BY <1>13, <2>2, <2>5 DEF AgReports, AgLives, AgSilent, AgUpReported, AgUpSignalled,
                             AgDownReported, AgDownSignalled
  <2>7. AgIdle(gatt')
    BY <1>1, <1>11, <1>15 DEF AgUp
  <2> QED
    BY <1>2, <1>4, <1>5, <1>8, <1>9, <1>10, <2>6, <2>7, AgNotTaken DEF AgGood
<1>16. CASE andr.state # "Connecting"
  <2>1. andr.state \in AgUp /\ andr'.state = "Closing"
    BY <1>1, <1>3, <1>16 DEF AgUp, AgControl, ControllerStates
  <2>2. AgLives(gatt', "Closing") /\ AgSilent(gatt', "Closing")
    BY <1>5, <1>6, <1>13, <1>14 DEF AgLives, AgSilent
  <2>3. AgUpReported(gatt', "Closing") /\ AgUpSignalled(gatt', "Closing")
    BY <1>1, <1>5, <1>12, <1>16 DEF AgReports, AgUpReported, AgUpSignalled
  <2>4. AgDownReported(gatt') /\ AgDownSignalled(gatt')
    BY <1>1, <1>5, <1>6, <1>12, <1>14 DEF AgReports, AgDownReported, AgDownSignalled
  <2>5. AgReports(gatt', andr'.state) /\ andr'.state \in AgUp
    BY <2>1, <2>2, <2>3, <2>4 DEF AgReports, AgUp
  <2> QED
    BY <1>2, <1>4, <1>5, <1>8, <1>9, <1>10, <2>5, AgNotTaken DEF AgGood
<1> QED
  BY <1>15, <1>16

LEMMA AgDiscoverServicesInv ==
  ASSUME AgGood(gatt, andr), AndroidDiscoverServices
  PROVE  AgGood(gatt', andr') /\ AgOwn(gatt, gatt')
<1>1. /\ AgShape(gatt) /\ AgPending(gatt) /\ AgQueue(gatt) /\ AgControl(andr)
      /\ AgReports(gatt, andr.state) /\ andr.state = "Connected"
  BY DEF AgGood, AndroidDiscoverServices, MayDiscover
<1>2. Len(gatt.handler) \in Nat
  BY <1>1 DEF AgShape
<1>3. CASE gatt.mBluetoothGatt = 0
  <2>1. gatt' = gatt /\ andr' = andr
    BY <1>3 DEF AndroidDiscoverServices, androidVars
  <2> QED
    BY <1>2, <2>1, AgNotTaken
<1>4. CASE gatt.mBluetoothGatt # 0
  <2>1. andr' = [andr EXCEPT !.state = "Discovering"] /\ gatt' = [gatt EXCEPT !.discovering = TRUE]
    BY <1>4 DEF AndroidDiscoverServices
  <2>2. /\ DOMAIN andr' = DOMAIN andr /\ andr'.session = andr.session
        /\ andr'.state = "Discovering" /\ andr'.serviceList = andr.serviceList
        /\ andr'.calls = andr.calls /\ andr'.said = andr.said
        /\ andr'.scenario = andr.scenario
    BY <1>1, <2>1 DEF AgControl
  <2>3. AgControl(andr')
    BY <1>1, <2>2 DEF AgControl, AgUp, ControllerStates
  <2>4. /\ DOMAIN gatt' = AgFields /\ gatt'.mBluetoothGatt = gatt.mBluetoothGatt
        /\ gatt'.busy = gatt.busy /\ gatt'.discovering = TRUE /\ gatt'.bond = gatt.bond
        /\ gatt'.entries = gatt.entries /\ gatt'.valueKnown = gatt.valueKnown
        /\ gatt'.servicesToBeDiscovered = gatt.servicesToBeDiscovered
        /\ gatt'.readWriteQueue = gatt.readWriteQueue /\ gatt'.pendingJob = gatt.pendingJob
        /\ gatt'.handleForTimeout = gatt.handleForTimeout /\ gatt'.handler = gatt.handler
        /\ gatt'.toQt = gatt.toQt /\ gatt'.conns = gatt.conns
    <3>1. DOMAIN gatt = AgFields
      BY <1>1 DEF AgShape
    <3> QED
      BY <2>1, <3>1 DEF AgFields
  <2>5. AgShape(gatt') /\ AgPending(gatt') /\ AgQueue(gatt')
    <3>1. AgShape(gatt')
      BY <1>1, <2>4 DEF AgShape
    <3>2. AgPending(gatt')
      BY <1>1, <2>4 DEF AgPending
    <3>3. AgQueue(gatt')
      BY <1>1, <1>4, <2>4 DEF AgQueue
    <3> QED
      BY <3>1, <3>2, <3>3
  <2>6. gatt.handler \in Seq(AgTasks) /\ gatt.toQt \in Seq(AgSignals)
    BY <1>1 DEF AgShape
  <2>7. AgReports(gatt', andr.state)
    BY <1>1, <2>4, <2>6, AgPostedSelf, AgToldSelf, AgReportsSame
  <2>8. AgReports(gatt', andr'.state) /\ andr'.state \in AgUp
    BY <1>1, <2>2, <2>7, AgStill DEF AgUp
  <2> QED
    BY <1>2, <2>3, <2>4, <2>5, <2>8, AgNotTaken DEF AgGood
<1> QED
  BY <1>3, <1>4

\* r is g with more to do.
AgMore(r, g) ==
  /\ r.mBluetoothGatt = g.mBluetoothGatt /\ g.mBluetoothGatt # 0
  /\ r.conns = g.conns /\ r.pendingJob = g.pendingJob
  /\ r.handleForTimeout = g.handleForTimeout /\ r.bond = g.bond
  /\ g.entries => r.entries
  /\ r.busy = g.busy \/ r.busy = NoJob
  /\ \A i \in 1..Len(r.readWriteQueue) : r.readWriteQueue[i].type # "Mtu" => r.entries
  /\ AgPosted(r.handler, g.handler) /\ AgTold(r.toQt, g.toQt)
  /\ \A i \in 1..Len(r.handler) : i > Len(g.handler) =>
       /\ r.handler[i].task = "answer" => r.entries
       /\ r.handler[i].of # 0 => r.handler[i].of = g.mBluetoothGatt

LEMMA AgMoreGood ==
  ASSUME NEW g, NEW state, AgPending(g), AgQueue(g), AgReports(g, state),
         NEW r, AgMore(r, g)
  PROVE  /\ AgPending(r) /\ AgQueue(r) /\ AgReports(r, state) /\ AgOwn(g, r)
         /\ Len(g.handler) <= Len(r.handler)
<1>1. AgPending(r)
  BY DEF AgMore, AgPending
<1>2. \A i \in 1..Len(r.handler) :
        /\ r.handler[i].task = "answer" => r.entries
        /\ r.handler[i].of # 0 => r.handler[i].of = r.mBluetoothGatt
  <2> TAKE i \in 1..Len(r.handler)
  <2>1. i > Len(g.handler) \/ (i \in 1..Len(g.handler) /\ r.handler[i] = g.handler[i])
    BY DEF AgMore, AgPosted
  <2> QED
    BY <2>1 DEF AgMore, AgQueue
<1>3. AgQueue(r)
  BY <1>2 DEF AgMore, AgQueue
<1>4. AgReports(r, state)
  BY AgReportsSame DEF AgMore
<1>5. AgOwn(g, r) /\ Len(g.handler) <= Len(r.handler)
  BY DEF AgMore, AgOwn, AgPosted
<1> QED
  BY <1>1, <1>3, <1>4, <1>5

\* A message is posted: performNextIO(), or a callback of mBluetoothGatt.
LEMMA AgPostParts ==
  ASSUME NEW g, DOMAIN g = AgFields, g.handler \in Seq(AgTasks), NEW m \in AgTasks,
         m.task # "connection"
  PROVE  /\ AgPosted(Post(g, m).handler, g.handler)
         /\ \A i \in 1..Len(Post(g, m).handler) : i > Len(g.handler) => Post(g, m).handler[i] = m
<1>1. Post(g, m).handler = Append(g.handler, m)
  BY DEF Post, AgFields
<1>2. /\ Len(Append(g.handler, m)) = Len(g.handler) + 1 /\ Len(g.handler) \in Nat
      /\ Append(g.handler, m)[Len(g.handler) + 1] = m
  BY AppendParts
<1>3. \A i \in 1..Len(g.handler) + 1 : i > Len(g.handler) => i = Len(g.handler) + 1
  BY <1>2
<1> QED
  BY <1>1, <1>2, <1>3, AgPostedMore

LEMMA AgIo == Io \in AgTasks /\ Io.task = "io" /\ Io.of = 0
BY DEF Io, AgTasks

LEMMA DiscoveryJobsParts ==
  ASSUME NEW s, InTree(s), NEW full \in BOOLEAN
  PROVE  DiscoveryJobs(s, full) \in Seq(AgWork)
<1> DEFINE n == EndHandle(s) - ServiceHandle(s)
           type == IF full THEN "Read" ELSE "SkippedRead"
<1>1. /\ n \in Nat /\ ServiceHandle(s) \in Nat /\ ServiceHandle(s) >= 1
      /\ EndHandle(s) \in Nat /\ EndHandle(s) <= Len(Entries)
      /\ DOMAIN Entries = 1..Len(Entries) /\ Len(Entries) \in Nat
  <2>1. /\ ServiceHandle(s) \in DOMAIN Entries /\ EndHandle(s) \in DOMAIN Entries
        /\ ServiceHandle(s) \in Nat /\ EndHandle(s) \in Nat /\ ServiceHandle(s) <= EndHandle(s)
    BY ServiceHandles
  <2>2. DOMAIN Entries = 1..Len(Entries) /\ Len(Entries) \in Nat
    BY EntriesParts
  <2> QED
    BY ONLY <2>1, <2>2
<1>2. type \in {"Read", "SkippedRead"}
  OBVIOUS
<1> HIDE DEF type
<1>3. ASSUME NEW i \in 1..n
      PROVE  Job(type, ServiceHandle(s) + i, 0) \in AgWork
  <2>1. ServiceHandle(s) + i \in 1..Len(Entries)
    BY <1>1
  <2>2. 0 \in 0..LeMaxCalls
    BY LeAssumption
  <2>3. ServiceHandle(s) + i \in 0..Len(Entries) /\ ServiceHandle(s) + i \in DOMAIN Entries
    BY <1>1, <2>1
  <2>4. /\ type \in {"Read", "Write", "SkippedRead", "Mtu", "none"}
        /\ type # "none"
    BY <1>2
  <2> QED
    BY <2>2, <2>3, <2>4 DEF AgWork, AgJobs, Job
<1>4. DiscoveryJobs(s, full) = [i \in 1..n |-> Job(type, ServiceHandle(s) + i, 0)]
  BY DEF DiscoveryJobs, type
<1>5. DiscoveryJobs(s, full) \in [1..n -> AgWork]
  BY <1>3, <1>4
<1> HIDE DEF n
<1> QED
  BY <1>1, <1>5, RewrittenParts

LEMMA AgAccessInv ==
  ASSUME AgOrderly, AgGood(gatt, andr), NEW a \in LeAttributes, NEW type \in {"Read", "Write"},
         AndroidAccess(a, type)
  PROVE  AgGood(gatt', andr') /\ AgOwn(gatt, gatt')
<1> DEFINE refused == gatt.mBluetoothGatt = 0 \/ ~gatt.entries
           result == IF refused THEN "error" ELSE "open"
           op == Len(andr.calls) + 1
           job == Job(type, HandleOf(a), op)
<1>1. /\ AgShape(gatt) /\ AgPending(gatt) /\ AgQueue(gatt) /\ AgControl(andr)
      /\ AgReports(gatt, andr.state)
  BY DEF AgGood
<1>2. LeHome[a] \in LeServices /\ andr.serviceList[LeHome[a]] = "Discovered"
  BY LeAssumption DEF AndroidAccess, MayAccess
<1>3. InTree(LeHome[a]) /\ andr.state \in AgUp
  BY <1>1, <1>2 DEF AgControl, NoServices
<1>4. /\ andr.calls \in AgCalls /\ Len(andr.calls) \in Nat /\ op \in 0..LeMaxCalls /\ op <= LeMaxCalls
  <2>1. andr.calls \in AgCalls /\ Len(andr.calls) \in Nat
    BY <1>1 DEF AgControl, AgCalls
  <2>2. Len(andr.calls) < andr.scenario.calls /\ andr.scenario.calls \in 0..LeMaxCalls
    BY <1>1, AgBounds DEF AndroidAccess
  <2> QED
    BY <2>1, <2>2, LeAssumption
<1>5. andr' = [andr EXCEPT !.calls = Append(@, result)]
  BY DEF AndroidAccess
<1>6. /\ DOMAIN andr' = DOMAIN andr /\ andr'.session = andr.session
      /\ andr'.state = andr.state /\ andr'.serviceList = andr.serviceList
      /\ andr'.calls = Append(andr.calls, result) /\ andr'.said = andr.said
      /\ andr'.scenario = andr.scenario
  BY <1>1, <1>5 DEF AgControl
<1>7. andr'.calls \in AgCalls /\ Len(andr'.calls) = op
  <2>1. result \in LeResults \cup {"lost"}
    BY DEF LeResults
  <2> HIDE DEF result
  <2> QED
    BY <1>4, <1>6, <2>1, AppendParts DEF AgCalls
<1>8. AgControl(andr')
  BY <1>1, <1>4, <1>6, <1>7 DEF AgControl, AgCalls
<1>9. CASE refused
  <2>1. gatt' = gatt
    BY <1>9 DEF AndroidAccess
  <2>2. Len(gatt.handler) \in Nat
    BY <1>1 DEF AgShape
  <2> QED
    BY <1>1, <1>3, <1>6, <1>8, <2>1, <2>2, AgNotTaken DEF AgGood
<1>10. CASE ~refused
  <2>1. gatt.mBluetoothGatt # 0 /\ gatt.entries
    BY <1>10
  <2>2. job \in AgWork
    <3>1. HandleOf(a) \in DOMAIN Entries /\ HandleOf(a) \in 0..Len(Entries)
      BY <1>3, HandleOfParts, EntriesParts
    <3> QED
      BY <1>4, <3>1 DEF AgWork, AgJobs, Job
  <2>3. gatt' = Enqueue(gatt, job)
    <3>1. gatt' = Enqueue(gatt, Job(type, HandleOf(a), Len(andr'.calls)))
      BY <1>10 DEF AndroidAccess
    <3> QED
      BY <1>7, <3>1
  <2> HIDE DEF job
  <2> DEFINE h == [gatt EXCEPT !.readWriteQueue = Append(@, job)]
  <2>4. /\ DOMAIN h = AgFields /\ h.readWriteQueue = Append(gatt.readWriteQueue, job)
        /\ h.mBluetoothGatt = gatt.mBluetoothGatt /\ h.entries = gatt.entries
        /\ h.valueKnown = gatt.valueKnown /\ h.pendingJob = gatt.pendingJob
        /\ h.servicesToBeDiscovered = gatt.servicesToBeDiscovered
        /\ h.handleForTimeout = gatt.handleForTimeout /\ h.handler = gatt.handler
        /\ h.toQt = gatt.toQt /\ h.conns = gatt.conns /\ h.busy = gatt.busy
        /\ h.discovering = gatt.discovering /\ h.bond = gatt.bond
    <3>1. DOMAIN gatt = AgFields
      BY <1>1 DEF AgShape
    <3> QED
      BY <3>1 DEF AgFields
  <2>5. gatt' = Post(h, Io)
    BY <2>1, <2>3, <2>4 DEF Enqueue, PerformNextIOThreaded
  <2> HIDE DEF h
  <2>6. /\ DOMAIN gatt' = AgFields /\ gatt'.handler = Append(gatt.handler, Io)
        /\ gatt'.readWriteQueue = h.readWriteQueue
        /\ gatt'.mBluetoothGatt = h.mBluetoothGatt /\ gatt'.entries = h.entries
        /\ gatt'.valueKnown = h.valueKnown /\ gatt'.pendingJob = h.pendingJob
        /\ gatt'.servicesToBeDiscovered = h.servicesToBeDiscovered
        /\ gatt'.handleForTimeout = h.handleForTimeout
        /\ gatt'.toQt = h.toQt /\ gatt'.conns = h.conns /\ gatt'.busy = h.busy
        /\ gatt'.discovering = h.discovering /\ gatt'.bond = h.bond
    BY <2>4, <2>5 DEF Post, AgFields
  <2>7. /\ AgPosted(gatt'.handler, gatt.handler)
        /\ \A i \in 1..Len(gatt'.handler) : i > Len(gatt.handler) => gatt'.handler[i] = Io
    BY <1>1, <2>4, <2>5, AgIo, AgPostParts DEF AgShape
  <2>8. gatt'.readWriteQueue \in Seq(AgWork)
    BY <1>1, <2>2, <2>4, <2>6, AppendParts DEF AgShape
  <2>9. AgMore(gatt', gatt)
    <3>1. AgTold(gatt'.toQt, gatt.toQt)
      BY <1>1, <2>4, <2>6, AgToldSelf DEF AgShape
    <3> QED
      BY <2>1, <2>4, <2>6, <2>7, <3>1, AgIo DEF AgMore
  <2>10. AgShape(gatt')
    <3>1. gatt'.handler \in Seq(AgTasks)
      BY <2>7 DEF AgPosted
    <3> QED
      BY <1>1, <2>4, <2>6, <2>8, <3>1 DEF AgShape
  <2>11. AgPending(gatt') /\ AgQueue(gatt') /\ AgReports(gatt', andr.state) /\ AgOwn(gatt, gatt')
    BY <1>1, <2>9, AgMoreGood
  <2> QED
    BY <1>3, <1>6, <1>8, <2>10, <2>11 DEF AgGood
<1> QED
  BY <1>9, <1>10

\* What is to be known of a service: at once if it has no characteristics.
LEMMA AgDetailsParts ==
  ASSUME NEW g, AgShape(g), AgQueue(g), g.mBluetoothGatt # 0, NEW s \in LeServices, InTree(s),
         NEW full \in BOOLEAN
  PROVE  /\ AgShape(DiscoverDetails(g, s, full)) /\ AgMore(DiscoverDetails(g, s, full), g)
         /\ DiscoverDetails(g, s, full).discovering = g.discovering
<1> DEFINE h == ServiceHandle(s)
           found == [g EXCEPT !.entries = TRUE]
           first == [found EXCEPT !.servicesToBeDiscovered = Append(@, h)]
           jobs == DiscoveryJobs(s, full)
           asked == [first EXCEPT !.readWriteQueue = @ \o jobs]
           finished == FinishCurrentServiceDiscovery(first, s)
           r == DiscoverDetails(g, s, full)
<1>1. /\ r = found
      \/ r = PerformNextIOThreaded(finished)
      \/ r = PerformNextIOThreaded(asked)
  BY DEF DiscoverDetails
<1>2. DOMAIN g = AgFields /\ h \in DOMAIN Entries /\ jobs \in Seq(AgWork)
  BY ServiceHandles, DiscoveryJobsParts DEF AgShape
<1>3. /\ DOMAIN found = AgFields /\ found.readWriteQueue = g.readWriteQueue
      /\ found.mBluetoothGatt = g.mBluetoothGatt /\ found.entries = TRUE
      /\ found.valueKnown = g.valueKnown /\ found.pendingJob = g.pendingJob
      /\ found.servicesToBeDiscovered = g.servicesToBeDiscovered
      /\ found.handleForTimeout = g.handleForTimeout /\ found.handler = g.handler
      /\ found.toQt = g.toQt /\ found.conns = g.conns /\ found.busy = g.busy
      /\ found.discovering = g.discovering /\ found.bond = g.bond
  BY <1>2 DEF AgFields
<1> HIDE DEF found, h, jobs
<1>4. /\ DOMAIN first = AgFields /\ first.readWriteQueue = g.readWriteQueue
      /\ first.mBluetoothGatt = g.mBluetoothGatt /\ first.entries = TRUE
      /\ first.valueKnown = g.valueKnown /\ first.pendingJob = g.pendingJob
      /\ first.servicesToBeDiscovered = Append(g.servicesToBeDiscovered, h)
      /\ first.handleForTimeout = g.handleForTimeout /\ first.handler = g.handler
      /\ first.toQt = g.toQt /\ first.conns = g.conns /\ first.busy = g.busy
      /\ first.discovering = g.discovering /\ first.bond = g.bond
  BY <1>3 DEF AgFields
<1> HIDE DEF first
<1>5. AgShape(found) /\ AgShape(first)
  <2>1. Append(g.servicesToBeDiscovered, h) \in Seq(DOMAIN Entries)
    BY <1>2, AppendParts DEF AgShape
  <2> QED
    BY <1>3, <1>4, <2>1 DEF AgShape
<1>6. AgTold(g.toQt, g.toQt) /\ AgPosted(g.handler, g.handler) /\ g.handler \in Seq(AgTasks)
      /\ g.readWriteQueue \in Seq(AgWork) /\ Len(g.handler) \in Nat
  BY AgToldSelf, AgPostedSelf DEF AgShape
<1>7. AgMore(found, g)
  BY <1>3, <1>6 DEF AgMore
<1>8. /\ DOMAIN asked = AgFields /\ asked.readWriteQueue = g.readWriteQueue \o jobs
      /\ asked.mBluetoothGatt = g.mBluetoothGatt /\ asked.entries = TRUE
      /\ asked.valueKnown = g.valueKnown /\ asked.pendingJob = g.pendingJob
      /\ asked.servicesToBeDiscovered = first.servicesToBeDiscovered
      /\ asked.handleForTimeout = g.handleForTimeout /\ asked.handler = g.handler
      /\ asked.toQt = g.toQt /\ asked.conns = g.conns /\ asked.busy = g.busy
      /\ asked.discovering = g.discovering /\ asked.bond = g.bond
  BY <1>4 DEF AgFields
<1> HIDE DEF asked
<1>9. AgShape(asked)
  <2> DEFINE x == g.readWriteQueue \o jobs
  <2>1. x \in Seq(AgWork)
    BY <1>2, <1>6, ConcatParts
  <2> HIDE DEF x
  <2> QED
    BY <1>4, <1>5, <1>8, <2>1 DEF AgShape, x
<1>10. AgQuiet(finished, first) /\ AgShape(finished)
  BY <1>5, AgFinish, AgQuietShape
<1> HIDE DEF finished
<1>11. ASSUME NEW q \in {asked, finished}, r = PerformNextIOThreaded(q)
       PROVE  AgShape(r) /\ AgMore(r, g) /\ r.discovering = g.discovering
  <2>1. /\ AgShape(q) /\ DOMAIN q = AgFields /\ q.mBluetoothGatt = g.mBluetoothGatt
        /\ q.entries = TRUE /\ q.pendingJob = g.pendingJob
        /\ q.handleForTimeout = g.handleForTimeout /\ q.handler = g.handler
        /\ q.conns = g.conns /\ q.busy = g.busy /\ q.discovering = g.discovering
        /\ q.bond = g.bond /\ AgTold(q.toQt, g.toQt)
    BY <1>4, <1>6, <1>8, <1>9, <1>10 DEF AgQuiet
  <2>2. r = Post(q, Io)
    BY <1>11, <2>1 DEF PerformNextIOThreaded
  <2> HIDE DEF r
  <2>3. /\ DOMAIN r = AgFields /\ r.handler = Append(q.handler, Io)
        /\ r.readWriteQueue = q.readWriteQueue
        /\ r.mBluetoothGatt = q.mBluetoothGatt /\ r.entries = q.entries
        /\ r.valueKnown = q.valueKnown /\ r.pendingJob = q.pendingJob
        /\ r.servicesToBeDiscovered = q.servicesToBeDiscovered
        /\ r.handleForTimeout = q.handleForTimeout
        /\ r.toQt = q.toQt /\ r.conns = q.conns /\ r.busy = q.busy
        /\ r.discovering = q.discovering /\ r.bond = q.bond
    BY <2>1, <2>2 DEF Post, AgFields
  <2>4. /\ AgPosted(r.handler, g.handler)
        /\ \A i \in 1..Len(r.handler) : i > Len(g.handler) => r.handler[i] = Io
    BY <1>6, <2>1, <2>2, AgIo, AgPostParts
  <2>5. AgShape(r)
    <3>1. r.handler \in Seq(AgTasks)
      BY <2>4 DEF AgPosted
    <3> QED
      BY <2>1, <2>3, <3>1 DEF AgShape
  <2>6. AgMore(r, g)
    BY <2>1, <2>3, <2>4, AgIo DEF AgMore
  <2> QED
    BY <2>1, <2>3, <2>5, <2>6
<1> QED
  BY <1>1, <1>3, <1>5, <1>7, <1>11

LEMMA AgDetailsInv ==
  ASSUME AgGood(gatt, andr), NEW s \in LeServices, NEW full \in BOOLEAN,
         AndroidDiscoverDetails(s, full)
  PROVE  AgGood(gatt', andr') /\ AgOwn(gatt, gatt')
<1>1. /\ AgShape(gatt) /\ AgPending(gatt) /\ AgQueue(gatt) /\ AgControl(andr)
      /\ AgReports(gatt, andr.state) /\ andr.serviceList[s] = "Remote"
  BY DEF AgGood, AndroidDiscoverDetails, MayDiscoverDetails
<1>2. InTree(s) /\ andr.state \in AgUp
  BY <1>1 DEF AgControl, NoServices
<1>3. CASE gatt.mBluetoothGatt = 0
  <2>1. gatt' = gatt /\ andr' = andr /\ Len(gatt.handler) \in Nat
    BY <1>1, <1>3 DEF AndroidDiscoverDetails, androidVars, AgShape
  <2> QED
    BY <2>1, AgNotTaken
<1>4. CASE gatt.mBluetoothGatt # 0
  <2>1. /\ andr' = [andr EXCEPT !.serviceList[s] = "Discovering"]
        /\ gatt' = DiscoverDetails(gatt, s, full)
    BY <1>4 DEF AndroidDiscoverDetails
  <2>2. /\ DOMAIN andr' = DOMAIN andr /\ andr'.session = andr.session
        /\ andr'.state = andr.state
        /\ andr'.serviceList = [andr.serviceList EXCEPT ![s] = "Discovering"]
        /\ andr'.calls = andr.calls /\ andr'.said = andr.said
        /\ andr'.scenario = andr.scenario
    BY <1>1, <2>1 DEF AgControl
  <2>3. AgControl(andr')
    <3>1. /\ andr'.serviceList \in [LeServices -> ServiceStates]
          /\ \A x \in LeServices : andr'.serviceList[x] # "none" => InTree(x)
      BY <1>1, <1>2, <2>2 DEF AgControl, ServiceStates
    <3> QED
      BY <1>1, <1>2, <2>2, <3>1 DEF AgControl
  <2>4. AgShape(gatt') /\ AgMore(gatt', gatt)
    BY <1>1, <1>2, <1>4, <2>1, AgDetailsParts
  <2>5. AgPending(gatt') /\ AgQueue(gatt') /\ AgReports(gatt', andr.state) /\ AgOwn(gatt, gatt')
    BY <1>1, <2>4, AgMoreGood
  <2> QED
    BY <1>2, <2>2, <2>3, <2>4, <2>5 DEF AgGood
<1> QED
  BY <1>3, <1>4

-----------------------------------------------------------------------------
(* The slots of the controller *)

\* The first signal is taken from the queue of the thread of Qt.
LEMMA AgSignalTaken ==
  ASSUME NEW g, AgShape(g), AgPending(g), AgQueue(g), g.toQt # <<>>,
         NEW r, r = [g EXCEPT !.toQt = Tail(@)]
  PROVE  /\ AgShape(r) /\ AgPending(r) /\ AgQueue(r) /\ (AgIdle(g) => AgIdle(r))
         /\ r.conns = g.conns /\ r.handler = g.handler /\ r.mBluetoothGatt = g.mBluetoothGatt
         /\ AgOwn(g, r) /\ Head(g.toQt) = g.toQt[1] /\ g.toQt[1] \in AgSignals
         /\ \A i \in Nat : Signalled(r, i) <=> i + 1 # 1 /\ Signalled(g, i + 1)
         /\ \A i \in 1..Len(r.toQt) : i + 1 \in 1..Len(g.toQt) /\ r.toQt[i] = g.toQt[i + 1]
         /\ Len(g.toQt) \in Nat /\ Len(r.toQt) = Len(g.toQt) - 1
<1>1. DOMAIN g = AgFields /\ g.toQt \in Seq(AgSignals) /\ Len(g.handler) \in Nat
  BY DEF AgShape
<1>2. /\ DOMAIN r = AgFields /\ r.toQt = Tail(g.toQt) /\ r.mBluetoothGatt = g.mBluetoothGatt
      /\ r.entries = g.entries /\ r.readWriteQueue = g.readWriteQueue
      /\ r.pendingJob = g.pendingJob /\ r.handleForTimeout = g.handleForTimeout
      /\ r.handler = g.handler /\ r.conns = g.conns /\ r.busy = g.busy
      /\ r.discovering = g.discovering /\ r.bond = g.bond /\ r.valueKnown = g.valueKnown
      /\ r.servicesToBeDiscovered = g.servicesToBeDiscovered
  BY <1>1 DEF AgFields
<1>3. /\ Tail(g.toQt) \in Seq(AgSignals) /\ Head(g.toQt) = g.toQt[1] /\ Head(g.toQt) \in AgSignals
      /\ Len(g.toQt) \in Nat /\ Len(g.toQt) >= 1 /\ Len(Tail(g.toQt)) = Len(g.toQt) - 1
      /\ \A i \in 1..Len(g.toQt) - 1 : Tail(g.toQt)[i] = g.toQt[i + 1]
  BY <1>1, TailParts
<1>4. AgShape(r) /\ AgPending(r) /\ AgQueue(r)
  BY <1>2, <1>3 DEF AgShape, AgPending, AgQueue
<1>5. \A i \in 1..Len(r.toQt) : i + 1 \in 1..Len(g.toQt) /\ r.toQt[i] = g.toQt[i + 1]
  BY <1>2, <1>3
<1>6. \A i \in Nat : (i \in 1..Len(r.toQt)) <=> (i + 1 # 1 /\ i + 1 \in 1..Len(g.toQt))
  BY <1>2, <1>3
<1>7. \A i \in Nat : Signalled(r, i) <=> i + 1 # 1 /\ Signalled(g, i + 1)
  BY <1>5, <1>6 DEF Signalled
<1>8. AgIdle(g) => AgIdle(r)
  BY <1>2, <1>5 DEF AgIdle
<1>9. AgOwn(g, r)
  BY <1>1, <1>2 DEF AgOwn
<1> QED
  BY <1>2, <1>3, <1>4, <1>5, <1>7, <1>8, <1>9

\* It is not a report on the connection.
LEMMA AgSignalOther ==
  ASSUME NEW g, NEW state, AgShape(g), AgPending(g), AgQueue(g), AgReports(g, state),
         g.toQt # <<>>, ~Signalled(g, 1), NEW r, r = [g EXCEPT !.toQt = Tail(@)]
  PROVE  AgReports(r, state)
<1>1. /\ r.conns = g.conns /\ r.handler = g.handler /\ r.mBluetoothGatt = g.mBluetoothGatt
      /\ \A i \in Nat : Signalled(r, i) <=> i + 1 # 1 /\ Signalled(g, i + 1)
      /\ \A i \in 1..Len(r.toQt) : i + 1 \in 1..Len(g.toQt) /\ r.toQt[i] = g.toQt[i + 1]
  BY AgSignalTaken
<1>2. /\ \A k : Live(r, k) <=> Live(g, k)
      /\ \A i : Reported(r, i) <=> Reported(g, i)
  BY <1>1 DEF Live, Reported
<1>3. \A i \in Nat : Signalled(r, i) =>
        i + 1 \in Nat /\ Signalled(g, i + 1) /\ r.toQt[i] = g.toQt[i + 1]
  BY <1>1 DEF Signalled
<1>4. ASSUME NEW i \in Nat, Signalled(g, i)
      PROVE  i - 1 \in Nat /\ Signalled(r, i - 1)
  <2>1. i \in 1..Len(g.toQt) /\ i # 1
    BY <1>4 DEF Signalled
  <2>2. i - 1 \in Nat /\ i - 1 + 1 = i
    BY <2>1
  <2> QED
    BY <1>1, <1>4, <2>1, <2>2
<1>5. AgLives(r, state) /\ AgSilent(r, state) /\ AgDownReported(r)
  BY <1>1, <1>2, <1>3 DEF AgReports, AgLives, AgSilent, AgDownReported
<1>6. AgUpReported(r, state)
  BY <1>1, <1>2, <1>3 DEF AgReports, AgUpReported
<1>7. AgUpSignalled(r, state)
  <2> SUFFICES ASSUME NEW i \in Nat, Signalled(r, i), r.toQt[i].up
               PROVE  /\ state = "Connecting"
                      /\ \A j \in Nat : Signalled(r, j) /\ j # i =>
                           j > i /\ ~r.toQt[j].up /\ r.toQt[i].ok
                      /\ \A j \in Nat : Reported(r, j) => ~r.handler[j].up /\ r.toQt[i].ok
                      /\ ~r.toQt[i].ok => \A k \in AgSessions : ~Live(r, k)
    BY DEF AgUpSignalled
  <2>1. Signalled(g, i + 1) /\ r.toQt[i] = g.toQt[i + 1] /\ i + 1 \in Nat
    BY <1>3
  <2>2. /\ state = "Connecting"
        /\ \A j \in Nat : Signalled(g, j) /\ j # i + 1 =>
             j > i + 1 /\ ~g.toQt[j].up /\ g.toQt[i + 1].ok
        /\ \A j \in Nat : Reported(g, j) => ~g.handler[j].up /\ g.toQt[i + 1].ok
        /\ ~g.toQt[i + 1].ok => \A k \in AgSessions : ~Live(g, k)
    BY <2>1 DEF AgReports, AgUpSignalled
  <2>3. ASSUME NEW j \in Nat, Signalled(r, j), j # i
        PROVE  j > i /\ ~r.toQt[j].up /\ r.toQt[i].ok
    <3>1. Signalled(g, j + 1) /\ r.toQt[j] = g.toQt[j + 1] /\ j + 1 \in Nat
      BY <1>3, <2>3
    <3>2. j + 1 # i + 1 /\ (j + 1 > i + 1 => j > i)
      BY <2>3
    <3> QED
      BY <2>1, <2>2, <3>1, <3>2
  <2> QED
    BY <1>1, <1>2, <2>1, <2>2, <2>3
<1>8. AgDownSignalled(r)
  <2> SUFFICES ASSUME NEW i \in Nat, Signalled(r, i), ~r.toQt[i].up
               PROVE  /\ r.mBluetoothGatt = 0
                      /\ \A j \in 1..Len(r.toQt) : j > i =>
                           r.toQt[j].signal \notin {"connection", "servicesDiscovered"}
    BY DEF AgDownSignalled
  <2>1. Signalled(g, i + 1) /\ r.toQt[i] = g.toQt[i + 1] /\ i + 1 \in Nat
    BY <1>3
  <2>2. /\ g.mBluetoothGatt = 0
        /\ \A j \in 1..Len(g.toQt) : j > i + 1 =>
             g.toQt[j].signal \notin {"connection", "servicesDiscovered"}
    BY <2>1 DEF AgReports, AgDownSignalled
  <2>3. \A j \in 1..Len(r.toQt) : j > i => j + 1 \in 1..Len(g.toQt) /\ j + 1 > i + 1
    BY <1>1
  <2> QED
    BY <1>1, <2>2, <2>3
<1> QED
  BY <1>5, <1>6, <1>7, <1>8 DEF AgReports

\* The connection is made, or the attempt has failed.
LEMMA AgUpTold ==
  ASSUME NEW g, NEW state, AgShape(g), AgPending(g), AgQueue(g), AgReports(g, state),
         g.toQt # <<>>, Signalled(g, 1), g.toQt[1].up, NEW r, r = [g EXCEPT !.toQt = Tail(@)]
  PROVE  /\ state = "Connecting"
         /\ AgReports(r, IF g.toQt[1].ok THEN "Connected" ELSE "Unconnected")
<1>1. /\ r.conns = g.conns /\ r.handler = g.handler /\ r.mBluetoothGatt = g.mBluetoothGatt
      /\ \A i \in Nat : Signalled(r, i) <=> i + 1 # 1 /\ Signalled(g, i + 1)
      /\ \A i \in 1..Len(r.toQt) : i + 1 \in 1..Len(g.toQt) /\ r.toQt[i] = g.toQt[i + 1]
  BY AgSignalTaken
<1>2. /\ \A k : Live(r, k) <=> Live(g, k)
      /\ \A i : Reported(r, i) <=> Reported(g, i)
  BY <1>1 DEF Live, Reported
<1>3. \A i \in Nat : Signalled(r, i) =>
        i + 1 \in Nat /\ i + 1 # 1 /\ Signalled(g, i + 1) /\ r.toQt[i] = g.toQt[i + 1]
  BY <1>1 DEF Signalled
<1>4. /\ state = "Connecting"
      /\ \A j \in Nat : Signalled(g, j) /\ j # 1 => ~g.toQt[j].up /\ g.toQt[1].ok
      /\ \A j \in Nat : Reported(g, j) => ~g.handler[j].up /\ g.toQt[1].ok
      /\ ~g.toQt[1].ok => \A k \in AgSessions : ~Live(g, k)
  BY DEF AgReports, AgUpSignalled
<1>5. /\ \A i \in Nat : Signalled(r, i) => ~r.toQt[i].up /\ g.toQt[1].ok
      /\ \A i \in Nat : Reported(r, i) => ~r.handler[i].up /\ g.toQt[1].ok
  BY <1>1, <1>2, <1>3, <1>4
<1>6. \A k \in AgSessions : g.conns[k] # "connecting"
  BY DEF AgReports, AgSilent
<1> DEFINE new == IF g.toQt[1].ok THEN "Connected" ELSE "Unconnected"
<1>7. AgLives(r, new) /\ AgSilent(r, new)
  <2>1. \A k \in AgSessions : Live(r, k) => k = g.mBluetoothGatt /\ g.toQt[1].ok
    BY <1>2, <1>4 DEF AgReports, AgLives
  <2>2. \A k \in AgSessions : r.conns[k] # "connecting"
    BY <1>1, <1>6
  <2> QED
    BY <1>1, <1>5, <2>1, <2>2 DEF AgLives, AgSilent
<1>8. AgUpReported(r, new) /\ AgUpSignalled(r, new)
  BY <1>5 DEF AgUpReported, AgUpSignalled
<1>9. AgDownReported(r)
  BY <1>1, <1>2 DEF AgReports, AgDownReported
<1>10. AgDownSignalled(r)
  <2> SUFFICES ASSUME NEW i \in Nat, Signalled(r, i), ~r.toQt[i].up
               PROVE  /\ r.mBluetoothGatt = 0
                      /\ \A j \in 1..Len(r.toQt) : j > i =>
                           r.toQt[j].signal \notin {"connection", "servicesDiscovered"}
    BY DEF AgDownSignalled
  <2>1. Signalled(g, i + 1) /\ r.toQt[i] = g.toQt[i + 1] /\ i + 1 \in Nat
    BY <1>3
  <2>2. /\ g.mBluetoothGatt = 0
        /\ \A j \in 1..Len(g.toQt) : j > i + 1 =>
             g.toQt[j].signal \notin {"connection", "servicesDiscovered"}
    BY <2>1 DEF AgReports, AgDownSignalled
  <2>3. \A j \in 1..Len(r.toQt) : j > i => j + 1 \in 1..Len(g.toQt) /\ j + 1 > i + 1
    BY <1>1
  <2> QED
    BY <1>1, <2>2, <2>3
<1> QED
  BY <1>4, <1>7, <1>8, <1>9, <1>10 DEF AgReports

\* The connection has ended: nothing of it is still to come.
LEMMA AgDownTold ==
  ASSUME NEW g, NEW state, AgShape(g), AgPending(g), AgQueue(g), AgReports(g, state),
         g.toQt # <<>>, Signalled(g, 1), ~g.toQt[1].up, NEW r, r = [g EXCEPT !.toQt = Tail(@)]
  PROVE  AgReports(r, "Unconnected") /\ AgIdle(r)
<1>1. /\ r.conns = g.conns /\ r.handler = g.handler /\ r.mBluetoothGatt = g.mBluetoothGatt
      /\ AgShape(r) /\ AgQueue(r)
      /\ \A i \in Nat : Signalled(r, i) <=> i + 1 # 1 /\ Signalled(g, i + 1)
      /\ \A i \in 1..Len(r.toQt) : i + 1 \in 1..Len(g.toQt) /\ r.toQt[i] = g.toQt[i + 1]
  BY AgSignalTaken
<1>2. /\ g.mBluetoothGatt = 0
      /\ \A j \in 1..Len(g.toQt) : j > 1 =>
           g.toQt[j].signal \notin {"connection", "servicesDiscovered"}
  BY DEF AgReports, AgDownSignalled
<1>3. \A j \in 1..Len(r.toQt) : r.toQt[j].signal \notin {"connection", "servicesDiscovered"}
  <2>1. \A j \in 1..Len(r.toQt) : j + 1 > 1
    OBVIOUS
  <2> QED
    BY <1>1, <1>2, <2>1
<1>4. \A i \in 1..Len(r.handler) : r.handler[i].of = 0 /\ r.handler[i].task # "connection"
  <2> TAKE i \in 1..Len(r.handler)
  <2>1. r.handler[i].of # 0 => r.handler[i].of = 0
    BY <1>1, <1>2 DEF AgQueue
  <2>2. r.handler[i] \in AgTasks
    BY <1>1 DEF AgShape
  <2>3. r.handler[i].task = "connection" => r.handler[i].of \in AgSessions
    BY <2>2 DEF AgTasks
  <2>4. 0 \notin AgSessions
    BY LeAssumption DEF AgSessions
  <2> QED
    BY <2>1, <2>3, <2>4
<1>5. \A i \in Nat : ~Reported(r, i) /\ ~Signalled(r, i)
  BY <1>3, <1>4 DEF Reported, Signalled
<1>6. \A k \in AgSessions : ~Live(r, k)
  <2>1. 0 \notin AgSessions
    BY LeAssumption DEF AgSessions
  <2>2. \A k \in AgSessions : Live(g, k) => k = 0
    BY <1>2 DEF AgReports, AgLives
  <2> QED
    BY <1>1, <2>1, <2>2 DEF Live
<1>7. AgReports(r, "Unconnected")
  BY <1>5, <1>6 DEF AgReports, AgLives, AgSilent, AgUpReported, AgUpSignalled,
                    AgDownReported, AgDownSignalled, Live
<1>8. AgIdle(r)
  BY <1>1, <1>2, <1>3, <1>4 DEF AgIdle, AgQueue
<1> QED
  BY <1>7, <1>8

\* What a slot does to the controller, but for reports on the connection.
LEMMA AgSlotParts ==
  ASSUME NEW d, AgControl(d), NEW m \in AgSignals, m.signal # "connection",
         m.signal = "servicesDiscovered" => d.state \in AgUp
  PROVE  /\ AgControl(Slot(d, m))
         /\ m.signal # "servicesDiscovered" => Slot(d, m).state = d.state
         /\ d.state \in AgUp <=> Slot(d, m).state \in AgUp
<1> DEFINE fields == {"state", "serviceList", "calls", "said", "session", "crashed", "scenario"}
           r == Slot(d, m)
<1>1. DOMAIN d = fields /\ d.serviceList \in [LeServices -> ServiceStates] /\ d.calls \in AgCalls
      /\ d.state \in ControllerStates
  BY DEF AgControl, AgCalls
<1>2. CASE m.signal = "servicesDiscovered"
  <2> DEFINE listed == [s \in LeServices |->
                         IF \E i \in DOMAIN AgTree : AgTree[i].service = s
                         THEN "Remote" ELSE "none"]
  <2>1. r = IF m.ok THEN [d EXCEPT !.state = "Discovered", !.serviceList = listed]
            ELSE [d EXCEPT !.state = "Connected"]
    BY <1>2 DEF Slot, ServicesDiscovered
  <2>2. /\ listed \in [LeServices -> ServiceStates]
        /\ \A s \in LeServices : listed[s] # "none" => InTree(s)
    BY DEF InTree, ServiceStates
  <2> HIDE DEF listed
  <2>3. /\ DOMAIN r = fields /\ r.state \in {"Discovered", "Connected"}
        /\ r.serviceList = d.serviceList \/ r.serviceList = listed
        /\ r.calls = d.calls /\ r.said = d.said /\ r.session = d.session
        /\ r.scenario = d.scenario
    BY <1>1, <2>1
  <2> HIDE DEF r
  <2>4. r.state \in AgUp /\ r.state \in ControllerStates
    BY <2>3 DEF AgUp, ControllerStates
  <2> QED
    BY <1>2, <2>2, <2>3, <2>4 DEF AgControl, r
<1>3. CASE m.signal = "detailsFinished"
  <2>1. m.service \in LeServices
    BY <1>3 DEF AgSignals
  <2>2. \/ r = d
        \/ /\ d.serviceList[m.service] # "none"
           /\ r = [d EXCEPT !.serviceList = [@ EXCEPT ![m.service] = "Discovered"]]
    BY <1>3 DEF Slot, ServiceDetailsDiscoveryFinished
  <2>3. CASE r = d
    BY <1>3, <2>3
  <2>4. CASE /\ d.serviceList[m.service] # "none"
             /\ r = [d EXCEPT !.serviceList = [@ EXCEPT ![m.service] = "Discovered"]]
    <3>1. /\ DOMAIN r = fields /\ r.state = d.state
          /\ r.serviceList = [d.serviceList EXCEPT ![m.service] = "Discovered"]
          /\ r.calls = d.calls /\ r.said = d.said /\ r.session = d.session
          /\ r.scenario = d.scenario
      BY <1>1, <2>4
    <3> HIDE DEF r
    <3>2. InTree(m.service) /\ d.state \in AgUp
      BY <2>1, <2>4 DEF AgControl, NoServices
    <3>3. /\ r.serviceList \in [LeServices -> ServiceStates]
          /\ \A s \in LeServices : r.serviceList[s] # "none" => InTree(s)
      BY <1>1, <2>1, <3>1, <3>2 DEF AgControl, ServiceStates
    <3>4. AgControl(r)
      BY <3>1, <3>2, <3>3 DEF AgControl
    <3> QED
      BY <3>1, <3>4 DEF r
  <2> QED
    BY <2>2, <2>3, <2>4
<1>4. CASE m.signal \in {"read", "written", "error"}
  <2>1. PICK result \in {"ok", "error"} :
          \/ r = d \/ r = [d EXCEPT !.crashed = TRUE]
          \/ r = [d EXCEPT !.calls = Answered(@, m.op, result)]
    <3>1. CASE m.signal = "read"
      <4>1. r = d \/ r = [d EXCEPT !.calls = Answered(@, m.op, "ok")]
        BY <3>1 DEF Slot, Accessed
      <4> QED
        BY <4>1
    <3>2. CASE m.signal = "written"
      <4>1. \/ r = d \/ r = [d EXCEPT !.calls = Answered(@, m.op, "ok")]
            \/ r = [d EXCEPT !.calls = Answered(@, m.op, "error")]
        BY <3>2 DEF Slot, Accessed
      <4> QED
        BY <4>1
    <3>3. CASE m.signal = "error"
      <4>1. r = [d EXCEPT !.crashed = TRUE] \/ r = [d EXCEPT !.calls = Answered(@, m.op, "error")]
        BY <3>3 DEF Slot, ServiceError
      <4> QED
        BY <4>1
    <3> QED
      BY <1>4, <3>1, <3>2, <3>3
  <2>2. /\ DOMAIN r = fields /\ r.state = d.state /\ r.serviceList = d.serviceList
        /\ r.calls = d.calls \/ r.calls = Answered(d.calls, m.op, result)
        /\ r.said = d.said /\ r.session = d.session /\ r.scenario = d.scenario
    BY <1>1, <2>1
  <2> HIDE DEF r
  <2>3. r.calls \in AgCalls /\ Len(r.calls) = Len(d.calls)
    <3>1. result \in LeResults \cup {"lost"}
      BY DEF LeResults
    <3> QED
      BY <1>1, <2>2, <3>1, AgCallsParts
  <2>4. AgControl(r)
    BY <2>2, <2>3 DEF AgControl, AgCalls
  <2> QED
    BY <1>4, <2>2, <2>4 DEF r
<1>5. m.signal \in {"servicesDiscovered", "detailsFinished", "read", "written", "error"}
  BY DEF AgSignals
<1> QED
  BY <1>2, <1>3, <1>4, <1>5

LEMMA AgSlotInv ==
  ASSUME AgGood(gatt, andr), AndroidSlot
  PROVE  AgGood(gatt', andr') /\ AgOwn(gatt, gatt')
<1> DEFINE m == gatt.toQt[1]
<1>1. /\ AgShape(gatt) /\ AgPending(gatt) /\ AgQueue(gatt) /\ AgControl(andr)
      /\ AgReports(gatt, andr.state) /\ (andr.state \notin AgUp => AgIdle(gatt))
      /\ gatt.toQt # <<>> /\ gatt' = [gatt EXCEPT !.toQt = Tail(@)]
  BY DEF AgGood, AndroidSlot
<1>2. /\ AgShape(gatt') /\ AgPending(gatt') /\ AgQueue(gatt') /\ (AgIdle(gatt) => AgIdle(gatt'))
      /\ AgOwn(gatt, gatt') /\ Head(gatt.toQt) = m /\ m \in AgSignals
      /\ Len(gatt.toQt) \in Nat /\ Len(gatt'.toQt) = Len(gatt.toQt) - 1
  BY <1>1, AgSignalTaken
<1>3. 1 \in 1..Len(gatt.toQt)
  BY <1>1, <1>2 DEF AgShape
<1>4. andr' = Slot(andr, m)
  BY <1>2 DEF AndroidSlot
<1>5. DOMAIN andr = {"state", "serviceList", "calls", "said", "session", "crashed", "scenario"}
  BY <1>1 DEF AgControl
<1>6. CASE m.signal # "connection"
  <2>1. m.signal = "servicesDiscovered" => andr.state \in AgUp
    BY <1>1, <1>3 DEF AgIdle
  <2>2. /\ AgControl(andr')
        /\ m.signal # "servicesDiscovered" => andr'.state = andr.state
        /\ andr.state \in AgUp <=> andr'.state \in AgUp
    BY <1>1, <1>2, <1>4, <1>6, <2>1, AgSlotParts
  <2>3. AgReports(gatt', andr.state)
    BY <1>1, <1>6, AgSignalOther DEF Signalled
  <2>4. AgReports(gatt', andr'.state)
    BY <2>1, <2>2, <2>3, AgStill
  <2> QED
    BY <1>1, <1>2, <2>2, <2>4 DEF AgGood
<1>7. CASE m.signal = "connection" /\ m.up
  <2>1. Signalled(gatt, 1)
    BY <1>3, <1>7 DEF Signalled
  <2>2. /\ andr.state = "Connecting"
        /\ AgReports(gatt', IF m.ok THEN "Connected" ELSE "Unconnected")
    BY <1>1, <1>7, <2>1, AgUpTold
  <2>3. m.ok \in BOOLEAN
    BY <1>2, <1>7 DEF AgSignals
  <2>4. andr' = CentralConnectionUpdated(andr, m.up, m.ok)
    BY <1>4, <1>7 DEF Slot
  <2>5. andr' = [andr EXCEPT !.state = IF m.ok THEN "Connected" ELSE "Unconnected",
                             !.said = IF m.ok THEN "connected" ELSE @]
    BY <1>7, <2>2, <2>3, <2>4 DEF CentralConnectionUpdated
  <2>6. /\ DOMAIN andr' = DOMAIN andr /\ andr'.session = andr.session
        /\ andr'.state = IF m.ok THEN "Connected" ELSE "Unconnected"
        /\ andr'.serviceList = andr.serviceList /\ andr'.calls = andr.calls
        /\ andr'.said = IF m.ok THEN "connected" ELSE andr.said
        /\ andr'.scenario = andr.scenario
    BY <1>5, <2>5
  <2>7. AgControl(andr')
    <3>1. andr.said = "disconnected" /\ andr.serviceList = NoServices
      BY <1>1, <2>2 DEF AgControl, AgUp
    <3> HIDE DEF m
    <3> QED
      BY <1>1, <2>6, <3>1 DEF AgControl, AgUp, ControllerStates
  <2>8. AgIdle(gatt')
    BY <1>1, <1>2, <2>2 DEF AgUp
  <2> QED
    BY <1>2, <2>2, <2>6, <2>7, <2>8 DEF AgGood
<1>8. CASE m.signal = "connection" /\ ~m.up
  <2>1. Signalled(gatt, 1)
    BY <1>3, <1>8 DEF Signalled
  <2>2. AgReports(gatt', "Unconnected") /\ AgIdle(gatt')
    BY <1>1, <1>8, <2>1, AgDownTold
  <2>3. andr' = CentralConnectionUpdated(andr, m.up, m.ok)
    BY <1>4, <1>8 DEF Slot
  <2>4. \/ /\ andr.state \in AgUp
           /\ andr' = [andr EXCEPT !.state = "Unconnected", !.serviceList = NoServices,
                                   !.calls = Dropped(@, DOMAIN @), !.said = "disconnected"]
        \/ /\ andr.state \notin AgUp
           /\ andr' = [andr EXCEPT !.state = "Unconnected", !.said = @]
    BY <1>1, <1>8, <2>3 DEF CentralConnectionUpdated, AgControl, AgUp, ControllerStates
  <2>5. CASE /\ andr.state \in AgUp
             /\ andr' = [andr EXCEPT !.state = "Unconnected", !.serviceList = NoServices,
                                     !.calls = Dropped(@, DOMAIN @), !.said = "disconnected"]
    <3>1. /\ DOMAIN andr' = DOMAIN andr /\ andr'.session = andr.session
          /\ andr'.state = "Unconnected" /\ andr'.serviceList = NoServices
          /\ andr'.calls = Dropped(andr.calls, DOMAIN andr.calls)
          /\ andr'.said = "disconnected" /\ andr'.scenario = andr.scenario
      BY <1>5, <2>5
    <3>2. andr'.calls \in AgCalls /\ Len(andr'.calls) = Len(andr.calls)
      BY <1>1, <3>1, AgCallsParts DEF AgControl, AgCalls
    <3>3. NoServices \in [LeServices -> ServiceStates] /\ \A s \in LeServices : NoServices[s] = "none"
      BY DEF NoServices, ServiceStates
    <3>4. AgControl(andr')
      BY <1>1, <3>1, <3>2, <3>3 DEF AgControl, AgCalls, AgUp, ControllerStates
    <3> QED
      BY <1>2, <2>2, <3>1, <3>4 DEF AgGood
  <2>6. CASE /\ andr.state \notin AgUp
             /\ andr' = [andr EXCEPT !.state = "Unconnected", !.said = @]
    <3>1. /\ DOMAIN andr' = DOMAIN andr /\ andr'.session = andr.session
          /\ andr'.state = "Unconnected" /\ andr'.serviceList = andr.serviceList
          /\ andr'.calls = andr.calls /\ andr'.said = andr.said
          /\ andr'.scenario = andr.scenario
      BY <1>5, <2>6
    <3>2. AgControl(andr')
      BY <1>1, <2>6, <3>1 DEF AgControl, AgUp, ControllerStates
    <3> QED
      BY <1>2, <2>2, <3>1, <3>2 DEF AgGood
  <2> QED
    BY <2>4, <2>5, <2>6
<1>9. m.signal = "connection" => m.up \in BOOLEAN
  BY <1>2 DEF AgSignals
<1> QED
  BY <1>6, <1>7, <1>8, <1>9

-----------------------------------------------------------------------------
(* The thread of mHandler *)

\* The first message is taken from its queue.
LEMMA AgMessageTaken ==
  ASSUME NEW g, AgShape(g), AgPending(g), AgQueue(g), g.handler # <<>>,
         NEW r, r = [g EXCEPT !.handler = Tail(@)]
  PROVE  /\ AgShape(r) /\ AgPending(r) /\ AgQueue(r) /\ (AgIdle(g) => AgIdle(r)) /\ AgRecord(r)
         /\ r.conns = g.conns /\ r.toQt = g.toQt /\ r.mBluetoothGatt = g.mBluetoothGatt
         /\ r.pendingJob = g.pendingJob /\ r.handleForTimeout = g.handleForTimeout
         /\ r.entries = g.entries
         /\ Head(g.handler) = g.handler[1] /\ g.handler[1] \in AgTasks
         /\ g.handler[1].of # 0 => g.handler[1].of = g.mBluetoothGatt
         /\ g.handler[1].task = "answer" => g.entries
         /\ AgIdle(g) /\ g.handler[1].of # 0 => g.handler[1].task = "connection"
         /\ \A i \in Nat : Reported(r, i) <=> i + 1 # 1 /\ Reported(g, i + 1)
         /\ \A i \in 1..Len(r.handler) :
              i + 1 \in 1..Len(g.handler) /\ r.handler[i] = g.handler[i + 1]
<1>1. DOMAIN g = AgFields /\ g.handler \in Seq(AgTasks)
  BY DEF AgShape
<1>2. /\ DOMAIN r = AgFields /\ r.handler = Tail(g.handler) /\ r.mBluetoothGatt = g.mBluetoothGatt
      /\ r.entries = g.entries /\ r.readWriteQueue = g.readWriteQueue
      /\ r.pendingJob = g.pendingJob /\ r.handleForTimeout = g.handleForTimeout
      /\ r.toQt = g.toQt /\ r.conns = g.conns /\ r.busy = g.busy
      /\ r.discovering = g.discovering /\ r.bond = g.bond /\ r.valueKnown = g.valueKnown
      /\ r.servicesToBeDiscovered = g.servicesToBeDiscovered
  BY <1>1 DEF AgFields
<1>3. /\ Tail(g.handler) \in Seq(AgTasks) /\ Head(g.handler) = g.handler[1]
      /\ Head(g.handler) \in AgTasks
      /\ Len(g.handler) \in Nat /\ Len(g.handler) >= 1 /\ Len(Tail(g.handler)) = Len(g.handler) - 1
      /\ \A i \in 1..Len(g.handler) - 1 : Tail(g.handler)[i] = g.handler[i + 1]
  BY <1>1, TailParts
<1>4. AgRecord(r)
  BY <1>1 DEF AgRecord
<1>5. \A i \in 1..Len(r.handler) : i + 1 \in 1..Len(g.handler) /\ r.handler[i] = g.handler[i + 1]
  BY <1>2, <1>3
<1>6. \A i \in Nat : (i \in 1..Len(r.handler)) <=> (i + 1 # 1 /\ i + 1 \in 1..Len(g.handler))
  BY <1>2, <1>3
<1>7. \A i \in Nat : Reported(r, i) <=> i + 1 # 1 /\ Reported(g, i + 1)
  BY <1>5, <1>6 DEF Reported
<1>8. AgShape(r) /\ AgPending(r)
  BY <1>2, <1>3 DEF AgShape, AgPending
<1>9. AgQueue(r)
  BY <1>2, <1>5 DEF AgQueue
<1>10. AgIdle(g) => AgIdle(r)
  BY <1>2, <1>5 DEF AgIdle
<1>11. 1 \in 1..Len(g.handler)
  BY <1>3
<1>12. /\ g.handler[1].of # 0 => g.handler[1].of = g.mBluetoothGatt
       /\ g.handler[1].task = "answer" => g.entries
       /\ AgIdle(g) /\ g.handler[1].of # 0 => g.handler[1].task = "connection"
  BY <1>11 DEF AgQueue, AgIdle
<1> QED
  BY <1>2, <1>3, <1>4, <1>5, <1>7, <1>8, <1>9, <1>10, <1>12

\* It is not a report on the connection.
LEMMA AgMessageOther ==
  ASSUME NEW g, NEW state, AgShape(g), AgPending(g), AgQueue(g), AgReports(g, state),
         g.handler # <<>>, ~Reported(g, 1), NEW r, r = [g EXCEPT !.handler = Tail(@)]
  PROVE  AgReports(r, state)
<1>1. /\ r.conns = g.conns /\ r.toQt = g.toQt /\ r.mBluetoothGatt = g.mBluetoothGatt
      /\ \A i \in Nat : Reported(r, i) <=> i + 1 # 1 /\ Reported(g, i + 1)
      /\ \A i \in 1..Len(r.handler) : i + 1 \in 1..Len(g.handler) /\ r.handler[i] = g.handler[i + 1]
  BY AgMessageTaken
<1>2. /\ \A k : Live(r, k) <=> Live(g, k)
      /\ \A i : Signalled(r, i) <=> Signalled(g, i)
  BY <1>1 DEF Live, Signalled
<1>3. \A i \in Nat : Reported(r, i) =>
        i + 1 \in Nat /\ Reported(g, i + 1) /\ r.handler[i] = g.handler[i + 1]
  BY <1>1 DEF Reported
<1>4. AgLives(r, state) /\ AgSilent(r, state)
  BY <1>1, <1>2, <1>3 DEF AgReports, AgLives, AgSilent
<1>5. AgUpSignalled(r, state) /\ AgDownSignalled(r)
  <2>1. AgUpSignalled(r, state)
    BY <1>1, <1>2, <1>3 DEF AgReports, AgUpSignalled
  <2>2. AgDownSignalled(r)
    BY <1>1, <1>2 DEF AgReports, AgDownSignalled
  <2> QED
    BY <2>1, <2>2
<1>6. AgUpReported(r, state)
  <2> SUFFICES ASSUME NEW i \in Nat, Reported(r, i), r.handler[i].up
               PROVE  /\ state = "Connecting" /\ \A j \in Nat : ~Signalled(r, j)
                      /\ \A j \in Nat : Reported(r, j) /\ j # i =>
                           j > i /\ ~r.handler[j].up /\ r.handler[i].ok
                      /\ ~r.handler[i].ok => \A k \in AgSessions : ~Live(r, k)
    BY DEF AgUpReported
  <2>1. Reported(g, i + 1) /\ r.handler[i] = g.handler[i + 1] /\ i + 1 \in Nat
    BY <1>3
  <2>2. /\ state = "Connecting" /\ \A j \in Nat : ~Signalled(g, j)
        /\ \A j \in Nat : Reported(g, j) /\ j # i + 1 =>
             j > i + 1 /\ ~g.handler[j].up /\ g.handler[i + 1].ok
        /\ ~g.handler[i + 1].ok => \A k \in AgSessions : ~Live(g, k)
    BY <2>1 DEF AgReports, AgUpReported
  <2>3. ASSUME NEW j \in Nat, Reported(r, j), j # i
        PROVE  j > i /\ ~r.handler[j].up /\ r.handler[i].ok
    <3>1. Reported(g, j + 1) /\ r.handler[j] = g.handler[j + 1] /\ j + 1 \in Nat
      BY <1>3, <2>3
    <3>2. j + 1 # i + 1 /\ (j + 1 > i + 1 => j > i)
      BY <2>3
    <3> QED
      BY <2>1, <2>2, <3>1, <3>2
  <2> QED
    BY <1>2, <2>1, <2>2, <2>3
<1>7. AgDownReported(r)
  <2> SUFFICES ASSUME NEW i \in Nat, Reported(r, i), ~r.handler[i].up
               PROVE  /\ \A k \in AgSessions : ~Live(r, k)
                      /\ \A j \in Nat : Reported(r, j) /\ ~r.handler[j].up => j = i
    BY DEF AgDownReported
  <2>1. Reported(g, i + 1) /\ r.handler[i] = g.handler[i + 1] /\ i + 1 \in Nat
    BY <1>3
  <2>2. /\ \A k \in AgSessions : ~Live(g, k)
        /\ \A j \in Nat : Reported(g, j) /\ ~g.handler[j].up => j = i + 1
    BY <2>1 DEF AgReports, AgDownReported
  <2>3. ASSUME NEW j \in Nat, Reported(r, j), ~r.handler[j].up
        PROVE  j = i
    <3>1. Reported(g, j + 1) /\ r.handler[j] = g.handler[j + 1] /\ j + 1 \in Nat
      BY <1>3, <2>3
    <3>2. j + 1 = i + 1
      BY <2>2, <2>3, <3>1
    <3> QED
      BY <3>2
  <2> QED
    BY <1>2, <2>2, <2>3
<1> QED
  BY <1>4, <1>5, <1>6, <1>7 DEF AgReports

\* The pending job is over.
LEMMA AgUnlockGood ==
  ASSUME NEW r, NEW d, AgShape(r), AgQueue(r), AgControl(d), AgReports(r, d.state),
         d.state \in AgUp, r.mBluetoothGatt # 0,
         NEW x, AgQuiet(x, [r EXCEPT !.handleForTimeout = HandleForReset])
  PROVE  AgGood(Unlock(x), d)
<1> DEFINE y == [r EXCEPT !.handleForTimeout = HandleForReset]
           n == [x EXCEPT !.pendingJob = NoJob]
<1>1. /\ DOMAIN y = AgFields /\ y.handleForTimeout = HandleForReset
      /\ y.mBluetoothGatt = r.mBluetoothGatt /\ y.entries = r.entries
      /\ y.readWriteQueue = r.readWriteQueue /\ y.handler = r.handler /\ y.toQt = r.toQt
      /\ y.conns = r.conns /\ y.busy = r.busy /\ y.discovering = r.discovering /\ y.bond = r.bond
  <2>1. DOMAIN r = AgFields
    BY DEF AgShape
  <2> QED
    BY <2>1 DEF AgFields
<1> HIDE DEF y
<1>2. /\ DOMAIN n = AgFields /\ n.handleForTimeout = HandleForReset /\ n.pendingJob = NoJob
      /\ n.mBluetoothGatt = r.mBluetoothGatt /\ n.entries = r.entries
      /\ n.readWriteQueue = r.readWriteQueue /\ n.handler = r.handler
      /\ n.conns = r.conns /\ n.busy = r.busy /\ n.discovering = r.discovering /\ n.bond = r.bond
      /\ n.valueKnown \subseteq DOMAIN Entries
      /\ n.servicesToBeDiscovered \in Seq(DOMAIN Entries) /\ AgTold(n.toQt, r.toQt)
  <2>1. AgQuiet(x, y)
    BY DEF y
  <2> QED
    BY <1>1, <2>1 DEF AgQuiet, AgFields
<1>3. AgRecord(n)
  BY <1>2 DEF AgRecord
<1>4. Unlock(x) = PerformNextIO(n)
  BY DEF Unlock
<1> HIDE DEF n
<1>5. AgShape(n)
  <2>1. n.toQt \in Seq(AgSignals)
    BY <1>2 DEF AgTold
  <2> QED
    BY <1>2, <2>1 DEF AgShape
<1>6. AgQueue(n)
  BY <1>2 DEF AgQueue
<1>7. AgReports(n, d.state)
  <2>1. r.handler \in Seq(AgTasks)
    BY DEF AgShape
  <2> QED
    BY <1>2, <2>1, AgPostedSelf, AgReportsSame
<1>8. AgOpen(n, d)
  BY <1>2, <1>3, <1>5, <1>6, <1>7 DEF AgOpen
<1> QED
  BY <1>4, <1>8, AgPerformGood

\* What is left when the first message, no report on the connection, has been taken.
LEMMA AgTakenGood ==
  ASSUME NEW g, NEW d, AgGood(g, d), g.handler # <<>>, g.handler[1].task # "connection",
         NEW h, h = [g EXCEPT !.handler = Tail(@)]
  PROVE  /\ AgGood(h, d) /\ AgOpen(h, d)
         /\ g.handler[1].of # 0 => d.state \in AgUp /\ h.mBluetoothGatt # 0
<1>1. /\ AgShape(g) /\ AgPending(g) /\ AgQueue(g) /\ AgControl(d) /\ AgReports(g, d.state)
      /\ d.state \notin AgUp => AgIdle(g)
  BY DEF AgGood
<1>2. /\ AgShape(h) /\ AgPending(h) /\ AgQueue(h) /\ (AgIdle(g) => AgIdle(h)) /\ AgRecord(h)
      /\ h.mBluetoothGatt = g.mBluetoothGatt
      /\ g.handler[1].of # 0 => g.handler[1].of = g.mBluetoothGatt
      /\ (AgIdle(g) /\ g.handler[1].of # 0 => g.handler[1].task = "connection")
  BY <1>1, AgMessageTaken
<1>3. ~Reported(g, 1)
  BY DEF Reported
<1>4. AgReports(h, d.state)
  BY <1>1, <1>3, AgMessageOther
<1> QED
  BY <1>1, <1>2, <1>4 DEF AgGood, AgOpen

\* onServicesDiscovered()
LEMMA AgServicesGood ==
  ASSUME NEW h, NEW d, AgGood(h, d), d.state \in AgUp, h.mBluetoothGatt # 0,
         NEW ok \in BOOLEAN
  PROVE  AgGood(OnServicesDiscovered(h, ok), d)
<1> DEFINE m == [signal |-> "servicesDiscovered", ok |-> ok]
           x == Native(h, m)
           job == Job("Mtu", 0, 0)
           y == [x EXCEPT !.readWriteQueue = Append(@, job)]
<1>1. /\ AgShape(h) /\ AgPending(h) /\ AgQueue(h) /\ AgControl(d) /\ AgReports(h, d.state)
      /\ DOMAIN h = AgFields
  BY DEF AgGood, AgShape
<1>2. OnServicesDiscovered(h, ok) = PerformNextIO(y)
  BY DEF OnServicesDiscovered, ScheduleMtuExchange
<1>3. m \in AgSignals /\ m.signal = "servicesDiscovered"
  BY DEF AgSignals
<1>4. job \in AgWork /\ job.type = "Mtu"
  BY EntriesParts, LeAssumption DEF AgWork, AgJobs, Job
<1> HIDE DEF m, job
<1>5. DOMAIN x = AgFields /\ x = [h EXCEPT !.toQt = Append(h.toQt, m)]
  BY <1>1 DEF Native, AgFields
<1>6. /\ DOMAIN y = AgFields /\ y.readWriteQueue = Append(h.readWriteQueue, job)
      /\ y.mBluetoothGatt = h.mBluetoothGatt /\ y.entries = h.entries
      /\ y.valueKnown = h.valueKnown /\ y.pendingJob = h.pendingJob
      /\ y.servicesToBeDiscovered = h.servicesToBeDiscovered
      /\ y.handleForTimeout = h.handleForTimeout /\ y.handler = h.handler
      /\ y.toQt = Append(h.toQt, m) /\ y.conns = h.conns /\ y.busy = h.busy
      /\ y.discovering = h.discovering /\ y.bond = h.bond
  <2> HIDE DEF x
  <2> QED
    BY <1>1, <1>5 DEF AgFields
<1> HIDE DEF x
<1>7. AgRecord(y)
  BY <1>5 DEF AgRecord
<1> HIDE DEF y
<1>8. /\ y.toQt \in Seq(AgSignals) /\ y.readWriteQueue \in Seq(AgWork)
      /\ Len(y.toQt) = Len(h.toQt) + 1 /\ y.toQt[Len(h.toQt) + 1] = m /\ Len(h.toQt) \in Nat
      /\ \A i \in 1..Len(h.toQt) : y.toQt[i] = h.toQt[i]
      /\ Len(y.readWriteQueue) = Len(h.readWriteQueue) + 1 /\ Len(h.readWriteQueue) \in Nat
      /\ y.readWriteQueue[Len(h.readWriteQueue) + 1] = job
      /\ \A i \in 1..Len(h.readWriteQueue) : y.readWriteQueue[i] = h.readWriteQueue[i]
  BY <1>1, <1>3, <1>4, <1>6, AppendParts DEF AgShape
<1>9. AgShape(y) /\ AgPending(y)
  BY <1>1, <1>6, <1>8 DEF AgShape, AgPending
<1>10. AgQueue(y)
  <2>1. \A i \in 1..Len(y.readWriteQueue) : y.readWriteQueue[i].type # "Mtu" => y.entries
    <3>1. \A i \in 1..Len(y.readWriteQueue) :
            i \in 1..Len(h.readWriteQueue) \/ y.readWriteQueue[i] = job
      BY <1>8
    <3> QED
      BY <1>1, <1>4, <1>6, <1>8, <3>1 DEF AgQueue
  <2> QED
    BY <1>1, <1>6, <2>1 DEF AgQueue
<1>11. AgReports(y, d.state)
  <2>1. d.state \notin {"Connecting", "Unconnected"}
    BY DEF AgUp
  <2>2. \A k \in AgSessions : h.conns[k] # "connecting"
    BY <1>1, <2>1 DEF AgReports, AgLives
  <2>3. (\A k : Live(y, k) <=> Live(h, k)) /\ (\A i : Reported(y, i) <=> Reported(h, i))
    BY <1>6 DEF Live, Reported
  <2>4. AgLives(y, d.state) /\ AgSilent(y, d.state) /\ AgDownReported(y)
    BY <1>1, <1>6, <2>1, <2>2, <2>3 DEF AgReports, AgLives, AgSilent, AgDownReported
  <2>5. AgUpReported(y, d.state) /\ AgUpSignalled(y, d.state)
    <3>1. \A i \in Nat : ~(Reported(h, i) /\ h.handler[i].up)
      BY <1>1, <2>1 DEF AgReports, AgUpReported
    <3>2. \A i \in Nat : ~(Signalled(h, i) /\ h.toQt[i].up)
      BY <1>1, <2>1 DEF AgReports, AgUpSignalled
    <3>3. \A i \in Nat : Signalled(y, i) => Signalled(h, i) /\ y.toQt[i] = h.toQt[i]
      BY <1>3, <1>8 DEF Signalled
    <3> QED
      BY <1>6, <2>3, <3>1, <3>2, <3>3 DEF AgUpReported, AgUpSignalled
  <2>6. AgDownSignalled(y)
    <3>1. \A i \in Nat : Signalled(y, i) => Signalled(h, i) /\ y.toQt[i] = h.toQt[i]
      BY <1>3, <1>8 DEF Signalled
    <3> QED
      BY <1>1, <3>1 DEF AgReports, AgDownSignalled
  <2> QED
    BY <2>4, <2>5, <2>6 DEF AgReports
<1>12. AgOpen(y, d)
  BY <1>1, <1>7, <1>9, <1>10, <1>11 DEF AgOpen
<1> QED
  BY <1>2, <1>12, AgPerformGood

\* onMtuChanged()
LEMMA AgMtuGood ==
  ASSUME NEW h, NEW d, AgGood(h, d), d.state \in AgUp, h.mBluetoothGatt # 0
  PROVE  AgGood(OnMtuChanged(h), d)
<1> DEFINE x == [h EXCEPT !.handleForTimeout = HandleForReset]
<1>1. AgShape(h) /\ AgQueue(h) /\ AgControl(d) /\ AgReports(h, d.state)
  BY DEF AgGood
<1>2. AgShape(x)
  BY <1>1 DEF AgShape, AgFields
<1>3. AgQuiet(x, x)
  BY <1>2, AgQuietSelf
<1>4. AgGood(Unlock(x), d)
  BY <1>1, <1>3, AgUnlockGood
<1> QED
  BY <1>4 DEF OnMtuChanged

\* onCharacteristicRead(), onDescriptorRead(), onCharacteristicWrite(), onDescriptorWrite()
LEMMA AgAnsweredGood ==
  ASSUME NEW h, NEW d, AgGood(h, d), d.state \in AgUp, h.mBluetoothGatt # 0, h.entries,
         NEW m, m.job \in AgRequests, m.ok \in BOOLEAN,
         NEW r, r = IF m.job.type = "Read" THEN OnRead(h, m) ELSE OnWrite(h, m)
  PROVE  /\ AgGood(r, d)
         /\ h.pendingJob # NoJob /\ r.pendingJob # h.pendingJob =>
              m.job.type = h.pendingJob.type /\ m.job.handle = h.pendingJob.handle
<1>1. /\ AgShape(h) /\ AgPending(h) /\ AgQueue(h) /\ AgControl(d) /\ AgReports(h, d.state)
      /\ DOMAIN h = AgFields
  BY DEF AgGood, AgShape
<1>2. CASE TooLate(h, m)
  <2>1. r = h
    BY <1>2 DEF OnRead, OnWrite
  <2> QED
    BY <2>1
<1>3. CASE ~TooLate(h, m)
  <2> DEFINE e == m.job.handle
             op == h.pendingJob.op
             y == [h EXCEPT !.handleForTimeout = HandleForReset]
  <2>1. e \in DOMAIN Entries /\ m.job.type \in {"Read", "Write"}
    BY DEF AgRequests, AgWork
  <2>2. h.handleForTimeout = ModifiedHandle(e, m.job.type)
    BY <1>3 DEF TooLate
  <2>3. h.handleForTimeout # HandleForReset
    BY <2>1, <2>2 DEF ModifiedHandle, HandleForReset
  <2>4. /\ h.pendingJob # NoJob
        /\ h.handleForTimeout = ModifiedHandle(h.pendingJob.handle, h.pendingJob.type)
    BY <1>1, <2>3 DEF AgPending
  <2>5. m.job.type = h.pendingJob.type /\ m.job.handle = h.pendingJob.handle
    BY <2>2, <2>4 DEF ModifiedHandle
  <2>6. op \in 0..LeMaxCalls
    BY <1>1, <2>4 DEF AgShape, AgWork, AgJobs
  <2>7. /\ ReadSignal(e, op) \in AgSignals /\ ReadSignal(e, op).signal = "read"
        /\ ErrorSignal(e, op) \in AgSignals /\ ErrorSignal(e, op).signal = "error"
    BY <2>1, <2>6, AgSaid DEF ReadSignal, ErrorSignal
  <2>8. AgShape(y) /\ y.valueKnown = h.valueKnown
    BY <1>1 DEF AgShape, AgFields
  <2>9. CASE m.job.type = "Read"
    <3> DEFINE known == [y EXCEPT !.valueKnown = h.valueKnown \cup {e}]
               discovery == e \notin h.valueKnown
               said == IF m.ok \/ discovery THEN ReadSignal(e, op) ELSE ErrorSignal(e, op)
               told == Native(known, said)
               x == IF discovery THEN EntryDone(told, e) ELSE told
    <3>1. known = [h EXCEPT !.handleForTimeout = HandleForReset, !.valueKnown = @ \cup {e}]
      BY <1>1 DEF AgFields
    <3>2. r = Unlock(x)
      BY <1>3, <2>9, <3>1 DEF OnRead
    <3>3. AgQuiet(known, y)
      <4>1. h.valueKnown \cup {e} \subseteq DOMAIN Entries
        BY <1>1, <2>1 DEF AgShape
      <4>2. y.servicesToBeDiscovered \in Seq(DOMAIN Entries)
        BY <2>8 DEF AgShape
      <4> HIDE DEF y
      <4> QED
        BY <2>8, <4>1, <4>2, AgKnown
    <3> HIDE DEF known, y
    <3>4. AgShape(known)
      BY <2>8, <3>3, AgQuietShape
    <3>5. said \in AgSignals /\ said.signal \notin {"connection", "servicesDiscovered"}
      BY <2>7
    <3> HIDE DEF said
    <3>6. AgQuiet(told, known)
      BY <3>4, <3>5, AgNative
    <3> HIDE DEF told
    <3>7. AgShape(told)
      BY <3>4, <3>6, AgQuietShape
    <3>8. AgQuiet(x, told)
      BY <2>1, <3>7, AgEntryDone, AgQuietSelf
    <3> HIDE DEF x
    <3>9. AgQuiet(x, y)
      <4>1. AgQuiet(told, y)
        BY <3>3, <3>6, AgQuietOn
      <4> QED
        BY <3>8, <4>1, AgQuietOn
    <3>10. AgGood(Unlock(x), d)
      BY <1>1, <3>9, AgUnlockGood DEF y
    <3> QED
      BY <2>5, <3>2, <3>10
  <2>10. CASE m.job.type # "Read"
    <3> DEFINE said == [signal |-> "written", handle |-> e, op |-> op, ok |-> m.ok]
               x == Native(y, said)
    <3>1. r = Unlock(x)
      BY <1>3, <2>10 DEF OnWrite
    <3>2. said \in AgSignals /\ said.signal = "written"
      BY <2>1, <2>6, AgSaid
    <3> HIDE DEF said, y
    <3>3. AgQuiet(x, y)
      BY <2>8, <3>2, AgNative
    <3> HIDE DEF x
    <3>4. AgGood(Unlock(x), d)
      BY <1>1, <3>3, AgUnlockGood DEF y
    <3> QED
      BY <2>5, <3>1, <3>4
  <2> QED
    BY <2>9, <2>10
<1> QED
  BY <1>2, <1>3

\* onConnectionStateChange(): the attempt has ended, or seems to.
LEMMA AgUpGood ==
  ASSUME NEW g, NEW d, AgGood(g, d), g.handler # <<>>, Reported(g, 1), g.handler[1].up,
         g.handler[1].of # 0, NEW h, h = [g EXCEPT !.handler = Tail(@)],
         NEW ok, ok = g.handler[1].ok, ok \in BOOLEAN
  PROVE  AgGood(OnConnectionStateChange(h, TRUE, ok), d)
<1> DEFINE sig == [signal |-> "connection", up |-> TRUE, ok |-> ok]
           r == Native(h, sig)
           n == Len(g.toQt)
<1>1. /\ AgShape(g) /\ AgPending(g) /\ AgQueue(g) /\ AgControl(d) /\ AgReports(g, d.state)
      /\ d.state \notin AgUp => AgIdle(g)
  BY DEF AgGood
<1>2. OnConnectionStateChange(h, TRUE, ok) = r
  BY DEF OnConnectionStateChange
<1>3. /\ AgShape(h) /\ AgPending(h) /\ AgQueue(h) /\ (AgIdle(g) => AgIdle(h))
      /\ h.conns = g.conns /\ h.toQt = g.toQt /\ h.mBluetoothGatt = g.mBluetoothGatt
      /\ \A i \in Nat : Reported(h, i) <=> i + 1 # 1 /\ Reported(g, i + 1)
      /\ \A i \in 1..Len(h.handler) : i + 1 \in 1..Len(g.handler) /\ h.handler[i] = g.handler[i + 1]
  BY <1>1, AgMessageTaken
<1>4. sig \in AgSignals /\ sig.signal = "connection" /\ sig.up = TRUE /\ sig.ok = ok
  BY DEF AgSignals
<1> HIDE DEF sig
<1>5. /\ DOMAIN r = AgFields /\ r.toQt = Append(g.toQt, sig)
      /\ r.mBluetoothGatt = h.mBluetoothGatt /\ r.entries = h.entries
      /\ r.valueKnown = h.valueKnown /\ r.pendingJob = h.pendingJob
      /\ r.servicesToBeDiscovered = h.servicesToBeDiscovered
      /\ r.handleForTimeout = h.handleForTimeout /\ r.handler = h.handler
      /\ r.readWriteQueue = h.readWriteQueue /\ r.conns = h.conns /\ r.busy = h.busy
      /\ r.discovering = h.discovering /\ r.bond = h.bond
  <2>1. DOMAIN h = AgFields
    BY <1>3 DEF AgShape
  <2> QED
    BY <1>3, <2>1 DEF Native, AgFields
<1> HIDE DEF r
<1>6. /\ r.toQt \in Seq(AgSignals) /\ Len(r.toQt) = n + 1 /\ n \in Nat /\ r.toQt[n + 1] = sig
      /\ \A i \in 1..n : r.toQt[i] = g.toQt[i]
  BY <1>1, <1>4, <1>5, AppendParts DEF AgShape
<1>7. \A i \in 1..Len(r.toQt) : i \in 1..n \/ i = n + 1
  BY <1>6
<1>8. AgShape(r) /\ AgPending(r) /\ AgQueue(r)
  BY <1>3, <1>5, <1>6 DEF AgShape, AgPending, AgQueue
<1>9. AgIdle(g) => AgIdle(r)
  BY <1>3, <1>4, <1>5, <1>6, <1>7 DEF AgIdle
<1>10. /\ d.state = "Connecting" /\ \A j \in Nat : ~Signalled(g, j)
       /\ \A j \in Nat : Reported(g, j) /\ j # 1 => ~g.handler[j].up /\ ok
       /\ ~ok => \A k \in AgSessions : ~Live(g, k)
  <2>1. 1 \in Nat
    OBVIOUS
  <2> QED
    BY <1>1, <2>1 DEF AgReports, AgUpReported
<1>11. \A k : Live(r, k) <=> Live(g, k)
  BY <1>3, <1>5 DEF Live
<1>12. \A j \in Nat : Signalled(r, j) => j = n + 1
  BY <1>6, <1>7, <1>10 DEF Signalled
<1>13. \A j \in Nat : Reported(r, j) =>
         /\ j + 1 \in Nat /\ j + 1 # 1 /\ Reported(g, j + 1)
         /\ r.handler[j] = g.handler[j + 1] /\ ~r.handler[j].up /\ ok
  <2> TAKE j \in Nat
  <2> HAVE Reported(r, j)
  <2>1. Reported(h, j) /\ r.handler[j] = h.handler[j] /\ j \in 1..Len(h.handler)
    BY <1>5 DEF Reported
  <2>2. j + 1 \in Nat /\ j + 1 # 1 /\ Reported(g, j + 1) /\ r.handler[j] = g.handler[j + 1]
    <3>1. j + 1 # 1 /\ Reported(g, j + 1)
      BY <1>3, <2>1
    <3>2. h.handler[j] = g.handler[j + 1]
      BY <1>3, <2>1
    <3> QED
      BY <2>1, <3>1, <3>2
  <2> QED
    BY <1>10, <2>2
<1>14. AgReports(r, d.state)
  <2>1. AgLives(r, d.state)
    BY <1>1, <1>3, <1>5, <1>11 DEF AgReports, AgLives
  <2>2. \A k \in AgSessions : g.conns[k] # "connecting"
    <3>1. 1 \in Nat
      OBVIOUS
    <3> QED
      BY <1>1, <3>1 DEF AgReports, AgSilent
  <2>3. AgSilent(r, d.state)
    BY <1>3, <1>5, <1>10, <2>2 DEF AgSilent
  <2>4. AgUpReported(r, d.state)
    BY <1>13 DEF AgUpReported
  <2>5. AgUpSignalled(r, d.state)
    BY <1>4, <1>6, <1>10, <1>11, <1>12, <1>13 DEF AgUpSignalled
  <2>6. AgDownReported(r)
    <3> SUFFICES ASSUME NEW i \in Nat, Reported(r, i), ~r.handler[i].up
                 PROVE  /\ \A k \in AgSessions : ~Live(r, k)
                        /\ \A j \in Nat : Reported(r, j) /\ ~r.handler[j].up => j = i
      BY DEF AgDownReported
    <3>1. Reported(g, i + 1) /\ ~g.handler[i + 1].up /\ i + 1 \in Nat
      BY <1>13
    <3>2. /\ \A k \in AgSessions : ~Live(g, k)
          /\ \A j \in Nat : Reported(g, j) /\ ~g.handler[j].up => j = i + 1
      BY <1>1, <3>1 DEF AgReports, AgDownReported
    <3>3. ASSUME NEW j \in Nat, Reported(r, j)
          PROVE  j = i
      <4>1. j + 1 \in Nat /\ Reported(g, j + 1) /\ ~g.handler[j + 1].up
        BY <1>13, <3>3
      <4>2. j + 1 = i + 1
        BY <3>2, <4>1
      <4> QED
        BY <4>2
    <3> QED
      BY <1>11, <3>2, <3>3
  <2>7. AgDownSignalled(r)
    BY <1>4, <1>6, <1>12 DEF AgDownSignalled
  <2> QED
    BY <2>1, <2>3, <2>4, <2>5, <2>6, <2>7 DEF AgReports
<1> QED
  BY <1>1, <1>2, <1>8, <1>9, <1>14 DEF AgGood

\* onConnectionStateChange(): the connection, or the attempt, is over.
LEMMA AgDownGood ==
  ASSUME NEW g, NEW d, AgGood(g, d), g.handler # <<>>, Reported(g, 1), ~g.handler[1].up,
         g.handler[1].of # 0, NEW h, h = [g EXCEPT !.handler = Tail(@)], NEW ok \in BOOLEAN
  PROVE  AgGood(OnConnectionStateChange(h, FALSE, ok), d)
<1> DEFINE sig == [signal |-> "connection", up |-> FALSE, ok |-> ok]
           c == h.mBluetoothGatt
           I == {i \in DOMAIN h.handler : h.handler[i].of = 0 \/ h.handler[i].of # c}
           r == OnConnectionStateChange(h, FALSE, ok)
           n == Len(g.toQt)
<1>1. /\ AgShape(g) /\ AgPending(g) /\ AgQueue(g) /\ AgControl(d) /\ AgReports(g, d.state)
      /\ d.state \notin AgUp => AgIdle(g)
  BY DEF AgGood
<1>2. /\ AgShape(h) /\ AgQueue(h) /\ (AgIdle(g) => AgIdle(h)) /\ DOMAIN h = AgFields
      /\ h.conns = g.conns /\ h.toQt = g.toQt /\ h.mBluetoothGatt = g.mBluetoothGatt
      /\ g.handler[1].of # 0 => g.handler[1].of = g.mBluetoothGatt
  BY SMTT(30), <1>1, AgMessageTaken DEF AgShape
<1>3. c # 0 /\ g.mBluetoothGatt # 0
  BY <1>2
<1>4. sig \in AgSignals /\ sig.signal = "connection" /\ sig.up = FALSE
  BY DEF AgSignals
<1>5. /\ DOMAIN r = AgFields /\ r.toQt = Append(h.toQt, sig)
      /\ r.mBluetoothGatt = 0 /\ r.entries = FALSE /\ r.valueKnown = {}
      /\ r.servicesToBeDiscovered = <<>> /\ r.handleForTimeout = HandleForReset
      /\ r.readWriteQueue = <<>> /\ r.pendingJob = h.pendingJob
      /\ r.busy = NoJob /\ r.bond = "none" /\ r.discovering = FALSE
      /\ r.handler = Kept(h.handler, I)
      /\ r.conns = [i \in DOMAIN h.conns |-> IF i = c THEN "closed" ELSE h.conns[i]]
  <2>1. /\ DOMAIN ResetData(h) = AgFields /\ ResetData(h).toQt = h.toQt
        /\ ResetData(h).entries = FALSE /\ ResetData(h).valueKnown = {}
        /\ ResetData(h).servicesToBeDiscovered = <<>>
        /\ ResetData(h).handleForTimeout = HandleForReset
        /\ ResetData(h).readWriteQueue = <<>> /\ ResetData(h).pendingJob = h.pendingJob
        /\ ResetData(h).handler = h.handler /\ ResetData(h).conns = h.conns
    BY <1>2 DEF ResetData, AgFields
  <2> DEFINE x == [ResetData(h) EXCEPT
                     !.mBluetoothGatt = 0, !.busy = NoJob, !.bond = "none",
                     !.discovering = FALSE,
                     !.handler = Kept(@, {i \in DOMAIN @ : @[i].of = 0 \/ @[i].of # c}),
                     !.conns = [i \in DOMAIN @ |-> IF i = c THEN "closed" ELSE @[i]]]
  <2>2. r = Native(x, sig)
    BY DEF OnConnectionStateChange
  <2> HIDE DEF sig, r
  <2>3. /\ DOMAIN x = AgFields /\ x.toQt = h.toQt
        /\ x.mBluetoothGatt = 0 /\ x.entries = FALSE /\ x.valueKnown = {}
        /\ x.servicesToBeDiscovered = <<>> /\ x.handleForTimeout = HandleForReset
        /\ x.readWriteQueue = <<>> /\ x.pendingJob = h.pendingJob
        /\ x.busy = NoJob /\ x.bond = "none" /\ x.discovering = FALSE
        /\ x.handler = Kept(h.handler, I)
        /\ x.conns = [i \in DOMAIN h.conns |-> IF i = c THEN "closed" ELSE h.conns[i]]
    BY <2>1 DEF AgFields
  <2> HIDE DEF x, I, c
  <2> QED
    BY <2>2, <2>3 DEF Native, AgFields
<1> HIDE DEF sig, r
<1>6. /\ r.handler \in Seq(AgTasks)
      /\ \A k \in 1..Len(r.handler) : r.handler[k].of = 0
  <2>1. h.handler \in Seq(AgTasks) /\ \A i \in 1..Len(h.handler) :
          h.handler[i].of # 0 => h.handler[i].of = c
    BY <1>2 DEF AgShape, AgQueue
  <2> DEFINE q == h.handler
  <2>2. /\ Kept(q, I) \in Seq(AgTasks)
        /\ \A k \in 1..Len(Kept(q, I)) : \E i \in I \cap (1..Len(q)) : Kept(q, I)[k] = q[i]
    <3>1. q \in Seq(AgTasks)
      BY <2>1
    <3> HIDE DEF I, q
    <3> QED
      BY <3>1, KeptParts
  <2>3. \A i \in I \cap (1..Len(h.handler)) : h.handler[i].of = 0
    BY <2>1
  <2> HIDE DEF I
  <2> QED
    BY <1>5, <2>2, <2>3
<1>7. \A k \in 1..Len(r.handler) : r.handler[k].task = "io"
  <2>1. \A k \in 1..Len(r.handler) : r.handler[k] \in AgTasks
    BY <1>6
  <2>2. \A m \in AgTasks : m.of = 0 => m.task = "io"
    BY DEF AgTasks, AgSessions
  <2> QED
    BY <1>6, <2>1, <2>2
<1>8. /\ h.conns \in [AgSessions -> {"none", "connecting", "abandoned", "up", "closing",
                                     "down", "closed"}]
      /\ r.conns \in [AgSessions -> {"none", "connecting", "abandoned", "up", "closing",
                                     "down", "closed"}]
      /\ \A k \in AgSessions : r.conns[k] \in {"connecting", "up", "closing"} =>
           r.conns[k] = g.conns[k]
  <2>1. h.conns \in [AgSessions -> {"none", "connecting", "abandoned", "up", "closing",
                                    "down", "closed"}]
    BY <1>2 DEF AgShape
  <2> HIDE DEF c
  <2> QED
    BY <1>2, <1>5, <2>1
<1>9. \A k \in AgSessions : ~Live(g, k) /\ ~Live(r, k)
  <2>1. 1 \in Nat
    OBVIOUS
  <2>2. \A k \in AgSessions : ~Live(g, k)
    BY <1>1, <2>1 DEF AgReports, AgDownReported
  <2> QED
    BY <1>8, <2>2 DEF Live
<1>10. /\ r.toQt \in Seq(AgSignals) /\ Len(r.toQt) = n + 1 /\ n \in Nat /\ r.toQt[n + 1] = sig
       /\ \A i \in 1..n : r.toQt[i] = g.toQt[i]
  BY <1>1, <1>2, <1>4, <1>5, AppendParts DEF AgShape
<1>11. \A i \in 1..Len(r.toQt) : i \in 1..n \/ i = n + 1
  BY <1>10
<1>12. AgShape(r)
  <2>1. 0 \in 0..LeMaxSessions /\ <<>> \in Seq(AgWork) /\ <<>> \in Seq(DOMAIN Entries)
    BY LeAssumption
  <2>2. h.pendingJob \in AgWork \cup {NoJob}
    BY <1>2 DEF AgShape
  <2> HIDE DEF c, I, n
  <2> QED
    BY <1>5, <1>6, <1>8, <1>10, <2>1, <2>2 DEF AgShape
<1>13. AgPending(r) /\ AgQueue(r)
  <2>1. AgPending(r)
    BY <1>5 DEF AgPending
  <2>2. \A i \in 1..Len(r.handler) : r.handler[i].of = 0 /\ r.handler[i].task # "answer"
    BY <1>6, <1>7
  <2>3. \A i \in 1..Len(r.readWriteQueue) : FALSE
    BY <1>5
  <2>4. /\ r.mBluetoothGatt = 0 /\ r.entries = FALSE /\ r.discovering = FALSE
        /\ r.handleForTimeout = HandleForReset /\ r.readWriteQueue = <<>> /\ r.busy = NoJob
    BY <1>5
  <2> QED
    BY ONLY <2>1, <2>2, <2>3, <2>4 DEF AgQueue
<1>14. AgIdle(g) => AgIdle(r)
  <2>1. AgIdle(g) => \A i \in 1..Len(r.toQt) : r.toQt[i].signal # "servicesDiscovered"
    BY <1>4, <1>10, <1>11 DEF AgIdle
  <2> QED
    BY <1>5, <1>6, <2>1 DEF AgIdle
<1>15. \A i : ~Reported(r, i)
  BY <1>7 DEF Reported
<1>16. \A i \in Nat : Signalled(r, i) =>
         \/ Signalled(g, i) /\ r.toQt[i] = g.toQt[i] /\ i < n + 1
         \/ i = n + 1 /\ r.toQt[i] = sig
  BY <1>10, <1>11 DEF Signalled
<1>17. AgReports(r, d.state)
  <2>1. AgLives(r, d.state)
    BY <1>9 DEF AgLives, Live
  <2>2. d.state # "Unconnected"
    <3>1. 1 \in Nat
      OBVIOUS
    <3> QED
      BY <1>1, <3>1 DEF AgReports, AgSilent
  <2>3. AgSilent(r, d.state)
    BY <1>9, <2>2 DEF AgSilent, Live
  <2>4. AgUpReported(r, d.state) /\ AgDownReported(r)
    BY <1>15 DEF AgUpReported, AgDownReported
  <2>5. AgUpSignalled(r, d.state)
    <3> SUFFICES ASSUME NEW i \in Nat, Signalled(r, i), r.toQt[i].up
                 PROVE  /\ d.state = "Connecting"
                        /\ \A j \in Nat : Signalled(r, j) /\ j # i =>
                             j > i /\ ~r.toQt[j].up /\ r.toQt[i].ok
      BY <1>9, <1>15 DEF AgUpSignalled
    <3>1. Signalled(g, i) /\ r.toQt[i] = g.toQt[i] /\ i < n + 1
      BY <1>4, <1>16
    <3>2. /\ d.state = "Connecting"
          /\ \A j \in Nat : Signalled(g, j) /\ j # i => j > i /\ ~g.toQt[j].up /\ g.toQt[i].ok
          /\ \A j \in Nat : Reported(g, j) => ~g.handler[j].up /\ g.toQt[i].ok
      BY <1>1, <3>1 DEF AgReports, AgUpSignalled
    <3>3. g.toQt[i].ok
      <4>1. 1 \in Nat
        OBVIOUS
      <4> QED
        BY <3>2, <4>1
    <3> QED
      BY <1>4, <1>16, <3>1, <3>2, <3>3
  <2>6. AgDownSignalled(r)
    <3>1. \A i \in Nat : Signalled(g, i) => g.toQt[i].up
      BY <1>1, <1>3 DEF AgReports, AgDownSignalled
    <3>2. \A i \in Nat : Signalled(r, i) /\ ~r.toQt[i].up => i = n + 1
      BY <1>16, <3>1
    <3>3. \A j \in 1..Len(r.toQt) : ~(j > n + 1)
      BY <1>10
    <3> QED
      BY <1>5, <3>2, <3>3 DEF AgDownSignalled
  <2> QED
    BY <2>1, <2>3, <2>4, <2>5, <2>6 DEF AgReports
<1> QED
  BY <1>1, <1>12, <1>13, <1>14, <1>17 DEF AgGood, r

LEMMA AgHandlerInv ==
  ASSUME AgGood(gatt, andr), AndroidHandler
  PROVE  AgGood(gatt', andr') /\ AgOwn(gatt, gatt')
<1> DEFINE h == [gatt EXCEPT !.handler = Tail(@)]
           m == gatt.handler[1]
<1>1. gatt.handler # <<>> /\ andr' = andr
  BY DEF AndroidHandler
<1>2. /\ AgShape(gatt) /\ AgPending(gatt) /\ AgQueue(gatt)
      /\ DOMAIN gatt = AgFields /\ gatt.handler \in Seq(AgTasks)
  BY DEF AgGood, AgShape
<1>3. /\ h.pendingJob = gatt.pendingJob /\ h.entries = gatt.entries
      /\ h.mBluetoothGatt = gatt.mBluetoothGatt /\ Head(gatt.handler) = m /\ m \in AgTasks
      /\ m.of # 0 => m.of = gatt.mBluetoothGatt
      /\ m.task = "answer" => gatt.entries
  BY <1>1, <1>2, AgMessageTaken
<1>4. gatt' = Handle(h, m)
  BY <1>3 DEF AndroidHandler
<1>5. 1 \in Nat /\ 1 \in 1..Len(gatt.handler)
  BY <1>1, <1>2
<1>6. m.task # "connection" => /\ AgGood(h, andr) /\ AgOpen(h, andr)
                               /\ m.of # 0 => andr.state \in AgUp /\ h.mBluetoothGatt # 0
  BY <1>1, AgTakenGood
<1>7. m.task # "answer" => AgOwn(gatt, gatt')
  BY <1>3 DEF AgOwn
<1>8. \/ m.task = "io"
      \/ m.task = "mtuChanged" /\ m.of # 0
      \/ m.task = "services" /\ m.of # 0 /\ m.ok \in BOOLEAN
      \/ m.task = "connection" /\ m.of # 0 /\ m.up \in BOOLEAN /\ m.ok \in BOOLEAN
      \/ m.task = "answer" /\ m.of # 0 /\ m.job \in AgRequests /\ m.ok \in BOOLEAN
  BY <1>3 DEF AgTasks, AgSessions
<1> HIDE DEF m
<1>9. CASE m.task = "io"
  <2>1. gatt' = PerformNextIO(h)
    BY <1>4, <1>9 DEF Handle
  <2> HIDE DEF h
  <2> QED
    BY <1>1, <1>6, <1>7, <1>9, <2>1, AgPerformGood
<1>10. CASE m.task = "mtuChanged" /\ m.of # 0
  <2>1. gatt' = OnMtuChanged(h)
    BY <1>4, <1>10 DEF Handle
  <2> HIDE DEF h
  <2> QED
    BY <1>1, <1>6, <1>7, <1>10, <2>1, AgMtuGood
<1>11. CASE m.task = "services" /\ m.of # 0 /\ m.ok \in BOOLEAN
  <2>1. gatt' = OnServicesDiscovered(h, m.ok)
    BY <1>4, <1>11 DEF Handle
  <2> HIDE DEF h
  <2> QED
    BY <1>1, <1>6, <1>7, <1>11, <2>1, AgServicesGood
<1>12. CASE m.task = "connection" /\ m.of # 0 /\ m.up \in BOOLEAN /\ m.ok \in BOOLEAN
  <2>1. gatt' = OnConnectionStateChange(h, m.up, m.ok)
    BY <1>4, <1>12 DEF Handle
  <2>2. Reported(gatt, 1)
    BY <1>5, <1>12 DEF Reported, m
  <2>3. CASE m.up
    <3>1. gatt' = OnConnectionStateChange(h, TRUE, m.ok)
      BY <1>12, <2>1, <2>3
    <3>2. AgGood(OnConnectionStateChange(h, TRUE, m.ok), andr)
      BY <1>1, <1>12, <2>2, <2>3, AgUpGood DEF m
    <3> QED
      BY <1>1, <1>7, <1>12, <3>1, <3>2
  <2>4. CASE ~m.up
    <3>1. gatt' = OnConnectionStateChange(h, FALSE, m.ok)
      BY <1>12, <2>1, <2>4
    <3>2. AgGood(OnConnectionStateChange(h, FALSE, m.ok), andr)
      BY <1>1, <1>12, <2>2, <2>4, AgDownGood DEF m
    <3> QED
      BY <1>1, <1>7, <1>12, <3>1, <3>2
  <2> QED
    BY <1>12, <2>3, <2>4
<1>13. CASE m.task = "answer" /\ m.of # 0 /\ m.job \in AgRequests /\ m.ok \in BOOLEAN
  <2>1. gatt' = IF m.job.type = "Read" THEN OnRead(h, m) ELSE OnWrite(h, m)
    BY <1>4, <1>13 DEF Handle
  <2>2. h.entries /\ AgGood(h, andr) /\ andr.state \in AgUp /\ h.mBluetoothGatt # 0
    BY <1>3, <1>6, <1>13
  <2>3. /\ AgGood(gatt', andr)
        /\ h.pendingJob # NoJob /\ gatt'.pendingJob # h.pendingJob =>
             m.job.type = h.pendingJob.type /\ m.job.handle = h.pendingJob.handle
    <3> HIDE DEF h
    <3> QED
      BY <1>13, <2>1, <2>2, AgAnsweredGood
  <2>4. AgOwn(gatt, gatt')
    BY <1>3, <2>3 DEF AgOwn
  <2> QED
    BY <1>1, <2>3, <2>4
<1> QED
  BY <1>8, <1>9, <1>10, <1>11, <1>12, <1>13

-----------------------------------------------------------------------------
(* The watchdog, pairings and Android *)

\* The gate is closed: a job is pending, and of a controller that is connected.
LEMMA AgGateClosed ==
  ASSUME NEW g, NEW d, AgGood(g, d), g.handleForTimeout # HandleForReset
  PROVE  /\ g.pendingJob \in AgWork /\ g.mBluetoothGatt # 0 /\ d.state \in AgUp
         /\ g.handleForTimeout = ModifiedHandle(g.pendingJob.handle, g.pendingJob.type)
BY DEF AgGood, AgShape, AgPending, AgQueue, AgIdle

LEMMA AgTimeoutInv ==
  ASSUME AgGood(gatt, andr), AndroidTimeout
  PROVE  AgGood(gatt', andr') /\ AgOwn(gatt, gatt')
<1> DEFINE h == gatt.handleForTimeout.handle
           x == [gatt EXCEPT !.handleForTimeout = HandleForReset, !.pendingJob = NoJob]
           unlocked == Post(x, Io)
           known == [unlocked EXCEPT !.valueKnown = @ \cup {h}]
<1>1. /\ AgShape(gatt) /\ AgPending(gatt) /\ AgQueue(gatt) /\ AgControl(andr)
      /\ AgReports(gatt, andr.state) /\ DOMAIN gatt = AgFields
      /\ gatt.handleForTimeout # HandleForReset
  BY DEF AgGood, AndroidTimeout, AgShape
<1>2. /\ gatt.pendingJob \in AgWork /\ gatt.mBluetoothGatt # 0 /\ andr.state \in AgUp
      /\ gatt.handleForTimeout = ModifiedHandle(gatt.pendingJob.handle, gatt.pendingJob.type)
  BY <1>1, AgGateClosed
<1>3. /\ DOMAIN x = AgFields /\ x.mBluetoothGatt = gatt.mBluetoothGatt
      /\ x.entries = gatt.entries /\ x.valueKnown = gatt.valueKnown
      /\ x.servicesToBeDiscovered = gatt.servicesToBeDiscovered
      /\ x.readWriteQueue = gatt.readWriteQueue /\ x.pendingJob = NoJob
      /\ x.handleForTimeout = HandleForReset /\ x.handler = gatt.handler
      /\ x.toQt = gatt.toQt /\ x.conns = gatt.conns /\ x.busy = gatt.busy
      /\ x.discovering = gatt.discovering /\ x.bond = gatt.bond
  BY <1>1 DEF AgFields
<1>4. PerformNextIOThreaded(x) = unlocked
  BY <1>2, <1>3 DEF PerformNextIOThreaded
<1>5. gatt' = unlocked \/ (h \in DOMAIN Entries /\ gatt' = EntryDone(known, h))
  <2>1. \/ gatt' = unlocked
        \/ gatt.handleForTimeout.type # "Mtu" /\ gatt' = EntryDone(known, h)
    BY <1>4 DEF AndroidTimeout, TimeoutRunnable
  <2>2. gatt.handleForTimeout.type # "Mtu" => h \in DOMAIN Entries
    BY <1>2 DEF ModifiedHandle, AgWork
  <2> QED
    BY <2>1, <2>2
<1>6. /\ DOMAIN unlocked = AgFields /\ unlocked.handler = Append(gatt.handler, Io)
      /\ unlocked.mBluetoothGatt = gatt.mBluetoothGatt
      /\ unlocked.entries = gatt.entries /\ unlocked.valueKnown = gatt.valueKnown
      /\ unlocked.servicesToBeDiscovered = gatt.servicesToBeDiscovered
      /\ unlocked.readWriteQueue = gatt.readWriteQueue /\ unlocked.pendingJob = NoJob
      /\ unlocked.handleForTimeout = HandleForReset
      /\ unlocked.toQt = gatt.toQt /\ unlocked.conns = gatt.conns /\ unlocked.busy = gatt.busy
      /\ unlocked.discovering = gatt.discovering /\ unlocked.bond = gatt.bond
  <2> HIDE DEF x
  <2> QED
    BY <1>3 DEF Post, AgFields
<1>7. /\ AgPosted(unlocked.handler, gatt.handler)
      /\ \A i \in 1..Len(unlocked.handler) : i > Len(gatt.handler) => unlocked.handler[i] = Io
  <2> HIDE DEF x
  <2> QED
    BY <1>1, <1>3, AgIo, AgPostParts DEF AgShape
<1> HIDE DEF x, unlocked
<1>8. AgShape(unlocked)
  BY <1>1, <1>6, <1>7 DEF AgShape, AgPosted
<1>9. AgQuiet(gatt', unlocked)
  <2>1. CASE gatt' = unlocked
    BY <1>8, <2>1, AgQuietSelf
  <2>2. CASE h \in DOMAIN Entries /\ gatt' = EntryDone(known, h)
    <3>1. known = [unlocked EXCEPT !.valueKnown = unlocked.valueKnown \cup {h}]
      BY <1>6 DEF AgFields
    <3>2. unlocked.valueKnown \cup {h} \subseteq DOMAIN Entries
          /\ unlocked.servicesToBeDiscovered \in Seq(DOMAIN Entries)
      BY <1>8, <2>2 DEF AgShape
    <3> HIDE DEF h, known
    <3>3. AgQuiet(known, unlocked)
      BY <1>8, <3>1, <3>2, AgKnown
    <3>4. AgQuiet(EntryDone(known, h), known)
      BY <1>8, <2>2, <3>3, AgQuietShape, AgEntryDone
    <3> QED
      BY <2>2, <3>3, <3>4, AgQuietOn
  <2> QED
    BY <1>5, <2>1, <2>2
<1>10. AgShape(gatt')
  BY <1>8, <1>9, AgQuietShape
<1>11. /\ gatt'.mBluetoothGatt = gatt.mBluetoothGatt /\ gatt'.entries = gatt.entries
       /\ gatt'.readWriteQueue = gatt.readWriteQueue /\ gatt'.pendingJob = NoJob
       /\ gatt'.handleForTimeout = HandleForReset /\ gatt'.handler = unlocked.handler
       /\ gatt'.conns = gatt.conns /\ gatt'.busy = gatt.busy
       /\ gatt'.discovering = gatt.discovering /\ AgTold(gatt'.toQt, gatt.toQt)
  BY <1>6, <1>9 DEF AgQuiet
<1>12. AgReports(gatt', andr.state)
  BY <1>1, <1>7, <1>11, AgReportsSame
<1>13. AgPending(gatt')
  BY <1>11 DEF AgPending
<1>14. AgQueue(gatt')
  <2>1. \A i \in 1..Len(gatt'.handler) :
          /\ gatt'.handler[i].task = "answer" => gatt'.entries
          /\ gatt'.handler[i].of # 0 => gatt'.handler[i].of = gatt'.mBluetoothGatt
    <3> TAKE i \in 1..Len(gatt'.handler)
    <3>1. \/ i \in 1..Len(gatt.handler) /\ gatt'.handler[i] = gatt.handler[i]
          \/ gatt'.handler[i] = Io
      BY <1>7, <1>11 DEF AgPosted
    <3> QED
      BY <1>1, <1>11, <3>1, AgIo DEF AgQueue
  <2> QED
    BY <1>1, <1>2, <1>11, <2>1 DEF AgQueue
<1>15. AgControl(andr') /\ andr'.state = andr.state
  <2>1. andr' = [andr EXCEPT !.calls = Answered(@, gatt.pendingJob.op, "lost")]
    BY DEF AndroidTimeout
  <2>2. /\ Answered(andr.calls, gatt.pendingJob.op, "lost") \in AgCalls
        /\ Len(Answered(andr.calls, gatt.pendingJob.op, "lost")) = Len(andr.calls)
    BY <1>1, AgCallsParts DEF AgControl, AgCalls
  <2>3. /\ DOMAIN andr' = DOMAIN andr /\ andr'.session = andr.session
        /\ andr'.state = andr.state /\ andr'.serviceList = andr.serviceList
        /\ andr'.calls = Answered(andr.calls, gatt.pendingJob.op, "lost")
        /\ andr'.said = andr.said /\ andr'.scenario = andr.scenario
    BY <1>1, <2>1 DEF AgControl
  <2> QED
    BY <1>1, <2>2, <2>3 DEF AgControl, AgCalls
<1>16. AgOwn(gatt, gatt')
  BY <1>7, <1>11 DEF AgPosted, AgOwn
<1> QED
  BY <1>2, <1>10, <1>12, <1>13, <1>14, <1>15, <1>16 DEF AgGood

\* Something under way: the controller is connected.
LEMMA AgBusyUp ==
  ASSUME NEW g, NEW d, AgGood(g, d), g.busy # NoJob \/ g.discovering
  PROVE  g.mBluetoothGatt # 0 /\ d.state \in AgUp /\ (g.busy # NoJob => g.entries)
BY DEF AgGood, AgQueue, AgIdle

LEMMA AgAnswerInv ==
  ASSUME AgGood(gatt, andr), AndroidAnswer
  PROVE  AgGood(gatt', andr') /\ AgOwn(gatt, gatt')
<1>1. /\ AgShape(gatt) /\ AgPending(gatt) /\ AgQueue(gatt) /\ AgControl(andr)
      /\ AgReports(gatt, andr.state) /\ DOMAIN gatt = AgFields
      /\ gatt.busy # NoJob /\ andr' = andr
  BY DEF AgGood, AndroidAnswer, AgShape
<1>2. gatt.mBluetoothGatt # 0 /\ andr.state \in AgUp /\ gatt.entries
  BY <1>1, AgBusyUp
<1>3. PICK ok \in BOOLEAN :
        gatt' = Post([gatt EXCEPT !.busy = NoJob],
                     [task |-> "answer", of |-> gatt.mBluetoothGatt,
                      job |-> gatt.busy, ok |-> ok])
  BY DEF AndroidAnswer
<1> DEFINE m == [task |-> "answer", of |-> gatt.mBluetoothGatt, job |-> gatt.busy, ok |-> ok]
           x == [gatt EXCEPT !.busy = NoJob]
<1>4. m \in AgTasks /\ m.task = "answer" /\ m.of = gatt.mBluetoothGatt
  <2>1. gatt.busy \in AgRequests /\ gatt.mBluetoothGatt \in AgSessions
    BY <1>1, <1>2, LeAssumption DEF AgShape, AgSessions
  <2> QED
    BY <2>1 DEF AgTasks
<1> HIDE DEF m
<1>5. /\ DOMAIN x = AgFields /\ x.busy = NoJob
      /\ x.mBluetoothGatt = gatt.mBluetoothGatt /\ x.entries = gatt.entries
      /\ x.valueKnown = gatt.valueKnown /\ x.pendingJob = gatt.pendingJob
      /\ x.servicesToBeDiscovered = gatt.servicesToBeDiscovered
      /\ x.readWriteQueue = gatt.readWriteQueue
      /\ x.handleForTimeout = gatt.handleForTimeout /\ x.handler = gatt.handler
      /\ x.toQt = gatt.toQt /\ x.conns = gatt.conns
      /\ x.discovering = gatt.discovering /\ x.bond = gatt.bond
  BY <1>1 DEF AgFields
<1>6. gatt' = Post(x, m)
  BY <1>3 DEF m
<1> HIDE DEF x
<1>7. /\ AgPosted(gatt'.handler, gatt.handler)
      /\ \A i \in 1..Len(gatt'.handler) : i > Len(gatt.handler) => gatt'.handler[i] = m
  BY <1>1, <1>4, <1>5, <1>6, AgPostParts DEF AgShape
<1>8. /\ DOMAIN gatt' = AgFields /\ gatt'.busy = NoJob
      /\ gatt'.mBluetoothGatt = gatt.mBluetoothGatt /\ gatt'.entries = gatt.entries
      /\ gatt'.valueKnown = gatt.valueKnown /\ gatt'.pendingJob = gatt.pendingJob
      /\ gatt'.servicesToBeDiscovered = gatt.servicesToBeDiscovered
      /\ gatt'.readWriteQueue = gatt.readWriteQueue
      /\ gatt'.handleForTimeout = gatt.handleForTimeout
      /\ gatt'.toQt = gatt.toQt /\ gatt'.conns = gatt.conns
      /\ gatt'.discovering = gatt.discovering /\ gatt'.bond = gatt.bond
  BY <1>5, <1>6 DEF Post, AgFields
<1>9. AgMore(gatt', gatt)
  <2>1. AgTold(gatt'.toQt, gatt.toQt)
    BY <1>1, <1>8, AgToldSelf DEF AgShape
  <2>2. \A i \in 1..Len(gatt'.readWriteQueue) :
          gatt'.readWriteQueue[i].type # "Mtu" => gatt'.entries
    BY <1>2, <1>8
  <2> QED
    BY <1>2, <1>4, <1>7, <1>8, <2>1, <2>2 DEF AgMore
<1>10. AgShape(gatt')
  <2>1. gatt'.handler \in Seq(AgTasks)
    BY <1>7 DEF AgPosted
  <2> QED
    BY <1>1, <1>8, <2>1 DEF AgShape
<1>11. AgPending(gatt') /\ AgQueue(gatt') /\ AgReports(gatt', andr.state) /\ AgOwn(gatt, gatt')
  BY <1>1, <1>9, AgMoreGood
<1> QED
  BY <1>1, <1>2, <1>10, <1>11 DEF AgGood

LEMMA AgServicesInv ==
  ASSUME AgGood(gatt, andr), AndroidServices
  PROVE  AgGood(gatt', andr') /\ AgOwn(gatt, gatt')
<1>1. /\ AgShape(gatt) /\ AgPending(gatt) /\ AgQueue(gatt) /\ AgControl(andr)
      /\ AgReports(gatt, andr.state) /\ DOMAIN gatt = AgFields
      /\ gatt.discovering /\ andr' = andr
  BY DEF AgGood, AndroidServices, AgShape
<1>2. gatt.mBluetoothGatt # 0 /\ andr.state \in AgUp
  BY <1>1, AgBusyUp
<1>3. PICK ok \in BOOLEAN :
        gatt' = Post([gatt EXCEPT !.discovering = FALSE],
                     [task |-> "services", of |-> gatt.mBluetoothGatt, ok |-> ok])
  BY DEF AndroidServices
<1> DEFINE m == [task |-> "services", of |-> gatt.mBluetoothGatt, ok |-> ok]
           x == [gatt EXCEPT !.discovering = FALSE]
<1>4. m \in AgTasks /\ m.task = "services" /\ m.of = gatt.mBluetoothGatt
  <2>1. gatt.mBluetoothGatt \in AgSessions
    BY <1>1, <1>2, LeAssumption DEF AgShape, AgSessions
  <2> QED
    BY <2>1 DEF AgTasks
<1> HIDE DEF m
<1>5. /\ DOMAIN x = AgFields /\ x.busy = gatt.busy
      /\ x.mBluetoothGatt = gatt.mBluetoothGatt /\ x.entries = gatt.entries
      /\ x.valueKnown = gatt.valueKnown /\ x.pendingJob = gatt.pendingJob
      /\ x.servicesToBeDiscovered = gatt.servicesToBeDiscovered
      /\ x.readWriteQueue = gatt.readWriteQueue
      /\ x.handleForTimeout = gatt.handleForTimeout /\ x.handler = gatt.handler
      /\ x.toQt = gatt.toQt /\ x.conns = gatt.conns
      /\ x.discovering = FALSE /\ x.bond = gatt.bond
  BY <1>1 DEF AgFields
<1>6. gatt' = Post(x, m)
  BY <1>3 DEF m
<1> HIDE DEF x
<1>7. /\ AgPosted(gatt'.handler, gatt.handler)
      /\ \A i \in 1..Len(gatt'.handler) : i > Len(gatt.handler) => gatt'.handler[i] = m
  BY <1>1, <1>4, <1>5, <1>6, AgPostParts DEF AgShape
<1>8. /\ DOMAIN gatt' = AgFields /\ gatt'.busy = gatt.busy
      /\ gatt'.mBluetoothGatt = gatt.mBluetoothGatt /\ gatt'.entries = gatt.entries
      /\ gatt'.valueKnown = gatt.valueKnown /\ gatt'.pendingJob = gatt.pendingJob
      /\ gatt'.servicesToBeDiscovered = gatt.servicesToBeDiscovered
      /\ gatt'.readWriteQueue = gatt.readWriteQueue
      /\ gatt'.handleForTimeout = gatt.handleForTimeout
      /\ gatt'.toQt = gatt.toQt /\ gatt'.conns = gatt.conns
      /\ gatt'.discovering = FALSE /\ gatt'.bond = gatt.bond
  BY <1>5, <1>6 DEF Post, AgFields
<1>9. AgMore(gatt', gatt)
  <2>1. AgTold(gatt'.toQt, gatt.toQt)
    BY <1>1, <1>8, AgToldSelf DEF AgShape
  <2>2. \A i \in 1..Len(gatt'.readWriteQueue) :
          gatt'.readWriteQueue[i].type # "Mtu" => gatt'.entries
    BY <1>1, <1>8 DEF AgQueue
  <2> QED
    BY <1>2, <1>4, <1>7, <1>8, <2>1, <2>2 DEF AgMore
<1>10. AgShape(gatt')
  <2>1. gatt'.handler \in Seq(AgTasks)
    BY <1>7 DEF AgPosted
  <2> QED
    BY <1>1, <1>8, <2>1 DEF AgShape
<1>11. AgPending(gatt') /\ AgQueue(gatt') /\ AgReports(gatt', andr.state) /\ AgOwn(gatt, gatt')
  BY <1>1, <1>9, AgMoreGood
<1> QED
  BY <1>1, <1>2, <1>10, <1>11 DEF AgGood

LEMMA AgBondingInv ==
  ASSUME AgGood(gatt, andr), AndroidBonding
  PROVE  AgGood(gatt', andr') /\ AgOwn(gatt, gatt')
<1> DEFINE x == [gatt EXCEPT !.bond = "bonding", !.busy = NoJob]
<1>1. /\ AgShape(gatt) /\ AgPending(gatt) /\ AgQueue(gatt) /\ AgControl(andr)
      /\ AgReports(gatt, andr.state) /\ DOMAIN gatt = AgFields
      /\ gatt.busy # NoJob /\ gatt.bond = "none" /\ andr' = andr
  BY DEF AgGood, AndroidBonding, AgShape
<1>2. gatt.mBluetoothGatt # 0 /\ andr.state \in AgUp
  BY <1>1, AgBusyUp
<1>3. /\ DOMAIN x = AgFields /\ x.busy = NoJob
      /\ x.mBluetoothGatt = gatt.mBluetoothGatt /\ x.entries = gatt.entries
      /\ x.valueKnown = gatt.valueKnown /\ x.pendingJob = gatt.pendingJob
      /\ x.servicesToBeDiscovered = gatt.servicesToBeDiscovered
      /\ x.readWriteQueue = gatt.readWriteQueue
      /\ x.handleForTimeout = gatt.handleForTimeout /\ x.handler = gatt.handler
      /\ x.toQt = gatt.toQt /\ x.conns = gatt.conns
      /\ x.discovering = gatt.discovering /\ x.bond = "bonding"
  BY <1>1 DEF AgFields
<1>4. gatt' = IF NoBondJob(x) THEN x ELSE [x EXCEPT !.handleForTimeout = HandleForReset]
  BY DEF AndroidBonding, OnBonding
<1> HIDE DEF x
<1>5. /\ DOMAIN gatt' = AgFields /\ gatt'.busy = NoJob
      /\ gatt'.mBluetoothGatt = gatt.mBluetoothGatt /\ gatt'.entries = gatt.entries
      /\ gatt'.valueKnown = gatt.valueKnown /\ gatt'.pendingJob = gatt.pendingJob
      /\ gatt'.servicesToBeDiscovered = gatt.servicesToBeDiscovered
      /\ gatt'.readWriteQueue = gatt.readWriteQueue
      /\ gatt'.handler = gatt.handler /\ gatt'.toQt = gatt.toQt /\ gatt'.conns = gatt.conns
      /\ gatt'.discovering = gatt.discovering /\ gatt'.bond = "bonding"
      /\ \/ gatt'.handleForTimeout = gatt.handleForTimeout
         \/ gatt'.handleForTimeout = HandleForReset /\ gatt.pendingJob.type \notin {"none", "Mtu"}
  BY <1>3, <1>4 DEF AgFields, NoBondJob
<1>6. AgShape(gatt')
  BY <1>1, <1>5 DEF AgShape
<1>7. AgPending(gatt')
  BY <1>1, <1>5 DEF AgPending
<1>8. AgQueue(gatt')
  BY <1>1, <1>2, <1>5 DEF AgQueue
<1>9. AgReports(gatt', andr.state)
  <2>1. AgPosted(gatt'.handler, gatt.handler) /\ AgTold(gatt'.toQt, gatt.toQt)
    BY <1>1, <1>5, AgPostedSelf, AgToldSelf DEF AgShape
  <2> QED
    BY <1>1, <1>5, <2>1, AgReportsSame
<1>10. AgOwn(gatt, gatt')
  BY <1>5 DEF AgOwn
<1> QED
  BY <1>1, <1>2, <1>6, <1>7, <1>8, <1>9, <1>10 DEF AgGood

LEMMA AgBondingEndedInv ==
  ASSUME AgGood(gatt, andr), AndroidBondingEnded
  PROVE  AgGood(gatt', andr') /\ AgOwn(gatt, gatt')
<1> DEFINE x == [gatt EXCEPT !.bond = "ended"]
           job == gatt.pendingJob
           y == [x EXCEPT !.readWriteQueue = <<x.pendingJob>> \o @]
           n == [y EXCEPT !.pendingJob = NoJob]
<1>1. /\ AgShape(gatt) /\ AgPending(gatt) /\ AgQueue(gatt) /\ AgControl(andr)
      /\ AgReports(gatt, andr.state) /\ DOMAIN gatt = AgFields
      /\ gatt.bond = "bonding" /\ andr' = andr
      /\ andr.state \notin AgUp => AgIdle(gatt)
  BY DEF AgGood, AndroidBondingEnded, AgShape
<1>2. /\ DOMAIN x = AgFields /\ x.busy = gatt.busy
      /\ x.mBluetoothGatt = gatt.mBluetoothGatt /\ x.entries = gatt.entries
      /\ x.valueKnown = gatt.valueKnown /\ x.pendingJob = job
      /\ x.servicesToBeDiscovered = gatt.servicesToBeDiscovered
      /\ x.readWriteQueue = gatt.readWriteQueue
      /\ x.handleForTimeout = gatt.handleForTimeout /\ x.handler = gatt.handler
      /\ x.toQt = gatt.toQt /\ x.conns = gatt.conns
      /\ x.discovering = gatt.discovering /\ x.bond = "ended"
  BY <1>1 DEF AgFields
<1>3. gatt' = IF NoBondJob(x) THEN x ELSE PerformNextIO(n)
  BY DEF AndroidBondingEnded, OnBondingEnded, Unlock
<1>4. job \in AgWork \cup {NoJob} /\ Len(gatt.handler) \in Nat /\ gatt.readWriteQueue \in Seq(AgWork)
  BY <1>1 DEF AgShape
<1>5. AgPosted(gatt.handler, gatt.handler) /\ AgTold(gatt.toQt, gatt.toQt)
  BY <1>1, AgPostedSelf, AgToldSelf DEF AgShape
<1>6. CASE NoBondJob(x)
  <2>1. gatt' = x
    BY <1>3, <1>6
  <2> HIDE DEF x, job
  <2>2. AgShape(x)
    BY <1>1, <1>2 DEF AgShape, job
  <2>3. gatt.mBluetoothGatt = 0 \/ job.type \in {"none", "Mtu"}
    BY <1>2, <1>6 DEF NoBondJob
  <2>4. job \in AgWork => job.type # "none"
    BY DEF AgWork
  <2>5. AgPending(x)
    BY <1>1, <1>2, <1>4, <2>3, <2>4 DEF AgPending, job
  <2>6. AgQueue(x)
    BY <1>1, <1>2 DEF AgQueue
  <2>7. AgReports(x, andr.state)
    BY <1>1, <1>2, <1>5, AgReportsSame
  <2>8. AgIdle(gatt) => AgIdle(x)
    BY <1>2 DEF AgIdle, job
  <2>9. AgOwn(gatt, gatt')
    BY <1>2, <2>1 DEF AgOwn, job
  <2> QED
    BY <1>1, <2>1, <2>2, <2>5, <2>6, <2>7, <2>8, <2>9 DEF AgGood
<1>7. CASE ~NoBondJob(x)
  <2>1. gatt.mBluetoothGatt # 0 /\ job.type \notin {"none", "Mtu"}
    BY <1>2, <1>7 DEF NoBondJob
  <2>2. job # NoJob
    BY <2>1 DEF NoJob, Job
  <2>3. job \in AgWork /\ gatt.entries /\ andr.state \in AgUp
    BY <1>1, <1>4, <2>1, <2>2 DEF AgPending, AgIdle
  <2>4. gatt' = PerformNextIO(n)
    BY <1>3, <1>7
  <2> HIDE DEF x, job
  <2>5. /\ DOMAIN y = AgFields /\ y.busy = gatt.busy
        /\ y.mBluetoothGatt = gatt.mBluetoothGatt /\ y.entries = gatt.entries
        /\ y.valueKnown = gatt.valueKnown
        /\ y.servicesToBeDiscovered = gatt.servicesToBeDiscovered
        /\ y.readWriteQueue = <<job>> \o gatt.readWriteQueue
        /\ y.handleForTimeout = gatt.handleForTimeout /\ y.handler = gatt.handler
        /\ y.toQt = gatt.toQt /\ y.conns = gatt.conns
        /\ y.discovering = gatt.discovering /\ y.bond = "ended"
    BY <1>2 DEF AgFields
  <2> HIDE DEF y
  <2>6. /\ DOMAIN n = AgFields /\ n.busy = gatt.busy
        /\ n.mBluetoothGatt = gatt.mBluetoothGatt /\ n.entries = gatt.entries
        /\ n.valueKnown = gatt.valueKnown /\ n.pendingJob = NoJob
        /\ n.servicesToBeDiscovered = gatt.servicesToBeDiscovered
        /\ n.readWriteQueue = <<job>> \o gatt.readWriteQueue
        /\ n.handleForTimeout = gatt.handleForTimeout /\ n.handler = gatt.handler
        /\ n.toQt = gatt.toQt /\ n.conns = gatt.conns
        /\ n.discovering = gatt.discovering /\ n.bond = "ended"
    BY <2>5 DEF AgFields
  <2>7. AgRecord(n)
    BY <2>5 DEF AgRecord
  <2> HIDE DEF n
  <2>8. /\ n.readWriteQueue \in Seq(AgWork) /\ n.readWriteQueue # <<>>
        /\ \A i \in 1..Len(n.readWriteQueue) : n.readWriteQueue[i].type # "Mtu" => n.entries
    <3>1. <<job>> \in Seq(AgWork) /\ Len(<<job>>) = 1
      BY <2>3
    <3>2. /\ n.readWriteQueue \in Seq(AgWork)
          /\ Len(n.readWriteQueue) = Len(<<job>>) + Len(gatt.readWriteQueue)
          /\ Len(gatt.readWriteQueue) \in Nat
      BY <1>4, <2>6, <3>1, ConcatParts
    <3>3. n.readWriteQueue # <<>>
      BY <3>1, <3>2
    <3> QED
      BY <2>3, <2>6, <3>2, <3>3
  <2>9. AgShape(n)
    BY <1>1, <2>6, <2>8 DEF AgShape
  <2>10. AgQueue(n)
    BY <1>1, <2>1, <2>6, <2>8 DEF AgQueue
  <2>11. AgReports(n, andr.state)
    BY <1>1, <1>5, <2>6, AgReportsSame
  <2>12. AgOpen(n, andr)
    BY <1>1, <2>1, <2>3, <2>6, <2>7, <2>8, <2>9, <2>10, <2>11 DEF AgOpen
  <2>13. AgGood(gatt', andr) /\ Len(n.handler) <= Len(gatt'.handler)
    BY <2>4, <2>12, AgPerformGood
  <2>14. AgOwn(gatt, gatt')
    <3>1. Len(gatt'.handler) \in Nat
      BY <2>13 DEF AgGood, AgShape
    <3> QED
      BY <1>4, <2>6, <2>13, <3>1, AgNotTaken
  <2> QED
    BY <1>1, <2>13, <2>14
<1> QED
  BY <1>6, <1>7

\* r is g after Android's report that connection c is now up or down.
AgReportOf(r, g, c, now, up, ok) ==
  /\ c = g.mBluetoothGatt
  /\ \A k \in AgSessions : k # c => ~Live(g, k) /\ ~Live(r, k)
  /\ r.conns[c] = now /\ \A k \in AgSessions : r.conns[k] # "connecting"
  /\ r.toQt = g.toQt /\ r.mBluetoothGatt = g.mBluetoothGatt
  /\ AgShape(r) /\ AgPending(r) /\ AgQueue(r) /\ (AgIdle(g) => AgIdle(r)) /\ AgOwn(g, r)
  /\ Len(g.handler) + 1 \in Nat /\ Reported(r, Len(g.handler) + 1)
  /\ r.handler[Len(g.handler) + 1].up = up /\ r.handler[Len(g.handler) + 1].ok = ok
  /\ \A i \in Nat : Reported(r, i) =>
       \/ Reported(g, i) /\ r.handler[i] = g.handler[i] /\ i < Len(g.handler) + 1
       \/ i = Len(g.handler) + 1

LEMMA AgReportPosted ==
  ASSUME NEW g, NEW d, AgGood(g, d), NEW c \in AgSessions, Live(g, c),
         NEW now \in {"up", "down"}, NEW up \in BOOLEAN, NEW ok \in BOOLEAN,
         NEW r, r = Post([g EXCEPT !.conns[c] = now],
                         [task |-> "connection", of |-> c, up |-> up, ok |-> ok])
  PROVE  AgReportOf(r, g, c, now, up, ok) /\ d.state # "Unconnected"
<1> DEFINE m == [task |-> "connection", of |-> c, up |-> up, ok |-> ok]
           x == [g EXCEPT !.conns[c] = now]
           n == Len(g.handler)
<1>1. /\ AgShape(g) /\ AgPending(g) /\ AgQueue(g) /\ AgReports(g, d.state)
      /\ DOMAIN g = AgFields /\ g.handler \in Seq(AgTasks) /\ n \in Nat
      /\ g.conns \in [AgSessions -> {"none", "connecting", "abandoned", "up", "closing",
                                     "down", "closed"}]
  BY DEF AgGood, AgShape
<1>2. /\ c = g.mBluetoothGatt /\ d.state # "Unconnected" /\ c # 0
      /\ \A k \in AgSessions : Live(g, k) => k = c
  BY <1>1 DEF AgReports, AgLives, AgSessions
<1>3. m \in AgTasks /\ m.task = "connection" /\ m.of = c /\ m.up = up /\ m.ok = ok
  BY DEF AgTasks
<1> HIDE DEF m
<1>4. /\ DOMAIN x = AgFields /\ x.busy = g.busy
      /\ x.mBluetoothGatt = g.mBluetoothGatt /\ x.entries = g.entries
      /\ x.valueKnown = g.valueKnown /\ x.pendingJob = g.pendingJob
      /\ x.servicesToBeDiscovered = g.servicesToBeDiscovered
      /\ x.readWriteQueue = g.readWriteQueue
      /\ x.handleForTimeout = g.handleForTimeout /\ x.handler = g.handler
      /\ x.toQt = g.toQt /\ x.conns = [g.conns EXCEPT ![c] = now]
      /\ x.discovering = g.discovering /\ x.bond = g.bond
  BY <1>1 DEF AgFields
<1>5. r = Post(x, m)
  BY DEF m
<1> HIDE DEF x
<1>6. /\ DOMAIN r = AgFields /\ r.busy = g.busy /\ r.handler = Append(g.handler, m)
      /\ r.mBluetoothGatt = g.mBluetoothGatt /\ r.entries = g.entries
      /\ r.valueKnown = g.valueKnown /\ r.pendingJob = g.pendingJob
      /\ r.servicesToBeDiscovered = g.servicesToBeDiscovered
      /\ r.readWriteQueue = g.readWriteQueue
      /\ r.handleForTimeout = g.handleForTimeout
      /\ r.toQt = g.toQt /\ r.conns = [g.conns EXCEPT ![c] = now]
      /\ r.discovering = g.discovering /\ r.bond = g.bond
  BY ONLY <1>4, <1>5 DEF Post, AgFields
<1>7. /\ r.handler \in Seq(AgTasks) /\ Len(r.handler) = n + 1 /\ r.handler[n + 1] = m
      /\ \A i \in 1..n : r.handler[i] = g.handler[i]
  <2>1. g.handler \in Seq(AgTasks) /\ m \in AgTasks /\ r.handler = Append(g.handler, m)
    BY <1>1, <1>3, <1>6
  <2> QED
    BY ONLY <2>1, AppendParts
<1>8. \A i \in 1..Len(r.handler) : (i \in 1..n /\ i < n + 1) \/ i = n + 1
  BY <1>1, <1>7
<1>9. /\ r.conns \in [AgSessions -> {"none", "connecting", "abandoned", "up", "closing",
                                     "down", "closed"}]
      /\ r.conns[c] = now /\ \A k \in AgSessions : k # c => r.conns[k] = g.conns[k]
  BY <1>1, <1>6
<1>10. \A k \in AgSessions : k # c => ~Live(g, k) /\ ~Live(r, k)
  BY <1>2, <1>9 DEF Live
<1>11. \A k \in AgSessions : r.conns[k] # "connecting"
  BY <1>9, <1>10 DEF Live
<1>12. AgShape(r)
  BY <1>1, <1>6, <1>7, <1>9 DEF AgShape
<1>13. AgPending(r)
  BY <1>1, <1>6 DEF AgPending
<1>14. AgQueue(r)
  <2>1. \A i \in 1..Len(r.handler) :
          /\ r.handler[i].task = "answer" => r.entries
          /\ r.handler[i].of # 0 => r.handler[i].of = r.mBluetoothGatt
    <3> TAKE i \in 1..Len(r.handler)
    <3>1. (i \in 1..n /\ r.handler[i] = g.handler[i]) \/ r.handler[i] = m
      BY <1>7, <1>8
    <3>2. i \in 1..n => /\ g.handler[i].task = "answer" => g.entries
                        /\ g.handler[i].of # 0 => g.handler[i].of = g.mBluetoothGatt
      BY <1>1 DEF AgQueue
    <3>3. r.entries = g.entries /\ r.mBluetoothGatt = g.mBluetoothGatt
      BY <1>6
    <3> QED
      BY <1>2, <1>3, <3>1, <3>2, <3>3
  <2>2. /\ r.entries = g.entries /\ r.mBluetoothGatt = g.mBluetoothGatt /\ r.busy = g.busy
        /\ r.discovering = g.discovering /\ r.handleForTimeout = g.handleForTimeout
        /\ r.readWriteQueue = g.readWriteQueue
    BY <1>6
  <2>3. AgQueue(g)
    BY <1>1
  <2> QED
    BY ONLY <2>1, <2>2, <2>3 DEF AgQueue
<1>15. AgIdle(g) => AgIdle(r)
  <2>1. AgIdle(g) => \A i \in 1..Len(r.handler) :
          r.handler[i].of # 0 => r.handler[i].task = "connection"
    <3> SUFFICES ASSUME AgIdle(g), NEW i \in 1..Len(r.handler)
                 PROVE  r.handler[i].of # 0 => r.handler[i].task = "connection"
      OBVIOUS
    <3>1. (i \in 1..n /\ r.handler[i] = g.handler[i]) \/ r.handler[i] = m
      BY <1>7, <1>8
    <3> QED
      BY <1>3, <3>1 DEF AgIdle
  <2> QED
    BY SMTT(30), <1>6, <2>1 DEF AgIdle
<1>16. AgOwn(g, r)
  BY <1>6 DEF AgOwn
<1>17. n + 1 \in Nat /\ Reported(r, n + 1)
  BY <1>1, <1>3, <1>7 DEF Reported
<1>18. \A i \in Nat : Reported(r, i) =>
         \/ Reported(g, i) /\ r.handler[i] = g.handler[i] /\ i < n + 1
         \/ i = n + 1
  BY <1>7, <1>8 DEF Reported
<1>19. r.handler[n + 1].up = up /\ r.handler[n + 1].ok = ok
  BY <1>3, <1>7
<1> QED
  BY <1>2, <1>6, <1>9, <1>10, <1>11, <1>12, <1>13, <1>14, <1>15, <1>16, <1>17, <1>18, <1>19
     DEF AgReportOf

LEMMA AgConnectedInv ==
  ASSUME AgOrderly, AgGood(gatt, andr), NEW c \in DOMAIN gatt.conns, AndroidConnected(c)
  PROVE  AgGood(gatt', andr') /\ AgOwn(gatt, gatt')
<1> DEFINE n == Len(gatt.handler) + 1
<1>1. /\ AgControl(andr) /\ AgReports(gatt, andr.state) /\ c \in AgSessions /\ andr' = andr
      /\ andr.state \notin AgUp => AgIdle(gatt)
  BY DEF AgGood, AgShape, AndroidConnected
<1>2. gatt.conns[c] = "connecting" /\ Live(gatt, c) /\ andr.state = "Connecting"
  BY <1>1, AgBounds DEF AndroidConnected, Live, AgReports, AgLives
<1>3. PICK up \in BOOLEAN, ok \in BOOLEAN :
        /\ ok => up
        /\ gatt' = Post([gatt EXCEPT !.conns[c] = IF up /\ ok THEN "up" ELSE "down"],
                        [task |-> "connection", of |-> c, up |-> up, ok |-> ok])
  BY DEF AndroidConnected
<1> DEFINE now == IF up /\ ok THEN "up" ELSE "down"
<1>4. now \in {"up", "down"} /\ (~ok => now = "down")
  OBVIOUS
<1>5. gatt' = Post([gatt EXCEPT !.conns[c] = now],
                   [task |-> "connection", of |-> c, up |-> up, ok |-> ok])
  BY <1>3
<1> HIDE DEF now
<1>6. /\ AgShape(gatt') /\ AgPending(gatt') /\ AgQueue(gatt') /\ (AgIdle(gatt) => AgIdle(gatt'))
      /\ AgOwn(gatt, gatt') /\ c = gatt.mBluetoothGatt
      /\ \A k \in AgSessions : k # c => ~Live(gatt', k)
      /\ gatt'.conns[c] = now /\ \A k \in AgSessions : gatt'.conns[k] # "connecting"
      /\ gatt'.toQt = gatt.toQt /\ gatt'.mBluetoothGatt = gatt.mBluetoothGatt
      /\ gatt'.handler[n].up = up /\ gatt'.handler[n].ok = ok
      /\ \A i \in Nat : Reported(gatt', i) => Reported(gatt, i) \/ i = n
  <2>1. AgReportOf(gatt', gatt, c, now, up, ok)
    BY <1>1, <1>2, <1>4, <1>5, AgReportPosted
  <2> QED
    BY <2>1 DEF AgReportOf
<1>7. \A i \in Nat : ~Reported(gatt, i) /\ ~Signalled(gatt, i)
  BY <1>1, <1>2 DEF AgReports, AgSilent
<1>8. \A i \in Nat : ~Signalled(gatt', i) /\ (Reported(gatt', i) => i = n)
  BY <1>6, <1>7 DEF Signalled
<1>9. ~ok => \A k \in AgSessions : ~Live(gatt', k)
  BY <1>4, <1>6 DEF Live
<1>10. AgReports(gatt', andr.state)
  <2>1. AgLives(gatt', andr.state) /\ AgSilent(gatt', andr.state)
    BY <1>2, <1>6 DEF AgLives, AgSilent
  <2>2. AgUpReported(gatt', andr.state) /\ AgUpSignalled(gatt', andr.state)
    BY <1>2, <1>6, <1>8, <1>9 DEF AgUpReported, AgUpSignalled
  <2>3. AgDownReported(gatt') /\ AgDownSignalled(gatt')
    BY <1>3, <1>6, <1>8, <1>9 DEF AgDownReported, AgDownSignalled
  <2> QED
    BY <2>1, <2>2, <2>3 DEF AgReports
<1> QED
  BY <1>1, <1>6, <1>10 DEF AgGood

LEMMA AgDisconnectedInv ==
  ASSUME AgGood(gatt, andr), NEW c \in DOMAIN gatt.conns, AndroidDisconnected(c)
  PROVE  AgGood(gatt', andr') /\ AgOwn(gatt, gatt')
<1> DEFINE n == Len(gatt.handler) + 1
           ok == gatt.conns[c] = "closing"
<1>1. /\ AgControl(andr) /\ AgReports(gatt, andr.state) /\ c \in AgSessions /\ andr' = andr
      /\ andr.state \notin AgUp => AgIdle(gatt)
  BY DEF AgGood, AgShape, AndroidDisconnected
<1>2. Live(gatt, c)
  BY <1>1 DEF AndroidDisconnected, Live
<1>3. gatt' = Post([gatt EXCEPT !.conns[c] = "down"],
                   [task |-> "connection", of |-> c, up |-> FALSE, ok |-> ok])
  BY DEF AndroidDisconnected
<1>4. ok \in BOOLEAN
  OBVIOUS
<1> HIDE DEF ok
<1>5. /\ AgShape(gatt') /\ AgPending(gatt') /\ AgQueue(gatt') /\ (AgIdle(gatt) => AgIdle(gatt'))
      /\ AgOwn(gatt, gatt') /\ andr.state # "Unconnected"
      /\ \A k \in AgSessions : k # c => ~Live(gatt', k)
      /\ gatt'.conns[c] = "down" /\ \A k \in AgSessions : gatt'.conns[k] # "connecting"
      /\ gatt'.toQt = gatt.toQt /\ gatt'.mBluetoothGatt = gatt.mBluetoothGatt
      /\ gatt'.handler[n].up = FALSE
      /\ \A i \in Nat : Reported(gatt', i) =>
           \/ Reported(gatt, i) /\ gatt'.handler[i] = gatt.handler[i] /\ i < n
           \/ i = n
  <2>1. AgReportOf(gatt', gatt, c, "down", FALSE, ok) /\ andr.state # "Unconnected"
    BY <1>1, <1>2, <1>3, <1>4, AgReportPosted
  <2> QED
    BY <2>1 DEF AgReportOf
<1>6. \A k \in AgSessions : ~Live(gatt', k)
  BY <1>5 DEF Live
<1>7. \A i \in Nat : Signalled(gatt', i) <=> Signalled(gatt, i)
  BY <1>5 DEF Signalled
<1>8. \A i \in Nat : Reported(gatt, i) => gatt.handler[i].up
  BY <1>1, <1>2 DEF AgReports, AgDownReported
<1>9. AgReports(gatt', andr.state)
  <2>1. AgLives(gatt', andr.state) /\ AgSilent(gatt', andr.state)
    BY <1>5, <1>6 DEF AgLives, AgSilent
  <2>2. AgUpReported(gatt', andr.state)
    <3> SUFFICES ASSUME NEW i \in Nat, Reported(gatt', i), gatt'.handler[i].up
                 PROVE  /\ andr.state = "Connecting" /\ \A j \in Nat : ~Signalled(gatt', j)
                        /\ \A j \in Nat : Reported(gatt', j) /\ j # i =>
                             j > i /\ ~gatt'.handler[j].up /\ gatt'.handler[i].ok
      BY <1>6 DEF AgUpReported
    <3>1. Reported(gatt, i) /\ gatt'.handler[i] = gatt.handler[i] /\ i < n
      BY <1>5
    <3>2. /\ andr.state = "Connecting" /\ \A j \in Nat : ~Signalled(gatt, j)
          /\ \A j \in Nat : Reported(gatt, j) /\ j # i => j > i /\ ~gatt.handler[j].up
          /\ gatt.handler[i].ok
      BY <1>1, <1>2, <3>1 DEF AgReports, AgUpReported
    <3>3. ASSUME NEW j \in Nat, Reported(gatt', j), j # i
          PROVE  j > i /\ ~gatt'.handler[j].up
      <4>1. ~Reported(gatt, j)
        BY <1>8, <3>2, <3>3
      <4>2. j = n
        BY <1>5, <3>3, <4>1
      <4> QED
        BY <1>5, <3>1, <4>2
    <3> QED
      BY <1>7, <3>1, <3>2, <3>3
  <2>3. AgUpSignalled(gatt', andr.state)
    <3> SUFFICES ASSUME NEW i \in Nat, Signalled(gatt', i), gatt'.toQt[i].up
                 PROVE  /\ andr.state = "Connecting"
                        /\ \A j \in Nat : Signalled(gatt', j) /\ j # i =>
                             j > i /\ ~gatt'.toQt[j].up /\ gatt'.toQt[i].ok
                        /\ \A j \in Nat : Reported(gatt', j) =>
                             ~gatt'.handler[j].up /\ gatt'.toQt[i].ok
      BY <1>6 DEF AgUpSignalled
    <3>1. Signalled(gatt, i) /\ gatt.toQt[i].up
      BY <1>5, <1>7
    <3>2. /\ andr.state = "Connecting"
          /\ \A j \in Nat : Signalled(gatt, j) /\ j # i => j > i /\ ~gatt.toQt[j].up /\ gatt.toQt[i].ok
          /\ \A j \in Nat : Reported(gatt, j) => ~gatt.handler[j].up
          /\ gatt.toQt[i].ok
      BY <1>1, <1>2, <3>1 DEF AgReports, AgUpSignalled
    <3>3. ASSUME NEW j \in Nat, Reported(gatt', j)
          PROVE  ~gatt'.handler[j].up
      BY <1>5, <3>2, <3>3
    <3> QED
      BY <1>5, <1>7, <3>2, <3>3
  <2>4. AgDownReported(gatt')
    <3>1. \A i \in Nat : Reported(gatt', i) /\ ~gatt'.handler[i].up => i = n
      BY <1>5, <1>8
    <3> QED
      BY <1>6, <3>1 DEF AgDownReported
  <2>5. AgDownSignalled(gatt')
    BY <1>1, <1>5, <1>7 DEF AgReports, AgDownSignalled
  <2> QED
    BY <2>1, <2>2, <2>3, <2>4, <2>5 DEF AgReports
<1> QED
  BY <1>1, <1>5, <1>9 DEF AgGood

LEMMA AgNextInv ==
  ASSUME AgOrderly, AgGood(gatt, andr), [AndroidNext]_androidVars
  PROVE  AgGood(gatt', andr') /\ AgOwn(gatt, gatt')
<1>1. CASE AndroidConnect \/ AndroidDisconnect \/ AndroidDiscoverServices
  BY <1>1, AgConnectInv, AgDisconnectInv, AgDiscoverServicesInv
<1>2. CASE \E s \in LeServices, full \in BOOLEAN : AndroidDiscoverDetails(s, full)
  BY <1>2, AgDetailsInv
<1>3. CASE \E a \in LeAttributes, type \in {"Read", "Write"} : AndroidAccess(a, type)
  BY <1>3, AgAccessInv
<1>4. CASE AndroidSlot \/ AndroidHandler \/ AndroidTimeout
  BY <1>4, AgSlotInv, AgHandlerInv, AgTimeoutInv
<1>5. CASE AndroidAnswer \/ AndroidServices \/ AndroidBonding \/ AndroidBondingEnded
  BY <1>5, AgAnswerInv, AgServicesInv, AgBondingInv, AgBondingEndedInv
<1>6. CASE \E c \in DOMAIN gatt.conns : AndroidConnected(c) \/ AndroidDisconnected(c)
  BY <1>6, AgConnectedInv, AgDisconnectedInv
<1>7. CASE UNCHANGED androidVars
  <2>1. gatt' = gatt /\ andr' = andr
    BY <1>7 DEF androidVars
  <2> QED
    BY <2>1 DEF AgOwn
<1> QED
  BY <1>1, <1>2, <1>3, <1>4, <1>5, <1>6, <1>7 DEF AndroidNext

\* What the strengthened invariant promises.
LEMMA AgPromise ==
  ASSUME AgGood(gatt, andr)
  PROVE  AndroidTypeOK /\ AndroidQueueUnlocks /\ AndroidGateIsTheJobs /\ AndroidAnnounced
<1>1. AgShape(gatt) /\ AgPending(gatt) /\ AgControl(andr)
  BY DEF AgGood
<1>2. NoJob \in AgJobs /\ AgWork \subseteq AgJobs /\ AgRequests \subseteq AgJobs
  BY EntriesParts, LeAssumption DEF AgJobs, AgWork, AgRequests, NoJob, Job
<1>3. gatt.readWriteQueue \in Seq(AgJobs)
  BY <1>1, <1>2 DEF AgShape
<1>4. AndroidTypeOK
  BY <1>1, <1>2, <1>3 DEF AndroidTypeOK, AgShape, AgControl
<1>5. AndroidQueueUnlocks /\ AndroidGateIsTheJobs
  BY <1>1 DEF AndroidQueueUnlocks, AndroidGateIsTheJobs, AgPending
<1>6. AndroidAnnounced
  BY <1>1 DEF AndroidAnnounced, AgControl, AgUp
<1> QED
  BY <1>4, <1>5, <1>6

-----------------------------------------------------------------------------
(* The composition *)

\* A step of a behaviour is one of each central, or leaves it as it is.
LEMMA LeStep ==
  ASSUME [LeNext]_LeVars
  PROVE  /\ [DBusNext]_dbusVars /\ [AndroidNext]_androidVars /\ [WrNext]_wr
         /\ [DcNext]_dc
<1>1. CASE UNCHANGED LeVars
  BY <1>1 DEF LeVars
<1>2. CASE LeNext
  BY <1>2 DEF LeNext
<1> QED
  BY <1>1, <1>2

\* On Windows: the handler whose reports are read is the last one registered (WrHeld,
\* WrOwnConnection), no value was obtained in an earlier session (WrValuesOwn), and a
\* discovery that has ended has listed every service (WrAllDiscovered).
THEOREM SessionsAreOwn ==
  ASSUME WrUnhurried
  PROVE  LeSpec => []OwnSession
<1>1. LeInit => WrGood(wr)
  BY WrInitInv DEF LeInit
<1>2. WrGood(wr) /\ [LeNext]_LeVars => WrGood(wr)'
  BY LeStep, WrNextInv
<1>3. WrGood(wr) => OwnSession
  BY WrPromise DEF OwnSession
<1> QED
  BY <1>1, <1>2, <1>3, PTL DEF LeSpec

\* Over D-Bus: the list of jobs is never left with work that nothing under way will
\* take up, and holds every open call (DBusJobsMove); connected() and disconnected()
\* alternate and agree with the state (DBusAnnounced).
THEOREM DBusJobsGoOn == LeSpec => [](DBusTypeOK /\ DBusJobsMove /\ DBusAnnounced)
<1>1. LeInit => DbGood(dbus) /\ DbLinkType
  BY DbInitInv DEF LeInit, DbLinkType
<1>2. (DbGood(dbus) /\ DbLinkType) /\ [LeNext]_LeVars => (DbGood(dbus) /\ DbLinkType)'
  BY LeStep, DbNextInv, DbLinkTyped
<1>3. DbGood(dbus) /\ DbLinkType => DBusTypeOK /\ DBusJobsMove /\ DBusAnnounced
  BY DbPromise
<1> QED
  BY <1>1, <1>2, <1>3, PTL DEF LeSpec

\* Over D-Bus a read or a write is answered by the answer of its own D-Bus call:
\* where connectToDevice() waits for the answers of the last connection.
THEOREM DBusAnswersAreOwn ==
  ASSUME DBusPatient
  PROVE  LeSpec => DBusOwnAnswer
<1> DEFINE Own == \A op \in Open(dbus.calls) : dbus.calls'[op] \in {"ok", "error"} =>
                    DBusWaiting(op) /\ ~DBusWaiting(op)'
<1>1. LeInit => DbGood(dbus)
  BY DbInitInv DEF LeInit
<1>2. DbGood(dbus) /\ [LeNext]_LeVars => DbGood(dbus)'
  BY LeStep, DbNextInv
<1>3. ASSUME DbGood(dbus), DbGood(dbus'), [LeNext]_LeVars
      PROVE  Own
  <2>1. DbOwn(dbus')
    BY <1>3, LeStep, DbNextInv
  <2>2. dbus.waiting \in Seq(DbWaits) /\ dbus'.waiting \in Seq(DbWaits)
    BY <1>3 DEF DbGood, DbShape
  <2>3. /\ DOMAIN dbus.waiting = 1..Len(dbus.waiting)
        /\ DOMAIN dbus'.waiting = 1..Len(dbus'.waiting)
    BY <2>2
  <2> QED
    BY <2>1, <2>3 DEF DbOwn, DBusWaiting
<1>4. DbGood(dbus) /\ DbGood(dbus)' /\ [LeNext]_LeVars => [Own]_dbusVars
  BY <1>3
<1> QED
  BY <1>1, <1>2, <1>4, PTL DEF LeSpec, DBusOwnAnswer

\* On Android a pending job has its watchdog or a pairing that will end
\* (AndroidQueueUnlocks), and the gate between watchdog and answer stands for that
\* job (AndroidGateIsTheJobs).
THEOREM AndroidQueueMoves ==
  ASSUME AgOrderly
  PROVE  LeSpec => [](AndroidTypeOK /\ AndroidQueueUnlocks /\ AndroidGateIsTheJobs)
<1>1. LeInit => AgGood(gatt, andr)
  BY AgInitInv DEF LeInit
<1>2. AgGood(gatt, andr) /\ [LeNext]_LeVars => AgGood(gatt, andr)'
  BY LeStep, AgNextInv
<1>3. AgGood(gatt, andr) => AndroidTypeOK /\ AndroidQueueUnlocks /\ AndroidGateIsTheJobs
  BY AgPromise
<1> QED
  BY <1>1, <1>2, <1>3, PTL DEF LeSpec

\* On Android an answer that ends a pending job is the answer to a request of its
\* kind, for its attribute, however late the answers to others arrive.
THEOREM AndroidAnswersAreOwn ==
  ASSUME AgOrderly
  PROVE  LeSpec => AndroidOwnAnswer
<1> DEFINE Own ==
      gatt.pendingJob # NoJob /\ gatt'.pendingJob # gatt.pendingJob
        /\ gatt.handler # <<>> /\ Head(gatt.handler).task = "answer"
        /\ Len(gatt'.handler) < Len(gatt.handler) =>
      \/ gatt'.mBluetoothGatt = 0
      \/ LET job == Head(gatt.handler).job
         IN  <<job.type, job.handle>> = <<gatt.pendingJob.type, gatt.pendingJob.handle>>
<1>1. LeInit => AgGood(gatt, andr)
  BY AgInitInv DEF LeInit
<1>2. AgGood(gatt, andr) /\ [LeNext]_LeVars => AgGood(gatt, andr)'
  BY LeStep, AgNextInv
<1>3. ASSUME AgGood(gatt, andr), [LeNext]_LeVars
      PROVE  Own
  <2>1. AgOwn(gatt, gatt')
    BY <1>3, LeStep, AgNextInv
  <2> QED
    BY <2>1 DEF AgOwn
<1>4. AgGood(gatt, andr) /\ [LeNext]_LeVars => [Own]_androidVars
  BY <1>3
<1> QED
  BY <1>1, <1>2, <1>4, PTL DEF LeSpec, AndroidOwnAnswer

\* connected() and disconnected() alternate and agree with the state, over D-Bus and
\* on Android, in whatever order the link, the answers and close() come.
THEOREM StatesAreAnnounced ==
  ASSUME AgOrderly
  PROVE  LeSpec => []StatesAnnounced
<1> DEFINE Inv == DbGood(dbus) /\ DbLinkType /\ AgGood(gatt, andr)
<1>1. LeInit => Inv
  BY DbInitInv, AgInitInv DEF LeInit, DbLinkType
<1>2. Inv /\ [LeNext]_LeVars => Inv'
  BY LeStep, DbNextInv, DbLinkTyped, AgNextInv
<1>3. Inv => StatesAnnounced
  BY DbPromise, AgPromise DEF StatesAnnounced
<1> QED
  BY <1>1, <1>2, <1>3, PTL DEF LeSpec

=============================================================================
