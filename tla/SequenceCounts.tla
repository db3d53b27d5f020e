--------------------------- MODULE SequenceCounts ---------------------------
(***************************************************************************)
(* Facts about sequences and numbers for the proofs about queues: how many *)
(* elements of a sequence belong to a set, and how appending, prepending,  *)
(* concatenating and removing the head change that number; the least of a  *)
(* set of numbers, induction for sets, and functions that are defined by   *)
(* recursion over the numbers.                                             *)
(***************************************************************************)
EXTENDS Integers, Sequences, FiniteSets, SequenceTheorems, FiniteSetTheorems,
        WellFoundedInduction, TLAPS

Places(s, R) == {k \in DOMAIN s : s[k] \in R}
Count(s, R) == Cardinality(Places(s, R))

-----------------------------------------------------------------------------

LEMMA CountType ==
  ASSUME NEW S, NEW s \in Seq(S), NEW R
  PROVE  IsFiniteSet(Places(s, R)) /\ Count(s, R) \in Nat
<1>1. DOMAIN s = 1..Len(s) /\ Len(s) \in Nat
  BY LenProperties
<1>2. IsFiniteSet(1..Len(s))
  BY <1>1, FS_Interval
<1>3. Places(s, R) \in SUBSET (1..Len(s))
  BY <1>1 DEF Places
<1> QED
  BY <1>2, <1>3, FS_Subset, FS_CardinalityType DEF Count

LEMMA CountZero ==
  ASSUME NEW S, NEW s \in Seq(S), NEW R
  PROVE  Count(s, R) = 0 <=> Places(s, R) = {}
BY CountType, FS_EmptySet DEF Count

LEMMA CountNone ==
  ASSUME NEW S, NEW s \in Seq(S), NEW R, \A k \in 1..Len(s) : s[k] \notin R
  PROVE  Count(s, R) = 0
<1>1. DOMAIN s = 1..Len(s)
  BY LenProperties
<1>2. Places(s, R) = {}
  BY <1>1 DEF Places
<1> QED
  BY <1>2, CountZero

LEMMA CountOne ==
  ASSUME NEW S, NEW s \in Seq(S), NEW R
  PROVE  Count(s, R) = 1 <=> \E k : Places(s, R) = {k}
BY CountType, FS_Singleton DEF Count

LEMMA CountEmpty ==
  ASSUME NEW R
  PROVE  Count(<<>>, R) = 0
<1>1. Places(<<>>, R) = {}
  BY DEF Places
<1> QED
  BY <1>1, FS_EmptySet DEF Count

LEMMA CountSingleton ==
  ASSUME NEW S, NEW e \in S, NEW R
  PROVE  Count(<<e>>, R) = IF e \in R THEN 1 ELSE 0
<1>1. <<e>> \in Seq(S) /\ DOMAIN <<e>> = {1} /\ <<e>>[1] = e
  OBVIOUS
<1>2. CASE e \in R
  <2>1. Places(<<e>>, R) = {1}
    BY <1>1, <1>2 DEF Places
  <2> QED
    BY <1>2, <2>1, FS_Singleton DEF Count
<1>3. CASE e \notin R
  <2>1. Places(<<e>>, R) = {}
    BY <1>1, <1>3 DEF Places
  <2> QED
    BY <1>3, <2>1, FS_EmptySet DEF Count
<1> QED
  BY <1>2, <1>3

\* The places of t behind s are those of t moved by the length of s.
LEMMA CountConcat ==
  ASSUME NEW S, NEW s \in Seq(S), NEW t \in Seq(S), NEW R
  PROVE  Count(s \o t, R) = Count(s, R) + Count(t, R)
<1> DEFINE n == Len(s)
           moved == {k + n : k \in Places(t, R)}
<1>1. /\ n \in Nat /\ Len(t) \in Nat
      /\ DOMAIN s = 1..n /\ DOMAIN t = 1..Len(t)
  BY LenProperties
<1>2. /\ s \o t \in Seq(S) /\ Len(s \o t) = n + Len(t)
      /\ \A i \in 1..(n + Len(t)) :
           (s \o t)[i] = IF i <= n THEN s[i] ELSE t[i - n]
  BY ConcatProperties
<1>3. DOMAIN (s \o t) = 1..(n + Len(t))
  BY <1>2, LenProperties
<1>4. Places(s \o t, R) = Places(s, R) \cup moved
  <2>1. ASSUME NEW i \in 1..n
        PROVE  i \in Places(s \o t, R) <=> i \in Places(s, R)
    BY <1>1, <1>2, <1>3 DEF Places
  <2>2. ASSUME NEW i \in (n + 1)..(n + Len(t))
        PROVE  i \in Places(s \o t, R) <=> i \in moved
    <3>1. i \in 1..(n + Len(t)) /\ ~(i <= n) /\ i - n \in 1..Len(t)
      BY <1>1
    <3>2. i \in Places(s \o t, R) <=> i - n \in Places(t, R)
      BY <1>1, <1>2, <1>3, <3>1 DEF Places
    <3>3. i \in moved <=> i - n \in Places(t, R)
      <4>1. i - n \in Places(t, R) => i \in moved
        <5>1. i = (i - n) + n
          BY <1>1
        <5> QED
          BY <5>1
      <4>2. i \in moved => i - n \in Places(t, R)
        <5>1. ASSUME NEW k \in Places(t, R), i = k + n PROVE i - n = k
          BY <1>1, <5>1 DEF Places
        <5> QED
          BY <5>1
      <4> QED
        BY <4>1, <4>2
    <3> QED
      BY <3>2, <3>3
  <2>3. Places(s \o t, R) \subseteq 1..(n + Len(t)) /\ Places(s, R) \subseteq 1..n
    BY <1>1, <1>3 DEF Places
  <2>4. moved \subseteq (n + 1)..(n + Len(t))
    BY <1>1 DEF Places
  <2>5. 1..(n + Len(t)) = 1..n \cup (n + 1)..(n + Len(t))
    BY <1>1
  <2>6. 1..n \cap (n + 1)..(n + Len(t)) = {}
    BY <1>1
  <2> HIDE DEF moved
  <2> QED
    BY <2>1, <2>2, <2>3, <2>4, <2>5, <2>6
<1>5. Places(s, R) \cap moved = {}
  BY <1>1 DEF Places
<1>6. IsFiniteSet(moved) /\ Cardinality(moved) = Count(t, R)
  <2> DEFINE f == [k \in Places(t, R) |-> k + n]
  <2>1. f \in Bijection(Places(t, R), moved)
    BY <1>1 DEF Places, Bijection, Injection, Surjection, IsInjective
  <2>2. ExistsBijection(Places(t, R), moved)
    BY <2>1 DEF ExistsBijection
  <2>3. IsFiniteSet(Places(t, R))
    BY CountType
  <2> HIDE DEF moved
  <2> QED
    BY <2>2, <2>3, FS_Bijection DEF Count
<1>7. /\ IsFiniteSet(Places(s, R)) /\ Count(s, R) \in Nat
      /\ Count(t, R) \in Nat
  BY CountType
<1> HIDE DEF moved
<1>8. Cardinality(Places(s, R) \cup moved)
        = Cardinality(Places(s, R)) + Cardinality(moved) - Cardinality({})
  BY <1>5, <1>6, <1>7, FS_Union
<1> QED
  BY <1>4, <1>6, <1>7, <1>8, FS_EmptySet DEF Count

LEMMA CountAppend ==
  ASSUME NEW S, NEW s \in Seq(S), NEW e \in S, NEW R
  PROVE  Count(Append(s, e), R) = Count(s, R) + (IF e \in R THEN 1 ELSE 0)
<1>1. Append(s, e) = s \o <<e>> /\ <<e>> \in Seq(S)
  BY AppendIsConcat
<1>2. Count(s \o <<e>>, R) = Count(s, R) + Count(<<e>>, R)
  BY <1>1, CountConcat
<1>3. Count(<<e>>, R) = IF e \in R THEN 1 ELSE 0
  BY CountSingleton
<1> QED
  BY <1>1, <1>2, <1>3

LEMMA CountPrepend ==
  ASSUME NEW S, NEW s \in Seq(S), NEW e \in S, NEW R
  PROVE  Count(<<e>> \o s, R) = Count(s, R) + (IF e \in R THEN 1 ELSE 0)
<1>1. <<e>> \in Seq(S)
  OBVIOUS
<1>2. Count(s, R) \in Nat
  BY CountType
<1>3. Count(<<e>> \o s, R) = Count(<<e>>, R) + Count(s, R)
  BY <1>1, CountConcat
<1>4. Count(<<e>>, R) = IF e \in R THEN 1 ELSE 0
  BY CountSingleton
<1> QED
  BY <1>2, <1>3, <1>4

LEMMA CountTail ==
  ASSUME NEW S, NEW s \in Seq(S), s # <<>>, NEW R
  PROVE  Count(s, R) = Count(Tail(s), R) + (IF Head(s) \in R THEN 1 ELSE 0)
<1>1. /\ Head(s) \in S /\ Tail(s) \in Seq(S) /\ Len(Tail(s)) = Len(s) - 1
      /\ \A i \in 1..Len(Tail(s)) : Tail(s)[i] = s[i + 1]
      /\ Len(s) \in Nat \ {0}
  BY HeadTailProperties, EmptySeq
<1>2. <<Head(s)>> \in Seq(S) /\ Len(<<Head(s)>>) = 1 /\ <<Head(s)>>[1] = s[1]
  BY <1>1
<1>3. /\ <<Head(s)>> \o Tail(s) \in Seq(S)
      /\ Len(<<Head(s)>> \o Tail(s)) = Len(s)
      /\ \A i \in 1..Len(s) :
           (<<Head(s)>> \o Tail(s))[i]
              = IF i <= 1 THEN <<Head(s)>>[i] ELSE Tail(s)[i - 1]
  BY <1>1, <1>2, ConcatProperties
<1>4. \A i \in 1..Len(s) : s[i] = (<<Head(s)>> \o Tail(s))[i]
  BY <1>1, <1>2, <1>3
<1>5. s = <<Head(s)>> \o Tail(s)
  BY <1>3, <1>4, SeqEqual
<1>6. Count(<<Head(s)>> \o Tail(s), R)
        = Count(Tail(s), R) + (IF Head(s) \in R THEN 1 ELSE 0)
  BY <1>1, CountPrepend
<1> QED
  BY <1>5, <1>6

\* A larger set has at least as many elements of the sequence.
LEMMA CountMonotone ==
  ASSUME NEW S, NEW s \in Seq(S), NEW Q, NEW R, S \cap Q \subseteq R
  PROVE  Count(s, Q) <= Count(s, R)
<1>1. IsFiniteSet(Places(s, R))
  BY CountType
<1>2. DOMAIN s = 1..Len(s) /\ \A k \in DOMAIN s : s[k] \in S
  BY LenProperties, ElementOfSeq
<1>3. Places(s, Q) \in SUBSET Places(s, R)
  BY <1>2 DEF Places
<1> QED
  BY <1>1, <1>3, FS_Subset DEF Count

-----------------------------------------------------------------------------
(* An element of C closes the sequence for D: no element of D is behind it. *)

Closed(s, C, D) ==
  \A j, k \in DOMAIN s : k < j /\ s[k] \in C => s[j] \notin D

LEMMA ClosedConcat ==
  ASSUME NEW S, NEW s \in Seq(S), NEW t \in Seq(S), NEW C, NEW D,
         Closed(s, C, D), Closed(t, C, D),
         Places(s, C) = {} \/ Places(t, D) = {}
  PROVE  Closed(s \o t, C, D)
<1> DEFINE n == Len(s)
<1>1. /\ n \in Nat /\ Len(t) \in Nat
      /\ DOMAIN s = 1..n /\ DOMAIN t = 1..Len(t)
  BY LenProperties
<1>2. /\ DOMAIN (s \o t) = 1..(n + Len(t))
      /\ \A i \in 1..(n + Len(t)) :
           (s \o t)[i] = IF i <= n THEN s[i] ELSE t[i - n]
  BY ConcatProperties, LenProperties
<1>3. SUFFICES ASSUME NEW j \in 1..(n + Len(t)), NEW k \in 1..(n + Len(t)),
                      k < j, (s \o t)[k] \in C
               PROVE  (s \o t)[j] \notin D
  BY <1>2 DEF Closed
<1>4. CASE j <= n
  <2>1. j \in 1..n /\ k \in 1..n
    BY <1>1, <1>3, <1>4
  <2> QED
    BY <1>1, <1>2, <1>3, <1>4, <2>1 DEF Closed
<1>5. CASE n < j /\ k <= n
  <2>1. k \in Places(s, C)
    BY <1>1, <1>2, <1>3, <1>5 DEF Places
  <2>2. j - n \in 1..Len(t)
    BY <1>1, <1>5
  <2>3. t[j - n] \notin D
    BY <1>1, <2>1, <2>2 DEF Places
  <2> QED
    BY <1>1, <1>2, <1>5, <2>3
<1>6. CASE n < k
  <2>1. j - n \in 1..Len(t) /\ k - n \in 1..Len(t) /\ k - n < j - n
        /\ ~(j <= n) /\ ~(k <= n)
    BY <1>1, <1>3, <1>6
  <2>2. t[k - n] \in C
    BY <1>2, <1>3, <2>1
  <2>3. t[j - n] \notin D
    BY <1>1, <2>1, <2>2 DEF Closed
  <2> QED
    BY <1>2, <2>1, <2>3
<1> QED
  BY <1>1, <1>4, <1>5, <1>6

LEMMA ClosedSingleton ==
  ASSUME NEW S, NEW e \in S, NEW C, NEW D
  PROVE  Closed(<<e>>, C, D)
<1>1. DOMAIN <<e>> = {1}
  OBVIOUS
<1> QED
  BY <1>1 DEF Closed

LEMMA ClosedAppend ==
  ASSUME NEW S, NEW s \in Seq(S), NEW e \in S, NEW C, NEW D,
         Closed(s, C, D), e \in D => Count(s, C) = 0
  PROVE  Closed(Append(s, e), C, D)
<1>1. Append(s, e) = s \o <<e>> /\ <<e>> \in Seq(S)
  BY AppendIsConcat
<1>2. Places(s, C) = {} \/ Places(<<e>>, D) = {}
  <2>1. CASE e \in D
    BY <2>1, CountZero
  <2>2. CASE e \notin D
    <3>1. Count(<<e>>, D) = 0
      BY <2>2, CountSingleton
    <3> QED
      BY <1>1, <3>1, CountZero
  <2> QED
    BY <2>1, <2>2
<1>3. Closed(<<e>>, C, D)
  BY ClosedSingleton
<1> QED
  BY <1>1, <1>2, <1>3, ClosedConcat

LEMMA ClosedPrepend ==
  ASSUME NEW S, NEW s \in Seq(S), NEW e \in S, NEW C, NEW D,
         Closed(s, C, D), e \in C => Count(s, D) = 0
  PROVE  Closed(<<e>> \o s, C, D)
<1>1. <<e>> \in Seq(S)
  OBVIOUS
<1>2. Places(<<e>>, C) = {} \/ Places(s, D) = {}
  <2>1. CASE e \in C
    BY <2>1, CountZero
  <2>2. CASE e \notin C
    <3>1. Count(<<e>>, C) = 0
      BY <2>2, CountSingleton
    <3> QED
      BY <1>1, <3>1, CountZero
  <2> QED
    BY <2>1, <2>2
<1>3. Closed(<<e>>, C, D)
  BY ClosedSingleton
<1> QED
  BY <1>1, <1>2, <1>3, ClosedConcat

LEMMA ClosedTail ==
  ASSUME NEW S, NEW s \in Seq(S), s # <<>>, NEW C, NEW D, Closed(s, C, D)
  PROVE  /\ Closed(Tail(s), C, D)
         /\ Head(s) \in C => Count(Tail(s), D) = 0
<1>1. /\ Tail(s) \in Seq(S) /\ Len(Tail(s)) = Len(s) - 1
      /\ \A i \in 1..Len(Tail(s)) : Tail(s)[i] = s[i + 1]
      /\ Len(s) \in Nat \ {0}
  BY HeadTailProperties, EmptySeq
<1>2. DOMAIN s = 1..Len(s) /\ DOMAIN Tail(s) = 1..Len(Tail(s)) /\ Head(s) = s[1]
  BY <1>1, LenProperties
<1>3. Closed(Tail(s), C, D)
  <2>1. SUFFICES ASSUME NEW j \in 1..Len(Tail(s)), NEW k \in 1..Len(Tail(s)),
                        k < j, Tail(s)[k] \in C
                 PROVE  Tail(s)[j] \notin D
    BY <1>2 DEF Closed
  <2>2. j + 1 \in 1..Len(s) /\ k + 1 \in 1..Len(s) /\ k + 1 < j + 1
    BY <1>1, <2>1
  <2> QED
    BY <1>1, <1>2, <2>1, <2>2 DEF Closed
<1>4. ASSUME Head(s) \in C
      PROVE  Count(Tail(s), D) = 0
  <2>1. ASSUME NEW i \in 1..Len(Tail(s))
        PROVE  Tail(s)[i] \notin D
    <3>1. i + 1 \in 1..Len(s) /\ 1 \in 1..Len(s) /\ 1 < i + 1
      BY <1>1
    <3>2. s[i + 1] \notin D
      BY <1>2, <1>4, <3>1 DEF Closed
    <3> QED
      BY <1>1, <3>2
  <2> QED
    BY <1>1, <2>1, CountNone
<1> QED
  BY <1>3, <1>4

-----------------------------------------------------------------------------
(* Induction over the numbers, for sets *)

LEMMA LeastNumber ==
  ASSUME NEW T \in SUBSET Nat, T # {}
  PROVE  \E n \in T : \A m \in T : n <= m
<1> DEFINE R == OpToRel(<, Nat)
<1>1. IsWellFoundedOn(R, Nat)
  BY NatLessThanWellFounded
<1>2. \A m, n \in Nat : <<m, n>> \in R <=> m < n
  BY DEF OpToRel
<1> HIDE DEF R
<1>3. PICK n \in T : \A m \in T : <<m, n>> \notin R
  BY <1>1, WFMin
<1>4. ASSUME NEW m \in T
      PROVE  n <= m
  <2>1. m \in Nat /\ n \in Nat /\ <<m, n>> \notin R
    BY <1>3
  <2>2. ~(m < n)
    BY <1>2, <2>1
  <2> QED
    BY <2>1, <2>2
<1> QED
  BY <1>4

LEMMA SetInduction ==
  ASSUME NEW T, 0 \in T, \A n \in Nat : n \in T => n + 1 \in T
  PROVE  Nat \subseteq T
<1> SUFFICES ASSUME Nat \ T # {} PROVE FALSE
  OBVIOUS
<1>1. PICK n \in Nat \ T : \A m \in Nat \ T : n <= m
  BY LeastNumber
<1>2. n - 1 \in Nat /\ n - 1 \in T
  BY <1>1
<1> QED
  BY <1>1, <1>2

-----------------------------------------------------------------------------
(* Functions defined by recursion over the numbers *)

\* f goes n steps from x.
GoesOn(f, x, step, n) == f[0] = x /\ \A k \in 1..n : f[k] = step[k][f[k - 1]]

LEMMA RecursionGoesOn ==
  ASSUME NEW X, NEW x \in X, NEW step \in [Nat -> [X -> X]], NEW n \in Nat
  PROVE  \E f \in [0..n -> X] : GoesOn(f, x, step, n)
<1> DEFINE T == {m \in Nat : \E f \in [0..m -> X] : GoesOn(f, x, step, m)}
<1>1. 0 \in T
  <2> DEFINE f == [k \in 0..0 |-> x]
  <2>1. f \in [0..0 -> X] /\ GoesOn(f, x, step, 0)
    BY DEF GoesOn
  <2> QED
    BY <2>1
<1>2. ASSUME NEW m \in Nat, m \in T
      PROVE  m + 1 \in T
  <2>1. PICK f \in [0..m -> X] : GoesOn(f, x, step, m)
    BY <1>2
  <2> DEFINE g == [k \in 0..(m + 1) |-> IF k = m + 1 THEN step[m + 1][f[m]] ELSE f[k]]
  <2>2. f[m] \in X /\ step[m + 1] \in [X -> X] /\ step[m + 1][f[m]] \in X
    OBVIOUS
  <2>3. g \in [0..(m + 1) -> X]
    BY <2>2
  <2>4. ASSUME NEW k \in 1..(m + 1)
        PROVE  g[k] = step[k][g[k - 1]]
    <3>1. CASE k = m + 1
      <4>1. k - 1 = m /\ g[k - 1] = f[m] /\ g[k] = step[m + 1][f[m]]
        BY <3>1
      <4> QED
        BY <3>1, <4>1
    <3>2. CASE k \in 1..m
      <4>1. k - 1 \in 0..m /\ g[k - 1] = f[k - 1] /\ g[k] = f[k]
        BY <3>2
      <4> QED
        BY <2>1, <3>2, <4>1 DEF GoesOn
    <3> QED
      BY <3>1, <3>2
  <2>5. g[0] = x
    BY <2>1 DEF GoesOn
  <2> HIDE DEF g
  <2> QED
    BY <2>3, <2>4, <2>5 DEF GoesOn
<1> HIDE DEF T
<1>3. Nat \subseteq T
  BY <1>1, <1>2, SetInduction
<1> QED
  BY <1>3 DEF T

LEMMA RecursionAgrees ==
  ASSUME NEW x, NEW step, NEW n \in Nat, NEW f, NEW g,
         GoesOn(f, x, step, n), GoesOn(g, x, step, n)
  PROVE  \A k \in 0..n : f[k] = g[k]
<1> DEFINE T == {i \in Nat : i <= n => f[i] = g[i]}
<1>1. 0 \in T
  BY DEF GoesOn
<1>2. ASSUME NEW i \in Nat, i \in T
      PROVE  i + 1 \in T
  <2> SUFFICES ASSUME i + 1 <= n PROVE f[i + 1] = g[i + 1]
    OBVIOUS
  <2>1. f[i] = g[i] /\ i + 1 \in 1..n /\ (i + 1) - 1 = i
    BY <1>2
  <2> QED
    BY <2>1 DEF GoesOn
<1> HIDE DEF T
<1>3. Nat \subseteq T
  BY <1>1, <1>2, SetInduction
<1> QED
  BY <1>3 DEF T

\* A function that is defined by a step from each number to the next exists.
LEMMA RecursionExists ==
  ASSUME NEW X, NEW x \in X, NEW step \in [Nat -> [X -> X]]
  PROVE  \E f \in [Nat -> X] :
           f[0] = x /\ \A n \in Nat \ {0} : f[n] = step[n][f[n - 1]]
<1> DEFINE Run(n) == CHOOSE f \in [0..n -> X] : GoesOn(f, x, step, n)
           F == [n \in Nat |-> Run(n)[n]]
<1>1. ASSUME NEW n \in Nat
      PROVE  Run(n) \in [0..n -> X] /\ GoesOn(Run(n), x, step, n)
  BY RecursionGoesOn
<1> HIDE DEF Run
<1>2. F \in [Nat -> X] /\ F[0] = x
  BY <1>1 DEF GoesOn
<1>3. ASSUME NEW n \in Nat \ {0}
      PROVE  F[n] = step[n][F[n - 1]]
  <2>1. n - 1 \in Nat /\ n \in 1..n /\ n - 1 \in 0..(n - 1)
    OBVIOUS
  <2>2. Run(n)[n] = step[n][Run(n)[n - 1]]
    BY <1>1, <2>1 DEF GoesOn
  <2>3. GoesOn(Run(n), x, step, n - 1)
    BY <1>1 DEF GoesOn
  <2>4. Run(n)[n - 1] = Run(n - 1)[n - 1]
    BY <1>1, <2>1, <2>3, RecursionAgrees
  <2> QED
    BY <2>1, <2>2, <2>4
<1> QED
  BY <1>2, <1>3

\* The same, up to n.
StepsOf(n, X) == [1..n -> [X -> X]]

LEMMA RecursionUpTo ==
  ASSUME NEW X, NEW x \in X, NEW n \in Nat, NEW step \in StepsOf(n, X)
  PROVE  \E f : f \in [0..n -> X] /\ GoesOn(f, x, step, n)
<1> DEFINE all == [k \in Nat |-> IF k \in 1..n THEN step[k] ELSE [y \in X |-> y]]
<1>1. all \in [Nat -> [X -> X]] /\ \A k \in 1..n : all[k] = step[k]
  BY DEF StepsOf
<1> HIDE DEF all
<1>2. PICK f \in [0..n -> X] : GoesOn(f, x, all, n)
  BY <1>1, RecursionGoesOn
<1>3. f[0] = x /\ \A k \in 1..n : f[k] = step[k][f[k - 1]]
  BY <1>1, <1>2 DEF GoesOn
<1> QED
  BY <1>3 DEF GoesOn

=============================================================================
