----------------------------- MODULE DataLemmas -----------------------------
(***************************************************************************)
(* What the proofs need of numbers and sequences.  Induction is in terms   *)
(* of sets: the induction theorems of the library take an operator, which  *)
(* none of the provers can be given here; a set of numbers they can, that  *)
(* of the numbers with the property.                                       *)
(***************************************************************************)
EXTENDS Integers, FiniteSetsExt, WellFoundedInduction, SequenceTheorems, FiniteSetTheorems,
        TLAPS

\* A set of naturals that is not empty has a least one.
LEMMA LeastNat ==
    ASSUME NEW T \in SUBSET Nat, T # {}
    PROVE  \E n \in T : \A m \in T : n <= m
<1>. DEFINE R == OpToRel(<, Nat)
<1>1. IsWellFoundedOn(R, Nat)
  BY NatLessThanWellFounded
<1>2. \A x, y \in Nat : x < y => <<x, y>> \in R
  BY DEF OpToRel
<1>. HIDE DEF R
<1>3. PICK n \in T : \A m \in T : ~ (<<m, n>> \in R)
  BY <1>1, WFMin, Zenon
<1>4. \A m \in T : ~ (m < n)
  BY <1>2, <1>3, Zenon
<1>. QED BY <1>4

\* The minimum of a set of naturals that is not empty.
LEMMA MinNat ==
    ASSUME NEW T \in SUBSET Nat, T # {}
    PROVE  Min(T) \in T /\ \A m \in T : Min(T) <= m
BY LeastNat, Zenon DEF Min

\* The least member is the minimum.
LEMMA MinIs ==
    ASSUME NEW T \in SUBSET Nat, NEW n \in T, \A m \in T : n <= m
    PROVE  Min(T) = n
<1>. DEFINE k == Min(T)
<1>1. k \in T /\ k <= n
  BY MinNat
<1>. HIDE DEF k
<1>2. k = n
  BY <1>1
<1>. QED BY <1>2 DEF k

\* A set with 0 and the successor of each member has every natural.
LEMMA NatInduct ==
    ASSUME NEW T, 0 \in T, \A n \in Nat : n \in T => n + 1 \in T
    PROVE  Nat \subseteq T
<1>. SUFFICES ASSUME Nat \ T # {} PROVE FALSE
  OBVIOUS
<1>1. PICK n \in Nat \ T : \A m \in Nat \ T : n <= m
  BY LeastNat
<1>2. n # 0 /\ n - 1 \in Nat
  BY <1>1
<1>3. n - 1 \in T
  BY <1>1, <1>2
<1>. QED BY <1>1, <1>2, <1>3

\* f starts with base and gets from each value to the next by a step.
Iterates(f, N, base, step) ==
    f[0] = base /\ \A i \in 1 .. N : f[i] = step[i][f[i - 1]]

LEMMA Iterated ==
    ASSUME NEW N \in Nat, NEW S, NEW base \in S, NEW step \in [1 .. N -> [S -> S]]
    PROVE  \E f \in [0 .. N -> S] : Iterates(f, N, base, step)
<1>. DEFINE Up(n, f) == f[0] = base /\ \A i \in 1 .. n : f[i] = step[i][f[i - 1]]
            T == {n \in Nat : n <= N => \E f \in [0 .. n -> S] : Up(n, f)}
<1>1. 0 \in T
  <2>. DEFINE f == [i \in 0 .. 0 |-> base]
  <2>1. f \in [0 .. 0 -> S] /\ Up(0, f)
    OBVIOUS
  <2>. QED BY <2>1
<1>2. ASSUME NEW n \in Nat, n \in T PROVE n + 1 \in T
  <2>1. SUFFICES ASSUME n + 1 <= N PROVE \E f \in [0 .. n + 1 -> S] : Up(n + 1, f)
    OBVIOUS
  <2>2. PICK g \in [0 .. n -> S] : Up(n, g)
    BY <1>2, <2>1
  <2>3. PICK s \in S : s = step[n + 1][g[n]]
    <3>1. n + 1 \in 1 .. N /\ g[n] \in S
      BY <2>1
    <3>. QED BY <3>1
  <2>. DEFINE f == [i \in 0 .. n + 1 |-> IF i = n + 1 THEN s ELSE g[i]]
  <2>4. f \in [0 .. n + 1 -> S]
    OBVIOUS
  <2>5. f[n + 1] = s /\ \A i \in 0 .. n : f[i] = g[i]
    OBVIOUS
  <2>. HIDE DEF f
  <2>6. ASSUME NEW i \in 1 .. n + 1 PROVE f[i] = step[i][f[i - 1]]
    <3>1. CASE i = n + 1
      BY <2>3, <2>5, <3>1
    <3>2. CASE i # n + 1
      <4>1. i \in 1 .. n /\ i \in 0 .. n /\ i - 1 \in 0 .. n
        BY <3>2
      <4>2. g[i] = step[i][g[i - 1]]
        BY <2>2, <4>1
      <4>. QED BY <2>5, <4>1, <4>2
    <3>. QED BY <3>1, <3>2
  <2>7. f[0] = base
    BY <2>2, <2>5
  <2>. QED BY <2>4, <2>6, <2>7
<1>. HIDE DEF T
<1>3. N \in T
  BY <1>1, <1>2, NatInduct, Zenon
<1>. QED BY <1>3 DEF T, Iterates
-----------------------------------------------------------------------------
(* Counting round and round: what % does to the next number. *)

\* Division has one remainder.
LEMMA Remainder ==
    ASSUME NEW n \in Nat \ {0},
           NEW q \in Nat, NEW r \in 0 .. n - 1, NEW p \in Nat, NEW o \in 0 .. n - 1,
           n * q + r = n * p + o
    PROVE  r = o
<1>1. n * p \in Nat /\ n * q \in Nat
  OBVIOUS
<1>2. CASE q < p
  <2>1. n * p >= n * (q + 1)
    BY <1>2
  <2>2. n * (q + 1) = n * q + n
    OBVIOUS
  <2>. QED BY <1>1, <2>1, <2>2
<1>3. CASE q > p
  <2>1. n * q >= n * (p + 1)
    BY <1>3
  <2>2. n * (p + 1) = n * p + n
    OBVIOUS
  <2>. QED BY <1>1, <2>1, <2>2
<1>4. CASE q = p
  BY <1>1, <1>4
<1>. QED BY <1>2, <1>3, <1>4

LEMMA Division ==
    ASSUME NEW n \in Nat \ {0}, NEW k \in Nat
    PROVE  /\ k \div n \in Nat /\ k % n \in 0 .. n - 1 /\ n * (k \div n) + (k % n) = k
           /\ k < n => k \div n = 0 /\ k % n = k
<1>1. k \div n \in Nat /\ k % n \in 0 .. n - 1
  OBVIOUS
<1>3. n * (k \div n) + (k % n) = k
  OBVIOUS
<1>2. ASSUME k < n PROVE k \div n = 0 /\ k % n = k
  <2>1. n * 0 + k = k /\ k \in 0 .. n - 1
    BY <1>2
  <2>2. k % n = k
    BY <1>1, <1>3, <2>1, Remainder
  <2>3. n * (k \div n) = 0
    BY <1>1, <1>3, <2>2
  <2>4. \A q \in Nat : n * q = 0 => q = 0
    OBVIOUS
  <2>. QED BY <1>1, <2>2, <2>3, <2>4
<1>. QED BY <1>1, <1>2, <1>3

\* The remainder of the next number is the next remainder, or 0.
LEMMA ModSuccessor ==
    ASSUME NEW n \in Nat \ {0}, NEW k \in Nat
    PROVE  /\ k % n \in 0 .. n - 1
           /\ (k + 1) % n = IF k % n = n - 1 THEN 0 ELSE (k % n) + 1
           /\ 0 % n = 0
<1>. DEFINE q == k \div n        r == k % n
            p == (k + 1) \div n  o == (k + 1) % n
<1>1. /\ q \in Nat /\ r \in 0 .. n - 1 /\ n * q + r = k
      /\ p \in Nat /\ o \in 0 .. n - 1 /\ n * p + o = k + 1
      /\ 0 % n = 0
  OBVIOUS
<1>. HIDE DEF q, r, p, o
<1>2. CASE r = n - 1
  <2>1. n * (q + 1) = n * q + n /\ n * q \in Nat
    BY <1>1
  <2>2. n * p + o = n * (q + 1) + 0
    BY <1>1, <1>2, <2>1
  <2>3. q + 1 \in Nat /\ 0 \in 0 .. n - 1
    BY <1>1
  <2>4. o = 0
    BY <1>1, <2>2, <2>3, Remainder
  <2>. QED BY <1>1, <1>2, <2>4 DEF r, o
<1>3. CASE r # n - 1
  <2>1. r + 1 \in 0 .. n - 1 /\ n * q \in Nat
    BY <1>1, <1>3
  <2>2. n * p + o = n * q + (r + 1)
    BY <1>1, <2>1
  <2>3. o = r + 1
    BY <1>1, <2>1, <2>2, Remainder
  <2>. QED BY <1>1, <1>3, <2>3 DEF r, o
<1>. QED BY <1>2, <1>3
-----------------------------------------------------------------------------
(* Sequences that grow, shrink and turn, place by place. *)

\* The place after the i-th of n, round the end.
After(i, n) == IF i = n THEN 1 ELSE i + 1

\* A sequence of n with one more at its end, without the i-th, and turned by one.
Pushed(n, s, e)  == [i \in 1 .. n + 1 |-> IF i = n + 1 THEN e ELSE s[i]]
Removed(n, s, i) == [j \in 1 .. n - 1 |-> IF j < i THEN s[j] ELSE s[j + 1]]
Rotated(n, s)    == [i \in 1 .. n |-> s[After(i, n)]]

\* A function on 1 .. n is a sequence.
LEMMA FunctionIsSeq ==
    ASSUME NEW S, NEW n \in Nat, NEW s \in [1 .. n -> S]
    PROVE  s \in Seq(S) /\ Len(s) = n
<1>1. s \in Seq(S)
  BY SeqDef
<1>. QED BY <1>1, LenProperties

\* Pushed is Append,
LEMMA PushedIsAppend ==
    ASSUME NEW S, NEW n \in Nat, NEW s \in [1 .. n -> S], NEW e \in S
    PROVE  Append(s, e) = Pushed(n, s, e)
<1>1. s \in Seq(S) /\ Len(s) = n
  BY FunctionIsSeq
<1>2. Pushed(n, s, e) \in [1 .. n + 1 -> S]
  BY DEF Pushed
<1>3. Pushed(n, s, e) \in Seq(S) /\ Len(Pushed(n, s, e)) = n + 1
  BY <1>2, FunctionIsSeq
<1>4. /\ Append(s, e) \in Seq(S) /\ Len(Append(s, e)) = n + 1
      /\ \A i \in 1 .. n : Append(s, e)[i] = s[i]
      /\ Append(s, e)[n + 1] = e
  BY <1>1, AppendProperties
<1>5. \A i \in 1 .. n + 1 : Append(s, e)[i] = Pushed(n, s, e)[i]
  BY <1>4 DEF Pushed
<1>. QED BY <1>3, <1>4, <1>5, SeqEqual

\* Removed is Without,
LEMMA RemovedIsWithout ==
    ASSUME NEW S, NEW n \in Nat, NEW s \in [1 .. n -> S], NEW i \in 1 .. n
    PROVE  SubSeq(s, 1, i - 1) \o SubSeq(s, i + 1, Len(s)) = Removed(n, s, i)
<1>. DEFINE a == SubSeq(s, 1, i - 1)
            b == SubSeq(s, i + 1, n)
            r == Removed(n, s, i)
<1>1. s \in Seq(S) /\ Len(s) = n
  BY FunctionIsSeq
<1>2. /\ a \in Seq(S) /\ Len(a) = i - 1 /\ \A j \in 1 .. i - 1 : a[j] = s[j]
      /\ b \in Seq(S) /\ Len(b) = n - i /\ \A j \in 1 .. n - i : b[j] = s[i + j]
  OBVIOUS
<1>3. r \in [1 .. n - 1 -> S] /\ n - 1 \in Nat
  BY DEF Removed
<1>4. r \in Seq(S) /\ Len(r) = n - 1
  BY <1>3, FunctionIsSeq
<1>. HIDE DEF a, b
<1>5. /\ a \o b \in Seq(S) /\ Len(a \o b) = n - 1
      /\ \A j \in 1 .. n - 1 : (a \o b)[j] = IF j <= i - 1 THEN a[j] ELSE b[j - (i - 1)]
  BY <1>2, ConcatProperties
<1>6. \A j \in 1 .. n - 1 : (a \o b)[j] = r[j]
  BY <1>2, <1>5 DEF Removed
<1>. HIDE DEF r
<1>7. a \o b = r
  BY <1>4, <1>5, <1>6, SeqEqual
<1>. QED BY <1>1, <1>7 DEF a, b, r

\* and without the first it is Tail, which with the head at its end is Rotated.
LEMMA TailIsRemoved ==
    ASSUME NEW S, NEW n \in Nat \ {0}, NEW s \in [1 .. n -> S]
    PROVE  /\ Tail(s) = Removed(n, s, 1)
           /\ Tail(s) \o <<Head(s)>> = Rotated(n, s)
<1>1. s \in Seq(S) /\ Len(s) = n /\ s # <<>>
  BY FunctionIsSeq, EmptySeq
<1>2. /\ Head(s) = s[1] /\ Head(s) \in S /\ Tail(s) \in Seq(S) /\ Len(Tail(s)) = n - 1
      /\ \A i \in 1 .. n - 1 : Tail(s)[i] = s[i + 1]
  BY <1>1, HeadTailProperties
<1>3. Removed(n, s, 1) \in [1 .. n - 1 -> S] /\ n - 1 \in Nat
  BY DEF Removed
<1>4. Removed(n, s, 1) \in Seq(S) /\ Len(Removed(n, s, 1)) = n - 1
  BY <1>3, FunctionIsSeq
<1>5. \A i \in 1 .. n - 1 : Tail(s)[i] = Removed(n, s, 1)[i]
  BY <1>2 DEF Removed
<1>6. Tail(s) = Removed(n, s, 1)
  BY <1>2, <1>4, <1>5, SeqEqual
<1>7. Rotated(n, s) \in [1 .. n -> S]
  BY DEF Rotated, After
<1>8. Rotated(n, s) \in Seq(S) /\ Len(Rotated(n, s)) = n
  BY <1>7, FunctionIsSeq
<1>. DEFINE u == <<Head(s)>>
            v == Tail(s)
<1>9. u \in Seq(S) /\ Len(u) = 1 /\ u[1] = s[1]
  BY <1>2
<1>10. v \in Seq(S) /\ Len(v) = n - 1 /\ \A i \in 1 .. n - 1 : v[i] = s[i + 1]
  BY <1>2
<1>. HIDE DEF u, v
<1>11. /\ v \o u \in Seq(S) /\ Len(v \o u) = n
       /\ \A i \in 1 .. n : (v \o u)[i] = IF i <= n - 1 THEN v[i] ELSE u[i - (n - 1)]
  <2>1. /\ v \o u \in Seq(S) /\ Len(v \o u) = Len(v) + Len(u)
        /\ \A i \in 1 .. Len(v) + Len(u) :
              (v \o u)[i] = IF i <= Len(v) THEN v[i] ELSE u[i - Len(v)]
    BY <1>9, <1>10, ConcatProperties, Zenon
  <2>2. Len(v) + Len(u) = n
    BY <1>9, <1>10
  <2>. QED BY <1>10, <2>1, <2>2, Zenon
<1>12. \A i \in 1 .. n : (v \o u)[i] = Rotated(n, s)[i]
  BY <1>9, <1>10, <1>11 DEF Rotated, After
<1>13. v \o u = Rotated(n, s)
  BY <1>8, <1>11, <1>12, SeqEqual
<1>. QED BY <1>6, <1>13 DEF u, v
-----------------------------------------------------------------------------
(* How often something is in a sequence. *)

Places(n, s, x) == {i \in 1 .. n : s[i] = x}
Count(n, s, x)  == Cardinality(Places(n, s, x))

LEMMA CountType ==
    ASSUME NEW n \in Nat, NEW s, NEW x
    PROVE  IsFiniteSet(Places(n, s, x)) /\ Count(n, s, x) \in Nat
<1>1. IsFiniteSet(1 .. n)
  <2>1. 1 \in Int /\ n \in Int
    OBVIOUS
  <2>. QED BY <2>1, FS_Interval
<1>2. Places(n, s, x) \in SUBSET (1 .. n)
  BY DEF Places
<1>3. IsFiniteSet(Places(n, s, x))
  BY <1>1, <1>2, FS_Subset
<1>. QED BY <1>3, FS_CardinalityType DEF Count

LEMMA CountNone ==
    ASSUME NEW s, NEW x
    PROVE  Count(0, s, x) = 0
<1>1. Places(0, s, x) = {}
  BY DEF Places
<1>. QED BY <1>1, FS_EmptySet DEF Count

\* One more at the end counts when it is x.
LEMMA CountOneMore ==
    ASSUME NEW n \in Nat, NEW s, NEW r, NEW x, \A i \in 1 .. n : r[i] = s[i]
    PROVE  Count(n + 1, r, x) = IF r[n + 1] = x THEN Count(n, s, x) + 1 ELSE Count(n, s, x)
<1>1. IsFiniteSet(Places(n, s, x)) /\ n + 1 \notin Places(n, s, x)
  <2>1. n + 1 \notin 1 .. n
    OBVIOUS
  <2>. QED BY <2>1, CountType, Zenon DEF Places
<1>2. CASE r[n + 1] = x
  <2>1. Places(n + 1, r, x) = Places(n, s, x) \cup {n + 1}
    BY <1>2 DEF Places
  <2>2. Cardinality(Places(n, s, x) \cup {n + 1}) = Cardinality(Places(n, s, x)) + 1
    BY <1>1, FS_AddElement
  <2>. QED BY <1>2, <2>1, <2>2 DEF Count
<1>3. CASE r[n + 1] # x
  <2>1. Places(n + 1, r, x) = Places(n, s, x)
    BY <1>3 DEF Places
  <2>. QED BY <1>3, <2>1 DEF Count
<1>. QED BY <1>2, <1>3

\* Without the i-th there is one less when that is x.
LEMMA CountOneLess ==
    ASSUME NEW n \in Nat, NEW s, NEW x, NEW i \in 1 .. n
    PROVE  Count(n - 1, Removed(n, s, i), x)
              = IF s[i] = x THEN Count(n, s, x) - 1 ELSE Count(n, s, x)
<1>. DEFINE A == Places(n, s, x)
            B == Places(n - 1, Removed(n, s, i), x)
            f == [j \in A \ {i} |-> IF j < i THEN j ELSE j - 1]
<1>1. IsFiniteSet(A)
  BY CountType
<1>2. /\ IsFiniteSet(A \ {i})
      /\ Cardinality(A \ {i}) = IF i \in A THEN Cardinality(A) - 1 ELSE Cardinality(A)
  BY <1>1, FS_RemoveElement
<1>3. i \in A <=> s[i] = x
  BY DEF Places
<1>4. ASSUME NEW j \in A \ {i} PROVE f[j] \in B
  <2>1. j \in 1 .. n /\ j # i /\ s[j] = x
    BY DEF Places
  <2>2. CASE j < i
    <3>1. j \in 1 .. n - 1 /\ Removed(n, s, i)[j] = s[j]
      BY <2>1, <2>2 DEF Removed
    <3>. QED BY <2>1, <2>2, <3>1 DEF Places
  <2>3. CASE ~(j < i)
    <3>1. j - 1 \in 1 .. n - 1 /\ Removed(n, s, i)[j - 1] = s[j]
      BY <2>1, <2>3 DEF Removed
    <3>. QED BY <2>1, <2>3, <3>1 DEF Places
  <2>. QED BY <2>2, <2>3
<1>5. ASSUME NEW k \in B PROVE \E j \in A \ {i} : f[j] = k
  <2>1. k \in 1 .. n - 1 /\ Removed(n, s, i)[k] = x
    BY DEF Places
  <2>2. CASE k < i
    <3>1. k \in A \ {i}
      BY <2>1, <2>2 DEF Places, Removed
    <3>2. f[k] = k
      BY <2>2, <3>1
    <3>. QED BY <3>1, <3>2
  <2>3. CASE ~(k < i)
    <3>1. k + 1 \in A \ {i}
      BY <2>1, <2>3 DEF Places, Removed
    <3>2. f[k + 1] = k
      BY <2>1, <2>3, <3>1
    <3>. QED BY <3>1, <3>2
  <2>. QED BY <2>2, <2>3
<1>6. ASSUME NEW j \in A \ {i}, NEW k \in A \ {i}, f[j] = f[k] PROVE j = k
  <2>1. j \in 1 .. n /\ k \in 1 .. n /\ j # i /\ k # i
    BY DEF Places
  <2>. QED BY <1>6, <2>1
<1>. HIDE DEF A, B
<1>7. f \in [A \ {i} -> B]
  BY <1>4
<1>. HIDE DEF f
<1>8. f \in Surjection(A \ {i}, B)
  BY <1>5, <1>7 DEF Surjection
<1>9. f \in Injection(A \ {i}, B)
  BY <1>6, <1>7 DEF Injection, IsInjective
<1>10. Cardinality(B) = Cardinality(A \ {i})
  BY <1>2, <1>8, <1>9, FS_Surjection
<1>. QED BY <1>2, <1>3, <1>10 DEF Count, A, B
=============================================================================
