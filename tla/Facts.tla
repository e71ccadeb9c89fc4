------------------------------- MODULE Facts -------------------------------
(* Facts about sums and sequences that proofs of several modules need and   *)
(* the theorem libraries lack.                                              *)
EXTENDS Integers, FiniteSets, FiniteSetsExt, SequencesExt, FiniteSetTheorems, SequenceTheorems,
        WellFoundedInduction, Filters, TLAPS

(* The least element of a set of natural numbers. *)
LEMMA MinIs ==
  ASSUME NEW S \in SUBSET Nat, S # {}
  PROVE  Min(S) \in S /\ \A n \in S : Min(S) <= n
<1>1. PICK k \in S : \A l \in S : ~(<<l, k>> \in OpToRel(<, Nat))
  BY NatLessThanWellFounded, WFMin
<1>2. \A l \in S : ~(l < k)
  BY <1>1 DEF OpToRel
<1>3. \A l \in S : k <= l
  BY <1>2
<1> QED BY <1>3 DEF Min

LEMMA MaxIs ==
  ASSUME NEW b \in Nat, NEW S \in SUBSET (0..b), S # {}
  PROVE  Max(S) \in S /\ \A n \in S : n <= Max(S)
<1> DEFINE R == {b - n : n \in S}
<1>1. R \in SUBSET Nat /\ R # {}
  <2>1. \A n \in S : b - n \in Nat
    OBVIOUS
  <2>2. \E n \in S : b - n \in R
    OBVIOUS
  <2> QED BY <2>1, <2>2
<1>2. PICK k \in R : \A l \in R : ~(<<l, k>> \in OpToRel(<, Nat))
  BY <1>1, NatLessThanWellFounded, WFMin
<1>3. \A l \in R : ~(l < k)
  BY <1>1, <1>2 DEF OpToRel
<1>4. PICK m \in S : k = b - m
  BY <1>2
<1>5. ASSUME NEW n \in S
      PROVE  m >= n
  <2>1. ~(b - n < b - m)
    BY <1>3, <1>4
  <2>2. n \in Nat /\ m \in Nat
    OBVIOUS
  <2> QED BY <2>1, <2>2
<1>6. Max(S) \in S /\ \A n \in S : Max(S) >= n
  BY <1>5 DEF Max
<1>7. \A n \in S : n <= Max(S)
  BY <1>6
<1> QED BY <1>6, <1>7

Once(s) == \A i, j \in 1..Len(s) : s[i] = s[j] => i = j

(* What is in a sequence once can be counted. *)
LEMMA OnceCounts ==
  ASSUME NEW S, NEW s \in Seq(S), Once(s)
  PROVE  Len(s) = Cardinality(ToSet(s))
<1>1. Len(s) \in Nat /\ DOMAIN s = 1..Len(s) /\ s \in [1..Len(s) -> ToSet(s)]
  BY LenProperties DEF ToSet
<1>2. s \in Bijection(1..Len(s), ToSet(s))
  <2>1. s \in Injection(1..Len(s), ToSet(s))
    <3>1. \A i, j \in 1..Len(s) : s[i] = s[j] => i = j
      BY DEF Once
    <3>2. IsInjective(s)
      BY <1>1, <3>1 DEF IsInjective
    <3> QED BY <1>1, <3>2 DEF Injection
  <2>2. s \in Surjection(1..Len(s), ToSet(s))
    <3>1. \A x \in ToSet(s) : \E i \in 1..Len(s) : s[i] = x
      BY <1>1 DEF ToSet
    <3> QED BY <1>1, <3>1 DEF Surjection
  <2> QED BY <2>1, <2>2 DEF Bijection
<1>3. IsFiniteSet(1..Len(s)) /\ Cardinality(1..Len(s)) = Len(s)
  BY <1>1, FS_Interval
<1>4. ExistsBijection(1..Len(s), ToSet(s))
  BY <1>2 DEF ExistsBijection
<1> QED BY <1>3, <1>4, FS_Bijection

LEMMA OnceAppended ==
  ASSUME NEW S, NEW s \in Seq(S), NEW e \in S, Once(s), e \notin ToSet(s)
  PROVE  Append(s, e) \in Seq(S) /\ Once(Append(s, e)) /\ ToSet(Append(s, e)) = ToSet(s) \cup {e}
<1>1. Append(s, e) \in Seq(S) /\ Len(Append(s, e)) = Len(s) + 1 /\ Append(s, e)[Len(s) + 1] = e
      /\ \A i \in 1..Len(s) : Append(s, e)[i] = s[i]
  BY AppendProperties
<1>2. Len(s) \in Nat /\ DOMAIN s = 1..Len(s) /\ DOMAIN Append(s, e) = 1..(Len(s) + 1)
  BY <1>1, LenProperties
<1>3. 1..(Len(s) + 1) = 1..Len(s) \cup {Len(s) + 1}
  BY <1>2
<1>4. \A i \in 1..Len(s) : s[i] # e
  BY <1>2 DEF ToSet
<1>5. Once(Append(s, e))
  BY <1>1, <1>3, <1>4 DEF Once
<1> QED BY <1>1, <1>2, <1>3, <1>5 DEF ToSet

(* A sequence without its element at place k.                              *)
LEMMA RemovedIs ==
  ASSUME NEW S, NEW s \in Seq(S), NEW k \in 1..Len(s)
  PROVE  /\ RemoveAt(s, k) \in Seq(S) /\ Len(RemoveAt(s, k)) = Len(s) - 1
         /\ \A i \in 1..(Len(s) - 1) : RemoveAt(s, k)[i] = s[IF i < k THEN i ELSE i + 1]
<1> DEFINE n == Len(s)
           r == RemoveAt(s, k)
<1>1. n \in Nat /\ DOMAIN s = 1..n /\ k \in 1..n
  BY LenProperties
<1> DEFINE l == SubSeq(s, 1, k - 1)
           m == SubSeq(s, k + 1, n)
<1>2. l \in Seq(S) /\ Len(l) = k - 1 /\ \A i \in 1..(k - 1) : l[i] = s[i]
  BY <1>1, SubSeqProperties
<1>3. m \in Seq(S) /\ Len(m) = n - k /\ \A i \in 1..(n - k) : m[i] = s[i + k]
  <2>1. Len(s) \in Nat /\ k \in Nat
    OBVIOUS
  <2> QED BY <2>1
<1>4. /\ r \in Seq(S) /\ Len(r) = n - 1
      /\ \A i \in 1..(n - 1) : r[i] = IF i <= k - 1 THEN l[i] ELSE m[i - (k - 1)]
  <2>1. r = l \o m
    BY DEF RemoveAt
  <2> HIDE DEF r, l, m
  <2>2. r \in Seq(S) /\ Len(r) = Len(l) + Len(m)
        /\ \A i \in 1..(Len(l) + Len(m)) : r[i] = IF i <= Len(l) THEN l[i] ELSE m[i - Len(l)]
    BY <1>2, <1>3, <2>1, ConcatProperties
  <2>3. Len(l) + Len(m) = n - 1
    BY <1>1, <1>2, <1>3
  <2> QED BY <1>2, <2>2, <2>3
<1>5. ASSUME NEW i \in 1..(n - 1)
      PROVE  r[i] = s[IF i < k THEN i ELSE i + 1]
  <2>1. CASE i < k
    <3>1. i \in 1..(k - 1) /\ i <= k - 1
      BY <1>1, <2>1
    <3> QED BY <2>1, <3>1, <1>2, <1>4
  <2>2. CASE ~(i < k)
    <3>1. i - (k - 1) \in 1..(n - k) /\ ~(i <= k - 1) /\ (i - (k - 1)) + k = i + 1
      BY <1>1, <2>2
    <3> QED BY <2>2, <3>1, <1>3, <1>4
  <2> QED BY <2>1, <2>2
<1> HIDE DEF r
<1> QED BY <1>4, <1>5 DEF r

(* Taking out the element at a place. *)
LEMMA OnceWithout ==
  ASSUME NEW S, NEW s \in Seq(S), Once(s), NEW k \in 1..Len(s)
  PROVE  RemoveAt(s, k) \in Seq(S) /\ Once(RemoveAt(s, k)) /\ ToSet(RemoveAt(s, k)) = ToSet(s) \ {s[k]}
<1> DEFINE n == Len(s)
           r == RemoveAt(s, k)
           From(i) == IF i < k THEN i ELSE i + 1
<1>1. n \in Nat /\ DOMAIN s = 1..n /\ k \in 1..n
  BY LenProperties
<1>4. /\ r \in Seq(S) /\ Len(r) = n - 1
      /\ \A i \in 1..(n - 1) : r[i] = s[From(i)]
  BY RemovedIs
<1>5. ASSUME NEW i \in 1..(n - 1)
      PROVE  From(i) \in 1..n /\ From(i) # k /\ r[i] = s[From(i)]
  <2>1. From(i) \in 1..n /\ From(i) # k
    BY <1>1
  <2> QED BY <1>4, <2>1
<1>6. ASSUME NEW j \in 1..n, j # k
      PROVE  \E i \in 1..(n - 1) : From(i) = j
  <2>1. CASE j < k
    <3>1. j \in 1..(n - 1) /\ From(j) = j
      BY <1>1, <2>1
    <3> QED BY <3>1
  <2>2. CASE ~(j < k)
    <3>1. j - 1 \in 1..(n - 1) /\ From(j - 1) = j
      BY <1>1, <1>6, <2>2
    <3> QED BY <3>1
  <2> QED BY <2>1, <2>2
<1>7. \A i, j \in 1..(n - 1) : From(i) = From(j) => i = j
  BY <1>1
<1>8. DOMAIN r = 1..(n - 1)
  BY <1>1, <1>4, LenProperties
<1> HIDE DEF r, From
<1>9. Once(r)
  BY <1>4, <1>5, <1>7 DEF Once
<1>10. ToSet(r) = {r[i] : i \in 1..(n - 1)} /\ ToSet(s) = {s[j] : j \in 1..n}
  BY <1>1, <1>8 DEF ToSet
<1>11. \A j \in 1..n : s[j] = s[k] => j = k
  BY <1>1 DEF Once
<1>12. ToSet(r) \subseteq ToSet(s) \ {s[k]}
  BY <1>5, <1>10, <1>11
<1>13. ASSUME NEW x \in ToSet(s), x # s[k]
       PROVE  x \in ToSet(r)
  <2>1. PICK j \in 1..n : x = s[j]
    BY <1>10
  <2>2. PICK i \in 1..(n - 1) : From(i) = j
    BY <1>6, <1>13, <2>1
  <2> QED BY <1>5, <1>10, <2>1, <2>2
<1> QED BY <1>4, <1>9, <1>12, <1>13 DEF r

LEMMA FirstIs ==
  ASSUME NEW S, NEW s \in Seq(S), NEW e \in ToSet(s)
  PROVE  SelectInSeq(s, LAMBDA v : v = e) \in 1..Len(s) /\ s[SelectInSeq(s, LAMBDA v : v = e)] = e
<1> DEFINE I == {i \in 1..Len(s) : s[i] = e}
<1>1. I \in SUBSET Nat /\ I # {}
  BY LenProperties DEF ToSet
<1>2. SelectInSeq(s, LAMBDA v : v = e) = Min(I)
  BY <1>1 DEF SelectInSeq
<1>3. Min(I) \in I
  BY <1>1, MinIs
<1> QED BY <1>2, <1>3

(* Removing an element. *)
LEMMA OnceRemoved ==
  ASSUME NEW S, NEW s \in Seq(S), Once(s), NEW e
  PROVE  RemoveFirst(s, e) \in Seq(S) /\ Once(RemoveFirst(s, e)) /\ ToSet(RemoveFirst(s, e)) = ToSet(s) \ {e}
<1>1. DOMAIN s = 1..Len(s)
  BY LenProperties
<1>2. CASE e \in ToSet(s)
  <2> DEFINE k == SelectInSeq(s, LAMBDA v : v = e)
  <2>1. k \in 1..Len(s) /\ s[k] = e
    BY <1>2, FirstIs
  <2>2. RemoveFirst(s, e) = RemoveAt(s, k)
    BY <2>1 DEF RemoveFirst
  <2> HIDE DEF k
  <2> QED BY <2>1, <2>2, OnceWithout
<1>3. CASE e \notin ToSet(s)
  <2>1. RemoveFirst(s, e) = s
    BY <1>1, <1>3 DEF RemoveFirst, ToSet
  <2> QED BY <1>3, <2>1
<1> QED BY <1>2, <1>3

(* And with an element more at place k.                                    *)
LEMMA InsertedIs ==
  ASSUME NEW S, NEW s \in Seq(S), NEW k \in 1..(Len(s) + 1), NEW e \in S
  PROVE  /\ InsertAt(s, k, e) \in Seq(S) /\ Len(InsertAt(s, k, e)) = Len(s) + 1
         /\ InsertAt(s, k, e)[k] = e /\ RemoveAt(InsertAt(s, k, e), k) = s
<1> DEFINE n == Len(s)
           t == InsertAt(s, k, e)
           l == SubSeq(s, 1, k - 1)
           m == SubSeq(s, k, n)
<1>1. n \in Nat /\ DOMAIN s = 1..n /\ k \in 1..(n + 1)
  BY LenProperties
<1>2. l \in Seq(S) /\ Len(l) = k - 1 /\ \A i \in 1..(k - 1) : l[i] = s[i]
  BY <1>1, SubSeqProperties
<1>3. m \in Seq(S) /\ Len(m) = n - k + 1 /\ \A i \in 1..(n - k + 1) : m[i] = s[i + k - 1]
  <2>1. Len(s) \in Nat /\ k \in Nat
    OBVIOUS
  <2> QED BY <2>1
<1>4. <<e>> \in Seq(S) /\ Len(<<e>>) = 1 /\ <<e>>[1] = e
  OBVIOUS
<1>5. t = l \o <<e>> \o m
  BY DEF InsertAt
<1> HIDE DEF t, l, m
<1> DEFINE a == l \o <<e>>
<1>6. a \in Seq(S) /\ Len(a) = k /\ a[k] = e /\ \A i \in 1..(k - 1) : a[i] = s[i]
  <2>1. a \in Seq(S) /\ Len(a) = Len(l) + 1
        /\ \A i \in 1..(Len(l) + 1) : a[i] = IF i <= Len(l) THEN l[i] ELSE <<e>>[i - Len(l)]
    BY <1>2, <1>4, ConcatProperties
  <2>2. Len(l) + 1 = k /\ k \in 1..k /\ ~(k <= Len(l)) /\ k - Len(l) = 1
    BY <1>1, <1>2
  <2>3. \A i \in 1..(k - 1) : i \in 1..k /\ i <= Len(l)
    BY <1>1, <1>2
  <2> QED BY <1>2, <1>4, <2>1, <2>2, <2>3
<1> HIDE DEF a
<1>7. /\ t \in Seq(S) /\ Len(t) = n + 1
      /\ \A i \in 1..(n + 1) : t[i] = IF i <= k THEN a[i] ELSE m[i - k]
  <2> t = a \o m
    BY <1>5 DEF a
  <2>1. t \in Seq(S) /\ Len(t) = Len(a) + Len(m)
        /\ \A i \in 1..(Len(a) + Len(m)) : t[i] = IF i <= Len(a) THEN a[i] ELSE m[i - Len(a)]
    BY <1>3, <1>6, ConcatProperties
  <2>2. Len(a) + Len(m) = n + 1 /\ Len(a) = k
    BY <1>1, <1>3, <1>6
  <2> QED BY <2>1, <2>2
<1>8. t[k] = e
  <2>1. k <= k
    BY <1>1
  <2> QED BY <1>6, <1>7, <2>1
<1>9. RemoveAt(t, k) = s
  <2>1. k \in 1..Len(t) /\ Len(t) - 1 = n
    BY <1>1, <1>7
  <2>2. RemoveAt(t, k) \in Seq(S) /\ Len(RemoveAt(t, k)) = n
        /\ \A i \in 1..n : RemoveAt(t, k)[i] = t[IF i < k THEN i ELSE i + 1]
    BY <1>7, <2>1, RemovedIs
  <2>3. ASSUME NEW i \in 1..n
        PROVE  RemoveAt(t, k)[i] = s[i]
    <3>1. CASE i < k
      <4>1. i \in 1..(k - 1) /\ i \in 1..(n + 1) /\ i <= k
        BY <1>1, <3>1
      <4> QED BY <1>6, <1>7, <2>2, <3>1, <4>1
    <3>2. CASE ~(i < k)
      <4>1. i + 1 \in 1..(n + 1) /\ ~(i + 1 <= k) /\ (i + 1) - k \in 1..(n - k + 1) /\ ((i + 1) - k) + k - 1 = i
        BY <1>1, <3>2
      <4> QED BY <1>3, <1>7, <2>2, <3>2, <4>1
    <3> QED BY <3>1, <3>2
  <2> QED BY <1>1, <2>2, <2>3, SeqEqual
<1> QED BY <1>7, <1>8, <1>9 DEF t
-----------------------------------------------------------------------------
(* Sums over finite sets.  MapThenSumSet adds in an order of its own, by a  *)
(* recursive function on the subsets.                                       *)

Sum(f, S) == MapThenSumSet(LAMBDA x : f[x], S)

One(s) == CHOOSE x \in s : TRUE

Summing(g, f, D) == g = [s \in D |-> IF s = {} THEN 0 ELSE f[One(s)] + g[s \ {One(s)}]]

LEMMA OneLess ==
  ASSUME NEW s, IsFiniteSet(s), NEW x \in s
  PROVE  /\ Cardinality(s) \in Nat \ {0} /\ IsFiniteSet(s \ {x})
         /\ Cardinality(s \ {x}) = Cardinality(s) - 1
<1>1. Cardinality(s) \in Nat /\ IsFiniteSet(s \ {x}) /\ Cardinality(s \ {x}) = Cardinality(s) - 1
  BY FS_RemoveElement, FS_CardinalityType
<1>2. Cardinality(s) # 0
  BY FS_EmptySet
<1> QED BY <1>1, <1>2

LEMMA OneIn ==
  ASSUME NEW s, s # {}
  PROVE  One(s) \in s
BY DEF One

LEMMA SummingExists ==
  ASSUME NEW f, NEW S, IsFiniteSet(S)
  PROVE  \E g : Summing(g, f, SUBSET S)
<1> DEFINE D(n) == {s \in SUBSET S : Cardinality(s) <= n}
           Bad == {n \in Nat : ~\E g : Summing(g, f, D(n))}
           m == Min(Bad)
<1>1. \A s \in SUBSET S : IsFiniteSet(s) /\ Cardinality(s) \in Nat /\ Cardinality(s) <= Cardinality(S)
  BY FS_Subset, FS_CardinalityType
<1>2. \A s \in SUBSET S : s # {} => /\ One(s) \in s /\ s \ {One(s)} \in SUBSET S
                                    /\ Cardinality(s \ {One(s)}) = Cardinality(s) - 1
                                    /\ Cardinality(s) \in Nat \ {0}
  BY <1>1, OneIn, OneLess
<1>3. ASSUME Bad # {}
      PROVE  FALSE
  <2> HIDE DEF D
  <2>1. m \in Nat /\ ~(\E g : Summing(g, f, D(m))) /\ \A n \in Nat : n < m => \E g : Summing(g, f, D(n))
    <3>1. m \in Bad /\ \A n \in Bad : m <= n
      <4> HIDE DEF Bad
      <4>1. Bad \in SUBSET Nat
        BY DEF Bad
      <4> QED BY <1>3, <4>1, MinIs
    <3> HIDE DEF m
    <3> QED BY <3>1
  <2> HIDE DEF m
  <2>2. CASE m = 0
    <3>1. ASSUME NEW s \in D(m)
          PROVE  s = {}
      <4>1. s \in SUBSET S /\ ~(Cardinality(s) \in Nat \ {0})
        BY <2>2 DEF D
      <4> QED BY <1>2, <4>1
    <3> DEFINE g == [s \in D(m) |-> 0]
    <3>2. Summing(g, f, D(m))
      BY <3>1 DEF Summing
    <3> QED BY <2>1, <3>2
  <2>3. CASE m # 0
    <3>1. m - 1 \in Nat /\ m - 1 < m
      BY <2>1, <2>3
    <3>2. PICK g : Summing(g, f, D(m - 1))
      BY <2>1, <3>1
    <3> DEFINE h == [s \in D(m) |-> IF s = {} THEN 0 ELSE f[One(s)] + g[s \ {One(s)}]]
    <3>3. \A s \in D(m) : s # {} => s \ {One(s)} \in D(m - 1) /\ s \ {One(s)} \in D(m)
      BY <1>1, <1>2, <2>1, <3>1 DEF D
    <3>4. \A s \in D(m - 1) : s \in D(m) /\ h[s] = g[s]
      <4>1. \A s \in D(m - 1) : s \in D(m)
        BY <1>1, <2>1, <3>1 DEF D
      <4> QED BY <3>2, <4>1 DEF Summing
    <3>5. Summing(h, f, D(m))
      BY <3>3, <3>4 DEF Summing
    <3> QED BY <2>1, <3>5
  <2> QED BY <2>2, <2>3
<1>4. Cardinality(S) \in Nat /\ D(Cardinality(S)) = SUBSET S
  BY <1>1
<1> HIDE DEF D
<1> QED BY <1>3, <1>4

(* There is no other, and it depends on what it adds only.                  *)
LEMMA SummingSame ==
  ASSUME NEW f, NEW e, NEW S, IsFiniteSet(S), NEW T \in SUBSET S, \A x \in T : f[x] = e[x],
         NEW g, NEW h, Summing(g, f, SUBSET S) /\ Summing(h, e, SUBSET T)
  PROVE  g[T] = h[T]
<1> DEFINE Bad == {n \in Nat : \E s \in SUBSET T : Cardinality(s) = n /\ g[s] # h[s]}
           m == Min(Bad)
<1>1. \A s \in SUBSET T : IsFiniteSet(s) /\ Cardinality(s) \in Nat
  BY FS_Subset, FS_CardinalityType
<1>2. ASSUME Bad # {}
      PROVE  FALSE
  <2>1. m \in Bad /\ \A n \in Bad : m <= n
    <3> HIDE DEF Bad
    <3>1. Bad \in SUBSET Nat
      BY DEF Bad
    <3> QED BY <1>2, <3>1, MinIs
  <2> HIDE DEF m
  <2>2. PICK s \in SUBSET T : Cardinality(s) = m /\ g[s] # h[s]
    BY <2>1
  <2>3. CASE s = {}
    <3>1. g[s] = 0 /\ h[s] = 0
      BY <2>3 DEF Summing
    <3> QED BY <2>2, <3>1
  <2>4. CASE s # {}
    <3> DEFINE x == One(s)
               t == s \ {x}
    <3>1. x \in s /\ t \in SUBSET T /\ Cardinality(t) = m - 1 /\ m \in Nat \ {0}
      BY <1>1, <2>2, <2>4, OneIn, OneLess
    <3>2. m - 1 \in Nat /\ m - 1 \notin Bad
      <4>1. m - 1 \in Nat /\ ~(m <= m - 1)
        BY <3>1
      <4> HIDE DEF Bad
      <4> QED BY <2>1, <4>1
    <3>3. g[t] = h[t]
      BY <3>1, <3>2
    <3>4. g[s] = f[x] + g[t] /\ h[s] = e[x] + h[t]
      BY <2>4 DEF Summing
    <3> HIDE DEF x, t
    <3> QED BY <2>2, <3>1, <3>3, <3>4
  <2> QED BY <2>3, <2>4
<1>3. T \in SUBSET T /\ Cardinality(T) \in Nat
  BY <1>1
<1> QED BY <1>2, <1>3

Integral(f, S) == \A x \in S : f[x] \in Int

AnyOrder(g, f, D) == \A s \in D : g[s] \in Int /\ \A x \in s : g[s] = f[x] + g[s \ {x}]

(* The order does not matter. *)
LEMMA SummingAnyOrder ==
  ASSUME NEW f, NEW S, NEW g, IsFiniteSet(S) /\ Integral(f, S) /\ Summing(g, f, SUBSET S)
  PROVE  AnyOrder(g, f, SUBSET S)
<1> DEFINE Good(s) == g[s] \in Int /\ \A x \in s : g[s] = f[x] + g[s \ {x}]
           Bad == {n \in Nat : \E s \in SUBSET S : Cardinality(s) = n /\ ~Good(s)}
           m == Min(Bad)
<1>1. \A s \in SUBSET S : IsFiniteSet(s) /\ Cardinality(s) \in Nat
  BY FS_Subset, FS_CardinalityType
<1>2. ASSUME Bad # {}
      PROVE  FALSE
  <2> HIDE DEF Good
  <2>1. m \in Bad /\ \A n \in Bad : m <= n
    <3> HIDE DEF Bad
    <3>1. Bad \in SUBSET Nat
      BY DEF Bad
    <3> QED BY <1>2, <3>1, MinIs
  <2> HIDE DEF m
  <2>2. PICK s \in SUBSET S : Cardinality(s) = m /\ ~Good(s)
    BY <2>1
  <2>3. CASE s = {}
    <3>1. g[s] = 0
      BY <2>3 DEF Summing
    <3> QED BY <2>2, <2>3, <3>1 DEF Good
  <2>4. CASE s # {}
    <3> DEFINE c == One(s)
    <3>1. c \in s /\ m \in Nat \ {0}
      BY <1>1, <2>2, <2>4, OneIn, OneLess
    <3>2. g[s] = f[c] + g[s \ {c}]
      BY <2>4 DEF Summing
    <3> HIDE DEF c
    <3>3. ASSUME NEW x \in s
          PROVE  Good(s \ {x})
      <4>1. s \ {x} \in SUBSET S /\ Cardinality(s \ {x}) = m - 1
        BY <1>1, <2>2, OneLess
      <4>2. m - 1 \in Nat /\ ~(m <= m - 1)
        BY <3>1
      <4>3. m - 1 \notin Bad
        <5> HIDE DEF Bad
        <5> QED BY <2>1, <4>2
      <4> QED BY <4>1, <4>2, <4>3
    <3>4. g[s] \in Int
      <4>1. g[s \ {c}] \in Int
        BY <3>1, <3>3 DEF Good
      <4>2. f[c] \in Int
        BY <2>2, <3>1 DEF Integral
      <4> QED BY <3>2, <4>1, <4>2
    <3>5. ASSUME NEW x \in s, x # c
          PROVE  g[s] = f[x] + g[s \ {x}]
      <4>1. x \in s \ {c} /\ c \in s \ {x} /\ (s \ {c}) \ {x} = (s \ {x}) \ {c}
        BY <3>1, <3>5
      <4> DEFINE r == (s \ {x}) \ {c}
      <4>2. g[s \ {c}] = f[x] + g[r] /\ g[s \ {x}] = f[c] + g[r]
        BY <3>1, <3>3, <4>1 DEF Good
      <4>3. Good(s \ {x})
        BY <3>3
      <4>4. f[x] \in Int /\ f[c] \in Int /\ g[r] \in Int
        <5>1. r \in SUBSET S /\ IsFiniteSet(s \ {x}) /\ Cardinality(s \ {x}) = m - 1
          BY <1>1, <2>2, OneLess
        <5>2. Cardinality(r) = m - 2 /\ m - 1 \in Nat \ {0}
          <6>1. /\ Cardinality(s \ {x}) \in Nat \ {0}
                /\ Cardinality((s \ {x}) \ {c}) = Cardinality(s \ {x}) - 1
            BY <4>1, <5>1, OneLess
          <6> QED BY <3>1, <5>1, <6>1
        <5>3. m - 2 \in Nat /\ ~(m <= m - 2)
          BY <3>1, <5>2
        <5>4. m - 2 \notin Bad
          <6> HIDE DEF Bad
          <6> QED BY <2>1, <5>3
        <5>5. Good(r)
          <6> HIDE DEF r
          <6> QED BY <5>1, <5>2, <5>3, <5>4
        <5> QED BY <2>2, <3>1, <5>5 DEF Good, Integral
      <4> HIDE DEF r
      <4> QED BY <3>2, <4>2, <4>4
    <3> QED BY <2>2, <3>2, <3>4, <3>5 DEF Good
  <2> QED BY <2>3, <2>4
<1>3. ASSUME NEW s \in SUBSET S
      PROVE  Good(s)
  <2>1. Cardinality(s) \in Nat
    BY <1>1
  <2> HIDE DEF Good
  <2> QED BY <1>2, <2>1
<1> QED BY <1>3 DEF AnyOrder

LEMMA SumIs ==
  ASSUME NEW f, NEW S, IsFiniteSet(S)
  PROVE  \E g : Summing(g, f, SUBSET S) /\ Sum(f, S) = g[S]
<1> DEFINE g == CHOOSE g : Summing(g, f, SUBSET S)
<1>1. Summing(g, f, SUBSET S)
  BY SummingExists
<1>2. Sum(f, S) = g[S]
  BY DEF Sum, MapThenSumSet, MapThenFoldSet, Summing, One
<1> HIDE DEF g
<1> QED BY <1>1, <1>2

LEMMA SumEmpty ==
  ASSUME NEW f
  PROVE  Sum(f, {}) = 0
<1>1. PICK g : Summing(g, f, SUBSET {}) /\ Sum(f, {}) = g[{}]
  BY SumIs, FS_EmptySet
<1> QED BY <1>1 DEF Summing

LEMMA SumSame ==
  ASSUME NEW f, NEW e, NEW S, IsFiniteSet(S), \A x \in S : f[x] = e[x]
  PROVE  Sum(f, S) = Sum(e, S)
<1>1. PICK g : Summing(g, f, SUBSET S) /\ Sum(f, S) = g[S]
  BY SumIs
<1>2. PICK h : Summing(h, e, SUBSET S) /\ Sum(e, S) = h[S]
  BY SumIs
<1>3. S \in SUBSET S /\ Summing(g, f, SUBSET S) /\ Summing(h, e, SUBSET S)
  BY <1>1, <1>2
<1>4. g[S] = h[S]
  BY <1>3, SummingSame
<1> QED BY <1>1, <1>2, <1>4

(* One element more. *)
LEMMA SumWithoutInt ==
  ASSUME NEW f, NEW S, IsFiniteSet(S), Integral(f, S), NEW x \in S
  PROVE  /\ Sum(f, S) \in Int /\ Sum(f, S \ {x}) \in Int
         /\ Sum(f, S) = f[x] + Sum(f, S \ {x})
<1>1. PICK g : Summing(g, f, SUBSET S) /\ Sum(f, S) = g[S]
  BY SumIs
<1> DEFINE T == S \ {x}
<1>2. T \in SUBSET S /\ IsFiniteSet(T)
  BY FS_Subset
<1> HIDE DEF T
<1>3. PICK h : Summing(h, f, SUBSET T) /\ Sum(f, T) = h[T]
  BY <1>2, SumIs
<1>4. g[T] = h[T]
  <2>1. /\ Summing(g, f, SUBSET S) /\ Summing(h, f, SUBSET T)
        /\ \A y \in T : f[y] = f[y]
    BY <1>1, <1>3
  <2> QED BY <1>2, <2>1, SummingSame
<1>5. AnyOrder(g, f, SUBSET S)
  <2>1. IsFiniteSet(S) /\ Integral(f, S) /\ Summing(g, f, SUBSET S)
    BY <1>1
  <2> QED BY <2>1, SummingAnyOrder
<1>6. g[S] \in Int /\ g[T] \in Int
  BY <1>2, <1>5 DEF AnyOrder
<1>7. g[S] = f[x] + g[T]
  BY <1>5 DEF T, AnyOrder
<1> QED BY <1>1, <1>3, <1>4, <1>6, <1>7 DEF T

LEMMA SumIntegral ==
  ASSUME NEW f, NEW S, IsFiniteSet(S), Integral(f, S)
  PROVE  Sum(f, S) \in Int
<1>1. CASE S = {}
  BY <1>1, SumEmpty
<1>2. CASE S # {}
  BY <1>2, SumWithoutInt
<1> QED BY <1>1, <1>2

LEMMA SumCounts ==
  ASSUME NEW f, NEW S, IsFiniteSet(S), \A x \in S : f[x] \in Nat
  PROVE  Sum(f, S) \in Nat
<1> DEFINE Bad == {n \in Nat : \E s \in SUBSET S : Cardinality(s) = n /\ Sum(f, s) \notin Nat}
           m == Min(Bad)
<1>1. \A s \in SUBSET S : IsFiniteSet(s) /\ Cardinality(s) \in Nat
  BY FS_Subset, FS_CardinalityType
<1>2. ASSUME Bad # {}
      PROVE  FALSE
  <2>1. m \in Bad /\ \A n \in Bad : m <= n
    <3> HIDE DEF Bad
    <3>1. Bad \in SUBSET Nat
      BY DEF Bad
    <3> QED BY <1>2, <3>1, MinIs
  <2> HIDE DEF m
  <2>2. PICK s \in SUBSET S : Cardinality(s) = m /\ Sum(f, s) \notin Nat
    BY <2>1
  <2>3. PICK x : x \in s
    BY <2>2, SumEmpty
  <2>4. s \ {x} \in SUBSET S /\ Cardinality(s \ {x}) = m - 1 /\ m \in Nat \ {0}
    BY <1>1, <2>2, <2>3, OneLess
  <2>5. m - 1 \in Nat /\ ~(m <= m - 1)
    BY <2>4
  <2>6. m - 1 \notin Bad
    <3> HIDE DEF Bad
    <3> QED BY <2>1, <2>5
  <2>7. Sum(f, s \ {x}) \in Nat
    BY <2>4, <2>5, <2>6
  <2>8. Sum(f, s) = f[x] + Sum(f, s \ {x})
    <3>1. Integral(f, s)
      BY DEF Integral
    <3> QED BY <1>1, <2>3, <3>1, SumWithoutInt
  <2>9. f[x] \in Nat
    BY <2>3
  <2> QED BY <2>2, <2>7, <2>8, <2>9
<1>3. S \in SUBSET S /\ Cardinality(S) \in Nat
  BY <1>1
<1> QED BY <1>2, <1>3

Counting(f, S) == \A x \in S : f[x] \in Nat

LEMMA SumWithout ==
  ASSUME NEW f, NEW S, IsFiniteSet(S), Counting(f, S), NEW x \in S
  PROVE  /\ Sum(f, S) \in Nat /\ Sum(f, S \ {x}) \in Nat
         /\ Sum(f, S) = f[x] + Sum(f, S \ {x})
<1>1. Integral(f, S)
  BY DEF Integral, Counting
<1>2. Sum(f, S) = f[x] + Sum(f, S \ {x})
  BY <1>1, SumWithoutInt
<1> DEFINE T == S \ {x}
<1>3. IsFiniteSet(T) /\ IsFiniteSet(S) /\ (\A y \in T : f[y] \in Nat) /\ (\A y \in S : f[y] \in Nat)
  BY FS_RemoveElement DEF Counting
<1> HIDE DEF T
<1>4. Sum(f, S) \in Nat /\ Sum(f, T) \in Nat
  BY <1>3, SumCounts
<1> QED BY <1>2, <1>4 DEF T

(* The sum over two sets that have nothing in common.                       *)
LEMMA SumUnion ==
  ASSUME NEW f, NEW S, NEW T, IsFiniteSet(S), IsFiniteSet(T), S \cap T = {}, Integral(f, S \cup T)
  PROVE  Sum(f, S \cup T) = Sum(f, S) + Sum(f, T)
<1> DEFINE Bad == {n \in Nat : \E s \in SUBSET S : Cardinality(s) = n /\ Sum(f, s \cup T) # Sum(f, s) + Sum(f, T)}
           m == Min(Bad)
<1>1. \A s \in SUBSET S : IsFiniteSet(s) /\ Cardinality(s) \in Nat /\ IsFiniteSet(s \cup T)
  BY FS_Subset, FS_CardinalityType, FS_Union
<1>2. Sum(f, T) \in Int
  <2>1. Integral(f, T)
    BY DEF Integral
  <2> QED BY <2>1, SumIntegral
<1>3. ASSUME Bad # {}
      PROVE  FALSE
  <2>1. m \in Bad /\ \A n \in Bad : m <= n
    <3> HIDE DEF Bad
    <3>1. Bad \in SUBSET Nat
      BY DEF Bad
    <3> QED BY <1>3, <3>1, MinIs
  <2> HIDE DEF m
  <2>2. PICK s \in SUBSET S : Cardinality(s) = m /\ Sum(f, s \cup T) # Sum(f, s) + Sum(f, T)
    BY <2>1
  <2>3. s # {}
    <3>1. ASSUME s = {}
          PROVE  FALSE
      <4>1. s \cup T = T /\ Sum(f, s) = 0
        BY <3>1, SumEmpty
      <4>2. Sum(f, T) = 0 + Sum(f, T)
        BY <1>2
      <4> QED BY <2>2, <4>1, <4>2
    <3> QED BY <3>1
  <2>4. PICK x : x \in s
    BY <2>3
  <2> DEFINE t == s \ {x}
             u == s \cup T
  <2>5. t \in SUBSET S /\ Cardinality(t) = m - 1 /\ m \in Nat \ {0}
    BY <1>1, <2>2, <2>4, OneLess
  <2>6. m - 1 \in Nat /\ ~(m <= m - 1)
    BY <2>5
  <2>7. m - 1 \notin Bad
    <3> HIDE DEF Bad
    <3> QED BY <2>1, <2>6
  <2>8. Sum(f, t \cup T) = Sum(f, t) + Sum(f, T)
    <3> HIDE DEF t
    <3> QED BY <2>5, <2>6, <2>7
  <2>9. Sum(f, s) \in Int /\ Sum(f, t) \in Int /\ Sum(f, s) = f[x] + Sum(f, t)
    <3>1. IsFiniteSet(s) /\ x \in s /\ Integral(f, s)
      BY <1>1, <2>4 DEF Integral
    <3> QED BY <3>1, SumWithoutInt
  <2>10. u \ {x} = t \cup T /\ x \in u /\ IsFiniteSet(u) /\ Integral(f, u)
    BY <1>1, <2>4 DEF Integral
  <2> HIDE DEF t, u
  <2>11. Sum(f, u) = f[x] + Sum(f, u \ {x})
    BY <2>10, SumWithoutInt
  <2>12. Sum(f, u) = f[x] + (Sum(f, t) + Sum(f, T))
    BY <2>8, <2>10, <2>11
  <2>13. f[x] \in Int
    BY <2>10 DEF Integral
  <2> QED BY <1>2, <2>2, <2>9, <2>12, <2>13 DEF u
<1>4. S \in SUBSET S /\ Cardinality(S) \in Nat
  BY <1>1
<1> QED BY <1>3, <1>4

(* A part of a sum of natural numbers is no more than the sum.              *)
LEMMA SumOfPart ==
  ASSUME NEW f, NEW S, IsFiniteSet(S), \A x \in S : f[x] \in Nat, NEW T \in SUBSET S
  PROVE  Sum(f, T) \in Nat /\ Sum(f, S) \in Nat /\ Sum(f, T) <= Sum(f, S)
<1> DEFINE U == S \ T
<1>1. IsFiniteSet(T) /\ IsFiniteSet(U) /\ T \cap U = {} /\ T \cup U = S
  BY FS_Subset
<1>2. Integral(f, T \cup U)
  BY <1>1 DEF Integral
<1>3. (\A x \in T : f[x] \in Nat) /\ (\A x \in U : f[x] \in Nat)
  OBVIOUS
<1> HIDE DEF U
<1>4. Sum(f, T \cup U) = Sum(f, T) + Sum(f, U)
  BY <1>1, <1>2, SumUnion
<1>5. Sum(f, T) \in Nat /\ Sum(f, U) \in Nat
  BY <1>1, <1>3, SumCounts
<1>6. Sum(f, S) = Sum(f, T) + Sum(f, U)
  BY <1>1, <1>4
<1> QED BY <1>5, <1>6

(* The sum of as many times the same. *)
LEMMA SumConstant ==
  ASSUME NEW f, NEW q \in Nat, NEW S, IsFiniteSet(S), \A x \in S : f[x] = q
  PROVE  Sum(f, S) = q * Cardinality(S)
<1> DEFINE Bad == {n \in Nat : \E s \in SUBSET S : Cardinality(s) = n /\ Sum(f, s) # q * n}
           m == Min(Bad)
<1>1. \A s \in SUBSET S : IsFiniteSet(s) /\ Cardinality(s) \in Nat
  BY FS_Subset, FS_CardinalityType
<1>2. ASSUME Bad # {}
      PROVE  FALSE
  <2>1. m \in Bad /\ \A n \in Bad : m <= n
    <3> HIDE DEF Bad
    <3>1. Bad \in SUBSET Nat
      BY DEF Bad
    <3> QED BY <1>2, <3>1, MinIs
  <2> HIDE DEF m
  <2>2. PICK s \in SUBSET S : Cardinality(s) = m /\ Sum(f, s) # q * m
    BY <2>1
  <2>3. s # {}
    <3>1. ASSUME s = {}
          PROVE  FALSE
      <4>1. m = 0 /\ Sum(f, s) = 0
        BY <2>2, <3>1, SumEmpty, FS_EmptySet
      <4> QED BY <2>2, <4>1
    <3> QED BY <3>1
  <2>4. PICK x : x \in s
    BY <2>3
  <2> DEFINE t == s \ {x}
  <2>5. t \in SUBSET S /\ Cardinality(t) = m - 1 /\ m \in Nat \ {0}
    BY <1>1, <2>2, <2>4, OneLess
  <2>6. m - 1 \in Nat /\ ~(m <= m - 1)
    BY <2>5
  <2>7. m - 1 \notin Bad
    <3> HIDE DEF Bad
    <3> QED BY <2>1, <2>6
  <2>8. Sum(f, s) = f[x] + Sum(f, t) /\ f[x] = q
    <3>1. Integral(f, s)
      BY DEF Integral
    <3> QED BY <1>1, <2>4, <3>1, SumWithoutInt
  <2> HIDE DEF t
  <2>9. Sum(f, t) = q * (m - 1)
    BY <2>5, <2>6, <2>7
  <2>10. q + q * (m - 1) = q * m
    BY <2>5
  <2> QED BY <2>2, <2>8, <2>9, <2>10
<1>3. S \in SUBSET S /\ Cardinality(S) \in Nat
  BY <1>1
<1> QED BY <1>2, <1>3
-----------------------------------------------------------------------------
(* Loops that grow a capacity until it is enough.  step grows every number  *)
(* from low on and changes none below.                                      *)

Climbing(h, step, need, D) == h = [r \in D |-> IF need <= r THEN r ELSE h[step[r]]]

LEMMA ClimbExists ==
  ASSUME NEW need \in Nat, NEW low \in Nat, NEW step \in [Nat -> Nat],
         \A r \in Nat : IF low <= r THEN r < step[r] ELSE step[r] = r
  PROVE  \E h : Climbing(h, step, need, Nat)
<1> DEFINE D(k) == {r \in Nat : low <= r /\ need <= r + k}
           Bad == {k \in Nat : ~\E h : Climbing(h, step, need, D(k))}
           m == Min(Bad)
<1>1. ASSUME Bad # {}
      PROVE  FALSE
  <2> HIDE DEF D
  <2>1. m \in Nat /\ ~(\E h : Climbing(h, step, need, D(m))) /\ \A k \in Nat : k < m => \E h : Climbing(h, step, need, D(k))
    <3>1. m \in Bad /\ \A k \in Bad : m <= k
      <4> HIDE DEF Bad
      <4>1. Bad \in SUBSET Nat
        BY DEF Bad
      <4> QED BY <1>1, <4>1, MinIs
    <3> HIDE DEF m
    <3> QED BY <3>1
  <2> HIDE DEF m
  <2>2. CASE m = 0
    <3> DEFINE h == [r \in D(m) |-> r]
    <3>1. \A r \in D(m) : need <= r
      BY <2>2 DEF D
    <3>2. Climbing(h, step, need, D(m))
      BY <3>1 DEF Climbing
    <3> QED BY <2>1, <3>2
  <2>3. CASE m # 0
    <3>1. m - 1 \in Nat /\ m - 1 < m
      BY <2>1, <2>3
    <3>2. PICK g : Climbing(g, step, need, D(m - 1))
      BY <2>1, <3>1
    <3> DEFINE h == [r \in D(m) |-> IF need <= r THEN r ELSE g[step[r]]]
    <3>3. \A r \in D(m) : ~(need <= r) => step[r] \in D(m - 1) /\ step[r] \in D(m)
      BY <2>1, <3>1 DEF D
    <3>4. \A r \in D(m - 1) : r \in D(m)
      BY <2>1, <3>1 DEF D
    <3>5. \A r \in D(m - 1) : h[r] = g[r]
      BY <3>2, <3>4 DEF Climbing
    <3>6. Climbing(h, step, need, D(m))
      BY <3>3, <3>5 DEF Climbing
    <3> QED BY <2>1, <3>6
  <2> QED BY <2>2, <2>3
<1>2. PICK g : Climbing(g, step, need, D(need))
  BY <1>1
<1> DEFINE h == [r \in Nat |-> IF r \in D(need) THEN g[r] ELSE r]
<1>3. \A r \in Nat : r \in D(need) <=> low <= r
  OBVIOUS
<1>4. \A r \in Nat : r \in D(need) => step[r] \in D(need) /\ g[r] = IF need <= r THEN r ELSE g[step[r]]
  <2>1. \A r \in Nat : r \in D(need) => step[r] \in D(need)
    BY <1>3
  <2> HIDE DEF D
  <2> QED BY <1>2, <2>1 DEF Climbing
<1>5. \A r \in Nat : r \notin D(need) => step[r] = r
  BY <1>3
<1> HIDE DEF D
<1>6. Climbing(h, step, need, Nat)
  BY <1>4, <1>5 DEF Climbing
<1> QED BY <1>6

(* It comes to an end, and what it ends with is enough. *)
LEMMA ClimbReaches ==
  ASSUME NEW need \in Nat, NEW low \in Nat, NEW step \in [Nat -> Nat],
         \A r \in Nat : low <= r => r < step[r],
         NEW h, Climbing(h, step, need, Nat), NEW r \in Nat, low <= r
  PROVE  h[r] \in Nat /\ need <= h[r] /\ r <= h[r]
<1> DEFINE Good(q) == h[q] \in Nat /\ need <= h[q] /\ q <= h[q]
           Bad == {k \in Nat : \E q \in Nat : low <= q /\ q + k = need /\ ~Good(q)}
           m == Min(Bad)
<1>1. \A q \in Nat : h[q] = IF need <= q THEN q ELSE h[step[q]]
  BY DEF Climbing
<1>2. ASSUME Bad # {}
      PROVE  FALSE
  <2> HIDE DEF Good
  <2>1. m \in Bad /\ \A k \in Bad : m <= k
    <3> HIDE DEF Bad
    <3>1. Bad \in SUBSET Nat
      BY DEF Bad
    <3> QED BY <1>2, <3>1, MinIs
  <2> HIDE DEF m
  <2>2. PICK q \in Nat : low <= q /\ q + m = need /\ ~Good(q)
    BY <2>1
  <2>3. m \in Nat
    BY <2>1
  <2>4. ~(need <= q)
    <3>1. CASE need <= q
      <4>1. h[q] = q
        BY <1>1, <3>1
      <4> QED BY <2>2, <3>1, <4>1 DEF Good
    <3> QED BY <3>1
  <2> DEFINE s == step[q]
  <2>5. s \in Nat /\ q < s /\ h[q] = h[s]
    BY <1>1, <2>2, <2>4
  <2> HIDE DEF s
  <2>6. Good(s)
    <3>1. CASE need <= s
      <4>1. h[s] = s
        BY <1>1, <2>5, <3>1
      <4> QED BY <2>5, <3>1, <4>1 DEF Good
    <3>2. CASE ~(need <= s)
      <4>1. need - s \in Nat /\ s + (need - s) = need /\ ~(m <= need - s) /\ low <= s
        BY <2>2, <2>3, <2>5, <3>2
      <4>2. need - s \notin Bad
        <5> HIDE DEF Bad
        <5> QED BY <2>1, <4>1
      <4> QED BY <2>5, <4>1, <4>2
    <3> QED BY <3>1, <3>2
  <2> QED BY <2>2, <2>5, <2>6 DEF Good
<1>3. CASE need <= r
  BY <1>1, <1>3
<1>4. CASE ~(need <= r)
  <2>1. need - r \in Nat /\ r + (need - r) = need
    BY <1>4
  <2> HIDE DEF Good
  <2>2. Good(r)
    BY <1>2, <2>1
  <2> QED BY <2>2 DEF Good
<1> QED BY <1>3, <1>4
-----------------------------------------------------------------------------
(* Sequences and what they weigh.                                           *)

(* Induction over sequences, for a set of them. *)
LEMMA SeqInduct ==
  ASSUME NEW X, NEW G, <<>> \in G, \A s \in Seq(X), x \in X : s \in G => Append(s, x) \in G
  PROVE  Seq(X) \subseteq G
<1> DEFINE Bad == {n \in Nat : \E s \in Seq(X) : Len(s) = n /\ s \notin G}
           m == Min(Bad)
<1>1. ASSUME Bad # {}
      PROVE  FALSE
  <2>1. m \in Bad /\ \A n \in Bad : m <= n
    <3>1. Bad \in SUBSET Nat
      OBVIOUS
    <3> HIDE DEF Bad
    <3> QED BY <1>1, <3>1, MinIs
  <2>2. PICK s \in Seq(X) : Len(s) = m /\ s \notin G
    BY <2>1
  <2>3. PICK t \in Seq(X), x \in X : s = Append(t, x)
    BY <2>2, SequenceEmptyOrAppend
  <2>4. Len(t) \in Nat /\ Len(s) = Len(t) + 1
    BY <2>3, AppendProperties, LenProperties
  <2>5. Len(t) \notin Bad
    BY <2>1, <2>2, <2>4
  <2> QED BY <2>2, <2>3, <2>4, <2>5
<1>2. ASSUME NEW s \in Seq(X), s \notin G
      PROVE  FALSE
  <2>1. Len(s) \in Bad
    BY <1>2, LenProperties
  <2> QED BY <1>1, <2>1
<1> QED BY <1>2

(* The sum of what a sequence's elements weigh. *)
Weight(s, f) == Sum([i \in DOMAIN s |-> f[s[i]]], DOMAIN s)

LEMMA WeightCounts ==
  ASSUME NEW X, NEW f \in [X -> Nat], NEW s \in Seq(X)
  PROVE  Weight(s, f) \in Nat
<1> DEFINE g == [i \in DOMAIN s |-> f[s[i]]]
<1>1. DOMAIN s = 1..Len(s) /\ Len(s) \in Nat /\ \A i \in DOMAIN s : s[i] \in X
  BY LenProperties
<1>2. IsFiniteSet(DOMAIN s) /\ \A i \in DOMAIN s : g[i] \in Nat
  BY <1>1, FS_Interval
<1>3. Sum(g, DOMAIN s) \in Nat
  <2> HIDE DEF g
  <2> QED BY <1>2, SumCounts
<1> QED BY <1>3 DEF Weight

LEMMA WeightEmpty ==
  ASSUME NEW f
  PROVE  Weight(<<>>, f) = 0
<1>1. DOMAIN <<>> = {}
  OBVIOUS
<1> QED BY <1>1, SumEmpty DEF Weight

LEMMA SumOneMore ==
  ASSUME NEW h, NEW n \in Nat, Counting(h, 1..(n + 1))
  PROVE  Sum(h, 1..n) \in Nat /\ Sum(h, 1..(n + 1)) = h[n + 1] + Sum(h, 1..n)
<1> DEFINE D == 1..(n + 1)
           last == n + 1
<1>1. IsFiniteSet(D) /\ Counting(h, D) /\ last \in D
  BY FS_Interval
<1>2. Sum(h, D) \in Nat /\ Sum(h, D \ {last}) \in Nat /\ Sum(h, D) = h[last] + Sum(h, D \ {last})
  <2> HIDE DEF D, last
  <2> QED BY <1>1, SumWithout
<1>3. D \ {last} = 1..n
  OBVIOUS
<1> QED BY <1>2, <1>3

LEMMA WeightAppended ==
  ASSUME NEW X, NEW f \in [X -> Nat], NEW s \in Seq(X), NEW x \in X
  PROVE  Weight(Append(s, x), f) = Weight(s, f) + f[x]
<1> DEFINE t == Append(s, x)
           n == Len(s)
           g == [i \in DOMAIN s |-> f[s[i]]]
           h == [i \in DOMAIN t |-> f[t[i]]]
<1>1. n \in Nat /\ DOMAIN s = 1..n /\ \A i \in 1..n : s[i] \in X
  BY LenProperties
<1>2. t \in Seq(X) /\ DOMAIN t = 1..(n + 1) /\ t[n + 1] = x /\ \A i \in 1..n : t[i] = s[i]
  BY <1>1, AppendProperties, LenProperties
<1>3. IsFiniteSet(1..n)
  BY <1>1, FS_Interval
<1>4. (\A i \in 1..(n + 1) : h[i] \in Nat) /\ h[n + 1] = f[x] /\ (\A i \in 1..n : h[i] = g[i])
  BY <1>1, <1>2
<1>5. Sum(h, 1..(n + 1)) = h[n + 1] + Sum(h, 1..n) /\ Sum(h, 1..n) \in Nat
  <2>1. Counting(h, 1..(n + 1))
    BY <1>4 DEF Counting
  <2> HIDE DEF h, n
  <2> QED BY <1>1, <2>1, SumOneMore
<1>6. Sum(h, 1..n) = Sum(g, 1..n)
  <2> HIDE DEF h, g, n
  <2> QED BY <1>3, <1>4, SumSame
<1>7. Weight(t, f) = Sum(h, 1..(n + 1)) /\ Weight(s, f) = Sum(g, 1..n)
  BY <1>1, <1>2 DEF Weight
<1>8. f[x] \in Nat
  OBVIOUS
<1> HIDE DEF g, h, n, t
<1> QED BY <1>4, <1>5, <1>6, <1>7, <1>8 DEF t

LEMMA WeightJoined ==
  ASSUME NEW X, NEW f \in [X -> Nat], NEW s \in Seq(X), NEW t \in Seq(X)
  PROVE  Weight(s \o t, f) = Weight(s, f) + Weight(t, f)
<1> DEFINE G == {u \in Seq(X) : Weight(s \o u, f) = Weight(s, f) + Weight(u, f)}
<1>1. <<>> \in G
  BY ConcatEmptySeq, EmptySeq, WeightEmpty, WeightCounts
<1>2. ASSUME NEW u \in Seq(X), NEW x \in X, u \in G
      PROVE  Append(u, x) \in G
  <2>1. Append(u, x) \in Seq(X) /\ Append(u, x) = u \o <<x>> /\ <<x>> \in Seq(X)
    BY AppendProperties, AppendIsConcat
  <2>2. s \o Append(u, x) = Append(s \o u, x) /\ s \o u \in Seq(X)
    <3>1. s \o u \in Seq(X)
      BY ConcatProperties
    <3>2. Append(s \o u, x) = (s \o u) \o <<x>>
      BY <3>1, AppendIsConcat
    <3>3. <<x>> \in Seq(X)
      OBVIOUS
    <3>4. (s \o u) \o <<x>> = s \o (u \o <<x>>)
      BY <3>3, ConcatAssociative
    <3> QED BY <2>1, <3>1, <3>2, <3>4
  <2>3. /\ Weight(Append(s \o u, x), f) = Weight(s \o u, f) + f[x]
        /\ Weight(Append(u, x), f) = Weight(u, f) + f[x]
    BY <2>2, WeightAppended
  <2>4. Weight(s, f) \in Nat /\ Weight(u, f) \in Nat /\ f[x] \in Nat
    BY WeightCounts
  <2>5. Weight(s \o u, f) = Weight(s, f) + Weight(u, f)
    BY <1>2
  <2>6. Weight(s \o Append(u, x), f) = Weight(s, f) + Weight(Append(u, x), f)
    BY <2>2, <2>3, <2>4, <2>5
  <2> QED BY <2>1, <2>6
<1>3. Seq(X) \subseteq G
  <2> HIDE DEF G
  <2> QED BY <1>1, <1>2, SeqInduct
<1> QED BY <1>3

LEMMA WeightTail ==
  ASSUME NEW X, NEW f \in [X -> Nat], NEW s \in Seq(X), s # <<>>
  PROVE  Weight(s, f) = f[Head(s)] + Weight(Tail(s), f)
<1>1. Head(s) \in X /\ Tail(s) \in Seq(X) /\ Len(s) \in Nat \ {0}
  BY HeadTailProperties, EmptySeq
<1>2. SubSeq(s, 1, Len(s)) = <<s[1]>> \o SubSeq(s, 2, Len(s))
  BY <1>1, SubSeqRecursiveFirst
<1>3. s = <<Head(s)>> \o Tail(s)
  BY <1>1, <1>2, SubSeqFull, TailIsSubSeq
<1>4. <<Head(s)>> \in Seq(X) /\ <<Head(s)>> = Append(<<>>, Head(s)) /\ <<>> \in Seq(X)
  BY <1>1
<1>5. Weight(<<Head(s)>>, f) = f[Head(s)]
  <2>1. Weight(Append(<<>>, Head(s)), f) = Weight(<<>>, f) + f[Head(s)]
    BY <1>1, <1>4, WeightAppended
  <2>2. f[Head(s)] \in Nat /\ Weight(<<>>, f) = 0
    BY <1>1, WeightEmpty
  <2> QED BY <1>4, <2>1, <2>2
<1> QED BY <1>1, <1>3, <1>4, <1>5, WeightJoined

(* Induction from the first number of a range to the last. *)
LEMMA FirstToLast ==
  ASSUME NEW n \in Nat, NEW G \in SUBSET (1..n),
         \A i \in 1..n : (\A j \in 1..n : j < i => j \in G) => i \in G
  PROVE  G = 1..n
<1> DEFINE B == (1..n) \ G
<1>1. ASSUME B # {}
      PROVE  FALSE
  <2>1. B \in SUBSET Nat
    OBVIOUS
  <2>2. Min(B) \in B /\ \A b \in B : Min(B) <= b
    <3> HIDE DEF B
    <3> QED BY <1>1, <2>1, MinIs
  <2>3. PICK i \in B : \A b \in B : i <= b
    BY <2>2
  <2>4. \A j \in 1..n : j < i => j \in G
    BY <2>3
  <2> QED BY <2>3, <2>4
<1> QED BY <1>1

(* Functions that are defined by recursion over 0..n, with the step as a    *)
(* function of the value before and the place.                              *)
Stepping(g, a, step, n) == g = [i \in 0..n |-> IF i = 0 THEN a ELSE step[<<g[i - 1], i>>]]

LEMMA RunExists ==
  ASSUME NEW n \in Nat, NEW X, NEW a \in X, NEW step \in [X \X (1..n) -> X]
  PROVE  \E g \in [0..n -> X] : Stepping(g, a, step, n)
<1> DEFINE Bad == {k \in Nat : k <= n /\ ~\E g \in [0..k -> X] : Stepping(g, a, step, k)}
           m == Min(Bad)
<1>1. ASSUME Bad # {}
      PROVE  FALSE
  <2>1. m \in Bad /\ \A k \in Bad : m <= k
    <3>1. Bad \in SUBSET Nat
      OBVIOUS
    <3> HIDE DEF Bad
    <3> QED BY <1>1, <3>1, MinIs
  <2>2. m \in Nat /\ m <= n /\ ~\E g \in [0..m -> X] : Stepping(g, a, step, m)
    BY <2>1
  <2> HIDE DEF m
  <2>3. CASE m = 0
    <3> DEFINE g == [i \in 0..0 |-> a]
    <3>1. g \in [0..0 -> X] /\ Stepping(g, a, step, 0)
      BY DEF Stepping
    <3> HIDE DEF g
    <3> QED BY <2>2, <2>3, <3>1
  <2>4. CASE m # 0
    <3>1. m - 1 \in Nat /\ m - 1 <= n /\ m - 1 \notin Bad
      <4>1. m - 1 \in Nat /\ m - 1 <= n /\ ~(m <= m - 1)
        BY <2>2, <2>4
      <4> HIDE DEF Bad
      <4> QED BY <2>1, <4>1
    <3>2. PICK g \in [0..(m - 1) -> X] : Stepping(g, a, step, m - 1)
      BY <3>1
    <3> DEFINE h == [i \in 0..m |-> IF i < m THEN g[i] ELSE step[<<g[m - 1], m>>]]
    <3>3. step[<<g[m - 1], m>>] \in X
      BY <2>2, <2>4
    <3>4. h \in [0..m -> X]
      BY <2>2, <3>3
    <3>5. \A i \in 0..m : h[i] = IF i = 0 THEN a ELSE step[<<h[i - 1], i>>]
      <4>1. TAKE i \in 0..m
      <4>2. CASE i < m
        <5>1. i \in 0..(m - 1) /\ h[i] = g[i] /\ (i # 0 => h[i - 1] = g[i - 1])
          BY <2>2, <4>2
        <5>2. g[i] = IF i = 0 THEN a ELSE step[<<g[i - 1], i>>]
          BY <3>2, <5>1 DEF Stepping
        <5> QED BY <5>1, <5>2
      <4>3. CASE i = m
        <5>1. ~(i < m) /\ i # 0 /\ i - 1 \in 0..m /\ i - 1 < m
          BY <2>2, <2>4, <4>3
        <5>2. h[i - 1] = g[i - 1]
          BY <5>1
        <5>3. h[i] = step[<<g[m - 1], m>>]
          BY <5>1
        <5> HIDE DEF h
        <5> QED BY <4>3, <5>1, <5>2, <5>3
      <4> QED BY <2>2, <4>2, <4>3
    <3>6. Stepping(h, a, step, m)
      <4> HIDE DEF h
      <4> QED BY <3>4, <3>5 DEF Stepping
    <3> HIDE DEF h
    <3> QED BY <2>2, <3>4, <3>6
  <2> QED BY <2>3, <2>4
<1> HIDE DEF m
<1>2. n \notin Bad
  BY <1>1
<1> QED BY <1>2

(* FlattenSeq. *)
Flattening(f, ss) == f = [i \in 1..Len(ss) |-> IF i = 1 THEN ss[i] ELSE f[i - 1] \o ss[i]]

LEMMA FlattenIs ==
  ASSUME NEW T, NEW ss \in Seq(Seq(T)), ss # <<>>
  PROVE  \E f : Flattening(f, ss) /\ FlattenSeq(ss) = f[Len(ss)]
<1> DEFINE n == Len(ss)
           step == [p \in Seq(T) \X (1..n) |-> p[1] \o ss[p[2]]]
           f == CHOOSE f : Flattening(f, ss)
<1>1. n \in Nat \ {0} /\ \A i \in 1..n : ss[i] \in Seq(T)
  BY EmptySeq, LenProperties
<1>2. \A s \in Seq(T), i \in 1..n : s \o ss[i] \in Seq(T) /\ step[<<s, i>>] = s \o ss[i]
  BY <1>1, ConcatProperties
<1>3. step \in [Seq(T) \X (1..n) -> Seq(T)] /\ <<>> \in Seq(T)
  BY <1>1, <1>2, EmptySeq
<1>4. PICK g \in [0..n -> Seq(T)] : Stepping(g, <<>>, step, n)
  <2> HIDE DEF step, n
  <2> QED BY <1>1, <1>3, RunExists
<1> DEFINE h == [i \in 1..n |-> g[i]]
<1>5. \A i \in 1..n : h[i] = IF i = 1 THEN ss[i] ELSE h[i - 1] \o ss[i]
  <2>1. TAKE i \in 1..n
  <2>2. g[i] = g[i - 1] \o ss[i] /\ g[i - 1] \in Seq(T)
    <3>1. i \in 0..n /\ i # 0 /\ i - 1 \in 0..n
      BY <1>1
    <3>2. g[i] = step[<<g[i - 1], i>>] /\ g[i - 1] \in Seq(T)
      <4> HIDE DEF step
      <4> QED BY <1>4, <3>1 DEF Stepping
    <3> QED BY <1>2, <3>2
  <2>3. CASE i = 1
    <3>1. g[i - 1] = <<>>
      BY <1>1, <1>4, <2>3 DEF Stepping
    <3> QED BY <1>1, <2>2, <2>3, <3>1, ConcatEmptySeq
  <2>4. CASE i # 1
    <3>1. i - 1 \in 1..n /\ h[i - 1] = g[i - 1] /\ h[i] = g[i]
      BY <1>1, <2>4
    <3> QED BY <2>2, <2>4, <3>1
  <2> QED BY <2>3, <2>4
<1>6. Flattening(h, ss)
  BY <1>5 DEF Flattening
<1> HIDE DEF h
<1>7. Flattening(f, ss)
  BY <1>6
<1>8. FlattenSeq(ss) = f[Len(ss)]
  BY <1>1 DEF FlattenSeq, Flattening
<1> HIDE DEF f
<1> QED BY <1>7, <1>8

LEMMA FlattenAppended ==
  ASSUME NEW T, NEW ss \in Seq(Seq(T)), NEW s \in Seq(T)
  PROVE  FlattenSeq(Append(ss, s)) = FlattenSeq(ss) \o s
<1> DEFINE n == Len(ss)
           tt == Append(ss, s)
<1>1. /\ n \in Nat /\ tt \in Seq(Seq(T)) /\ tt # <<>> /\ Len(tt) = n + 1
      /\ tt[n + 1] = s /\ \A i \in 1..n : tt[i] = ss[i]
  BY AppendProperties, LenProperties
<1>2. PICK h : Flattening(h, tt) /\ FlattenSeq(tt) = h[n + 1]
  <2> HIDE DEF tt
  <2> QED BY <1>1, FlattenIs
<1> HIDE DEF tt
<1>3. CASE n = 0
  <2>1. ss = <<>> /\ FlattenSeq(ss) = <<>>
    <3>1. ss = <<>>
      BY <1>3, EmptySeq
    <3> QED BY <3>1, EmptySeq DEF FlattenSeq
  <2>2. h[n + 1] = s
    BY <1>1, <1>2, <1>3 DEF Flattening
  <2> QED BY <1>2, <2>1, <2>2, ConcatEmptySeq DEF tt
<1>4. CASE n # 0
  <2>1. PICK g : Flattening(g, ss) /\ FlattenSeq(ss) = g[n]
    <3>1. ss # <<>>
      BY <1>4, EmptySeq
    <3> QED BY <3>1, FlattenIs
  <2> DEFINE G == {i \in 1..n : g[i] = h[i]}
  <2>2. ASSUME NEW i \in 1..n, \A j \in 1..n : j < i => j \in G
        PROVE  i \in G
    <3>1. /\ g[i] = IF i = 1 THEN ss[i] ELSE g[i - 1] \o ss[i]
          /\ h[i] = IF i = 1 THEN tt[i] ELSE h[i - 1] \o tt[i]
      <4>1. i \in 1..Len(tt) /\ i \in 1..Len(ss)
        BY <1>1
      <4> HIDE DEF n
      <4> QED BY <1>2, <2>1, <4>1 DEF Flattening
    <3>2. i # 1 => i - 1 \in G
      BY <1>1, <2>2
    <3> QED BY <1>1, <3>1, <3>2
  <2>3. G = 1..n
    <3>1. G \in SUBSET (1..n)
      OBVIOUS
    <3> HIDE DEF G
    <3> QED BY <1>1, <2>2, <3>1, FirstToLast
  <2>4. g[n] = h[n]
    <3>1. n \in 1..n
      BY <1>1, <1>4
    <3> QED BY <2>3, <3>1
  <2>5. h[n + 1] = h[n] \o s
    <3>1. n + 1 \in 1..Len(tt) /\ n + 1 # 1 /\ (n + 1) - 1 = n
      BY <1>1, <1>4
    <3>2. h[n + 1] = h[(n + 1) - 1] \o tt[n + 1]
      <4> HIDE DEF n
      <4> QED BY <1>2, <3>1 DEF Flattening
    <3> QED BY <1>1, <3>1, <3>2
  <2> QED BY <1>2, <2>1, <2>4, <2>5 DEF tt
<1> QED BY <1>3, <1>4

LEMMA FlattenEmpty == FlattenSeq(<<>>) = <<>>
BY EmptySeq DEF FlattenSeq

LEMMA FlattenFits ==
  ASSUME NEW T, NEW ss \in Seq(Seq(T))
  PROVE  FlattenSeq(ss) \in Seq(T)
<1> DEFINE G == {tt \in Seq(Seq(T)) : FlattenSeq(tt) \in Seq(T)}
<1>1. <<>> \in G
  BY FlattenEmpty, EmptySeq
<1>2. ASSUME NEW tt \in Seq(Seq(T)), NEW s \in Seq(T), tt \in G
      PROVE  Append(tt, s) \in G
  <2>1. FlattenSeq(Append(tt, s)) = FlattenSeq(tt) \o s /\ Append(tt, s) \in Seq(Seq(T))
    BY FlattenAppended, AppendProperties
  <2> QED BY <1>2, <2>1, ConcatProperties
<1>3. Seq(Seq(T)) \subseteq G
  <2> HIDE DEF G
  <2> QED BY <1>1, <1>2, SeqInduct
<1> QED BY <1>3

(* The elements of a sequence through a function, and those joined. *)
Mapped(s, f) == [i \in DOMAIN s |-> f[s[i]]]

LEMMA MapIs ==
  ASSUME NEW X, NEW Y, NEW f \in [X -> Y], NEW s \in Seq(X)
  PROVE  Mapped(s, f) \in Seq(Y)
<1>1. Len(s) \in Nat /\ DOMAIN s = 1..Len(s) /\ \A i \in 1..Len(s) : s[i] \in X
  BY LenProperties
<1>2. Mapped(s, f) \in [1..Len(s) -> Y]
  BY <1>1 DEF Mapped
<1> QED BY <1>1, <1>2, SeqDef

LEMMA MapLong ==
  ASSUME NEW X, NEW f, NEW s \in Seq(X)
  PROVE  /\ Len(Mapped(s, f)) = Len(s) /\ DOMAIN Mapped(s, f) = 1..Len(s)
         /\ \A i \in 1..Len(s) : Mapped(s, f)[i] = f[s[i]]
<1>1. Len(s) \in Nat /\ DOMAIN s = 1..Len(s)
  BY LenProperties
<1>2. DOMAIN Mapped(s, f) = 1..Len(s)
  BY <1>1 DEF Mapped
<1> QED BY <1>1, <1>2 DEF Mapped

LEMMA MapEmpty ==
  ASSUME NEW f
  PROVE  Mapped(<<>>, f) = <<>>
BY DEF Mapped

LEMMA MapAppended ==
  ASSUME NEW X, NEW Y, NEW f \in [X -> Y], NEW s \in Seq(X), NEW x \in X
  PROVE  Mapped(Append(s, x), f) = Append(Mapped(s, f), f[x])
<1> DEFINE n == Len(s)
           t == Append(s, x)
           u == Append(Mapped(s, f), f[x])
<1>1. n \in Nat /\ t \in Seq(X) /\ Len(t) = n + 1 /\ t[n + 1] = x /\ \A i \in 1..n : t[i] = s[i]
  BY AppendProperties, LenProperties
<1>2. /\ Mapped(s, f) \in Seq(Y) /\ Len(Mapped(s, f)) = n
      /\ \A i \in 1..n : Mapped(s, f)[i] = f[s[i]]
  BY MapIs, MapLong
<1>3. /\ Mapped(t, f) \in Seq(Y) /\ Len(Mapped(t, f)) = n + 1
      /\ \A i \in 1..(n + 1) : Mapped(t, f)[i] = f[t[i]]
  <2> HIDE DEF t
  <2> QED BY <1>1, MapIs, MapLong
<1>4. f[x] \in Y
  OBVIOUS
<1>5. u \in Seq(Y) /\ Len(u) = n + 1 /\ u[n + 1] = f[x] /\ \A i \in 1..n : u[i] = Mapped(s, f)[i]
  <2> HIDE DEF n
  <2> QED BY <1>2, <1>4, AppendProperties
<1>6. \A i \in 1..(n + 1) : Mapped(t, f)[i] = u[i]
  <2> HIDE DEF n, t, u
  <2> TAKE i \in 1..(n + 1)
  <2>1. i \in 1..n \/ i = n + 1
    BY <1>1
  <2> QED BY <1>1, <1>2, <1>3, <1>5, <2>1
<1>7. Mapped(t, f) = u
  <2> HIDE DEF n, t, u
  <2> QED BY <1>3, <1>5, <1>6, SeqEqual
<1> QED BY <1>7

FlatMapped(s, f) == FlattenSeq(Mapped(s, f))

LEMMA FlatMapEmpty ==
  ASSUME NEW f
  PROVE  FlatMapped(<<>>, f) = <<>>
BY MapEmpty, FlattenEmpty DEF FlatMapped

LEMMA FlatMapIs ==
  ASSUME NEW X, NEW Y, NEW f \in [X -> Seq(Y)], NEW s \in Seq(X)
  PROVE  FlatMapped(s, f) \in Seq(Y)
<1>1. Mapped(s, f) \in Seq(Seq(Y))
  BY MapIs
<1> QED BY <1>1, FlattenFits DEF FlatMapped

LEMMA FlatMapAppended ==
  ASSUME NEW X, NEW Y, NEW f \in [X -> Seq(Y)], NEW s \in Seq(X), NEW x \in X
  PROVE  FlatMapped(Append(s, x), f) = FlatMapped(s, f) \o f[x]
<1>1. Mapped(s, f) \in Seq(Seq(Y)) /\ f[x] \in Seq(Y)
  BY MapIs
<1>2. Mapped(Append(s, x), f) = Append(Mapped(s, f), f[x])
  BY MapAppended
<1>3. FlattenSeq(Append(Mapped(s, f), f[x])) = FlattenSeq(Mapped(s, f)) \o f[x]
  BY <1>1, FlattenAppended
<1> QED BY <1>2, <1>3 DEF FlatMapped

Weighing(v, f, w, X, Y) ==
  /\ f \in [X -> Seq(Y)] /\ w \in [Y -> Nat] /\ v \in [X -> Nat]
  /\ \A x \in X : v[x] = Weight(f[x], w)

LEMMA FlatMapWeighs ==
  ASSUME NEW X, NEW Y, NEW f, NEW w, NEW v, Weighing(v, f, w, X, Y), NEW s \in Seq(X)
  PROVE  Weight(FlatMapped(s, f), w) = Weight(s, v)
<1>0. f \in [X -> Seq(Y)] /\ w \in [Y -> Nat] /\ v \in [X -> Nat] /\ \A x \in X : v[x] = Weight(f[x], w)
  BY DEF Weighing
<1> DEFINE G == {t \in Seq(X) : Weight(FlatMapped(t, f), w) = Weight(t, v)}
<1>1. <<>> \in G
  BY FlatMapEmpty, EmptySeq, WeightEmpty
<1>2. ASSUME NEW t \in Seq(X), NEW x \in X, t \in G
      PROVE  Append(t, x) \in G
  <2>1. FlatMapped(Append(t, x), f) = FlatMapped(t, f) \o f[x] /\ FlatMapped(t, f) \in Seq(Y) /\ f[x] \in Seq(Y)
    <3>1. FlatMapped(Append(t, x), f) = FlatMapped(t, f) \o f[x]
      BY <1>0, FlatMapAppended
    <3>2. FlatMapped(t, f) \in Seq(Y)
      BY <1>0, FlatMapIs
    <3>3. f[x] \in Seq(Y)
      BY <1>0
    <3> QED BY <3>1, <3>2, <3>3
  <2>2. Weight(FlatMapped(t, f) \o f[x], w) = Weight(FlatMapped(t, f), w) + Weight(f[x], w)
    BY <1>0, <2>1, WeightJoined
  <2>3. Weight(Append(t, x), v) = Weight(t, v) + v[x]
    BY <1>0, WeightAppended
  <2>4. Append(t, x) \in Seq(X) /\ v[x] = Weight(f[x], w)
    BY <1>0, AppendProperties
  <2> QED BY <1>2, <2>1, <2>2, <2>3, <2>4
<1>3. Seq(X) \subseteq G
  <2> HIDE DEF G
  <2> QED BY <1>1, <1>2, SeqInduct
<1> QED BY <1>3

(* How often something is in a sequence. *)
Occurs(s, x) == Cardinality({i \in DOMAIN s : s[i] = x})

LEMMA OccursIs ==
  ASSUME NEW S, NEW s \in Seq(S), NEW x
  PROVE  Occurs(s, x) \in Nat /\ (Occurs(s, x) = 0 <=> \A i \in 1..Len(s) : s[i] # x)
<1> DEFINE P == {i \in DOMAIN s : s[i] = x}
<1>1. Len(s) \in Nat /\ DOMAIN s = 1..Len(s)
  BY LenProperties
<1>2. IsFiniteSet(1..Len(s))
  BY <1>1, FS_Interval
<1>3. IsFiniteSet(P) /\ Cardinality(P) \in Nat
  <2>1. P \in SUBSET (1..Len(s))
    BY <1>1
  <2> QED BY <1>2, <2>1, FS_Subset, FS_CardinalityType
<1>4. Cardinality(P) = 0 <=> P = {}
  BY <1>3, FS_EmptySet
<1> QED BY <1>1, <1>3, <1>4 DEF Occurs

LEMMA OccursRemoved ==
  ASSUME NEW S, NEW s \in Seq(S), NEW k \in 1..Len(s), NEW x
  PROVE  Occurs(RemoveAt(s, k), x) = Occurs(s, x) - (IF s[k] = x THEN 1 ELSE 0)
<1> DEFINE n == Len(s)
           r == RemoveAt(s, k)
           P == {i \in 1..n : s[i] = x}
           Q == {i \in 1..(n - 1) : r[i] = x}
           f == [i \in Q |-> IF i < k THEN i ELSE i + 1]
<1>1. n \in Nat /\ DOMAIN s = 1..n /\ k \in 1..n
  BY LenProperties
<1>2. /\ r \in Seq(S) /\ Len(r) = n - 1
      /\ \A i \in 1..(n - 1) : r[i] = s[IF i < k THEN i ELSE i + 1]
  BY RemovedIs
<1> HIDE DEF r
<1>3. DOMAIN r = 1..(n - 1)
  BY <1>1, <1>2, LenProperties
<1>4. Occurs(s, x) = Cardinality(P) /\ Occurs(r, x) = Cardinality(Q)
  BY <1>1, <1>3 DEF Occurs
<1>5. IsFiniteSet(P) /\ IsFiniteSet(Q)
  <2>1. IsFiniteSet(1..n) /\ IsFiniteSet(1..(n - 1))
    BY <1>1, FS_Interval
  <2> QED BY <2>1, FS_Subset
<1>6. f \in Bijection(Q, P \ {k})
  <2>1. \A i \in Q : f[i] \in P \ {k}
    BY <1>1, <1>2
  <2>2. \A i, j \in Q : f[i] = f[j] => i = j
    BY <1>1
  <2>3. ASSUME NEW j \in P \ {k}
        PROVE  \E i \in Q : f[i] = j
    <3>1. CASE j < k
      <4>1. j \in 1..(n - 1)
        BY <1>1, <3>1
      <4>2. j \in Q /\ f[j] = j
        BY <1>2, <3>1, <4>1
      <4> QED BY <4>2
    <3>2. CASE ~(j < k)
      <4>1. j - 1 \in 1..(n - 1) /\ ~(j - 1 < k) /\ (j - 1) + 1 = j
        BY <1>1, <2>3, <3>2
      <4>2. j - 1 \in Q /\ f[j - 1] = j
        BY <1>2, <4>1
      <4> QED BY <4>2
    <3> QED BY <3>1, <3>2
  <2>4. f \in [Q -> P \ {k}] /\ DOMAIN f = Q
    BY <2>1
  <2> HIDE DEF f, P, Q
  <2> QED BY <2>2, <2>3, <2>4 DEF Bijection, Injection, Surjection, IsInjective
<1> HIDE DEF f
<1>7. Cardinality(P \ {k}) = Cardinality(Q)
  <2>1. ExistsBijection(Q, P \ {k})
    BY <1>6 DEF ExistsBijection
  <2> QED BY <1>5, <2>1, FS_Bijection
<1>8. Cardinality(P \ {k}) = IF k \in P THEN Cardinality(P) - 1 ELSE Cardinality(P)
  BY <1>5, FS_RemoveElement
<1>9. k \in P <=> s[k] = x
  BY <1>1
<1>10. Cardinality(P) \in Nat
  BY <1>5, FS_CardinalityType
<1> HIDE DEF P, Q
<1> QED BY <1>4, <1>7, <1>8, <1>9, <1>10 DEF r

LEMMA OccursInserted ==
  ASSUME NEW S, NEW s \in Seq(S), NEW k \in 1..(Len(s) + 1), NEW e \in S, NEW x
  PROVE  Occurs(InsertAt(s, k, e), x) = Occurs(s, x) + (IF e = x THEN 1 ELSE 0)
<1> DEFINE t == InsertAt(s, k, e)
<1>1. t \in Seq(S) /\ Len(t) = Len(s) + 1 /\ t[k] = e /\ RemoveAt(t, k) = s
  BY InsertedIs
<1> HIDE DEF t
<1>2. Occurs(s, x) = Occurs(t, x) - (IF e = x THEN 1 ELSE 0)
  BY <1>1, OccursRemoved
<1>3. Occurs(t, x) \in Nat /\ Occurs(s, x) \in Nat
  BY <1>1, OccursIs
<1> QED BY <1>2, <1>3 DEF t

LEMMA OccursEmpty ==
  ASSUME NEW x
  PROVE  Occurs(<<>>, x) = 0
<1> DEFINE e == <<>>
<1>1. e \in Seq({}) /\ Len(e) = 0
  OBVIOUS
<1> HIDE DEF e
<1>2. \A i \in 1..Len(e) : e[i] # x
  BY <1>1
<1>3. Occurs(e, x) = 0
  BY <1>1, <1>2, OccursIs
<1> QED BY <1>3 DEF e

LEMMA OccursAppended ==
  ASSUME NEW S, NEW s \in Seq(S), NEW e \in S, NEW x
  PROVE  Occurs(Append(s, e), x) = Occurs(s, x) + (IF e = x THEN 1 ELSE 0)
<1> DEFINE t == Append(s, e)
           n == Len(s)
<1>1. /\ t \in Seq(S) /\ Len(t) = n + 1 /\ t[n + 1] = e
      /\ \A i \in 1..n : t[i] = s[i]
  BY AppendProperties
<1>2. n \in Nat /\ n + 1 \in 1..Len(t)
  BY <1>1, LenProperties
<1> HIDE DEF t
<1>3. /\ RemoveAt(t, n + 1) \in Seq(S) /\ Len(RemoveAt(t, n + 1)) = n
      /\ \A i \in 1..n : RemoveAt(t, n + 1)[i] = s[i]
  <2>1. /\ RemoveAt(t, n + 1) \in Seq(S) /\ Len(RemoveAt(t, n + 1)) = Len(t) - 1
        /\ \A i \in 1..(Len(t) - 1) : RemoveAt(t, n + 1)[i] = t[IF i < n + 1 THEN i ELSE i + 1]
    BY <1>1, <1>2, RemovedIs
  <2>2. Len(t) - 1 = n /\ \A i \in 1..n : i < n + 1
    BY <1>1, <1>2
  <2> QED BY <1>1, <2>1, <2>2
<1>4. RemoveAt(t, n + 1) = s
  BY <1>3, SeqEqual
<1>5. Occurs(s, x) = Occurs(t, x) - (IF e = x THEN 1 ELSE 0)
  BY <1>1, <1>2, <1>4, OccursRemoved
<1>6. Occurs(t, x) \in Nat /\ Occurs(s, x) \in Nat
  BY <1>1, OccursIs
<1> QED BY <1>5, <1>6 DEF t


(* Induction over finite sets, for a set of them. *)
LEMMA SetInduct ==
  ASSUME NEW K, IsFiniteSet(K), NEW G, {} \in G,
         \A T \in SUBSET K : \A k \in K : T \in G /\ k \notin T => (T \cup {k}) \in G
  PROVE  K \in G
<1> DEFINE Bad == {n \in Nat : \E T \in SUBSET K : Cardinality(T) = n /\ T \notin G}
           m == Min(Bad)
<1>1. \A T \in SUBSET K : IsFiniteSet(T) /\ Cardinality(T) \in Nat
  BY FS_Subset, FS_CardinalityType
<1>2. ASSUME Bad # {}
      PROVE  FALSE
  <2>1. m \in Bad /\ \A n \in Bad : m <= n
    <3>1. Bad \in SUBSET Nat
      OBVIOUS
    <3> HIDE DEF Bad
    <3> QED BY <1>2, <3>1, MinIs
  <2>2. PICK T \in SUBSET K : Cardinality(T) = m /\ T \notin G
    BY <2>1
  <2>3. PICK k \in T : TRUE
    BY <2>2
  <2> DEFINE R == T \ {k}
  <2>4. R \in SUBSET K /\ k \in K /\ k \notin R /\ R \cup {k} = T
    BY <2>2, <2>3
  <2>5. Cardinality(T) \in Nat \ {0} /\ Cardinality(R) = Cardinality(T) - 1
    BY <1>1, <2>2, <2>3, OneLess
  <2>6. Cardinality(R) \in Nat /\ ~(m <= Cardinality(R))
    BY <2>2, <2>5
  <2> HIDE DEF R
  <2>7. R \in G
    <3>1. Cardinality(R) \notin Bad
      <4> HIDE DEF Bad
      <4> QED BY <2>1, <2>6
    <3> QED BY <2>4, <2>6, <3>1
  <2> QED BY <2>2, <2>4, <2>7
<1>3. ASSUME K \notin G
      PROVE  FALSE
  <2>1. Cardinality(K) \in Bad
    BY <1>1, <1>3
  <2> QED BY <1>2, <2>1
<1> QED BY <1>3

LEMMA SumAdded ==
  ASSUME NEW f, NEW T, IsFiniteSet(T), NEW k, k \notin T, Counting(f, T \cup {k})
  PROVE  Sum(f, T) \in Nat /\ f[k] \in Nat /\ Sum(f, T \cup {k}) = f[k] + Sum(f, T)
<1> DEFINE S == T \cup {k}
<1>1. IsFiniteSet(S) /\ Counting(f, S) /\ k \in S /\ f[k] \in Nat
  BY FS_AddElement DEF Counting
<1>2. Sum(f, S) \in Nat /\ Sum(f, S \ {k}) \in Nat /\ Sum(f, S) = f[k] + Sum(f, S \ {k})
  <2> HIDE DEF S
  <2> QED BY <1>1, SumWithout
<1>3. S \ {k} = T
  OBVIOUS
<1> QED BY <1>1, <1>2, <1>3

(* A sum is the sum of the sums over parts. *)
LEMMA SumParts ==
  ASSUME NEW f, NEW S, IsFiniteSet(S), Counting(f, S), NEW K, IsFiniteSet(K), NEW c, \A x \in S : c[x] \in K
  PROVE  Sum([k \in K |-> Sum(f, {x \in S : c[x] = k})], K) = Sum(f, S)
<1> DEFINE g == [k \in K |-> Sum(f, {x \in S : c[x] = k})]
           In(T) == {x \in S : c[x] \in T}
           G == {T \in SUBSET K : Sum(g, T) = Sum(f, In(T))}
<1>1. \A k \in K : g[k] = Sum(f, {x \in S : c[x] = k}) /\ g[k] \in Nat
  <2> TAKE k \in K
  <2> DEFINE P == {x \in S : c[x] = k}
  <2>1. IsFiniteSet(P) /\ \A x \in P : f[x] \in Nat
    <3>1. P \in SUBSET S
      OBVIOUS
    <3> QED BY <3>1, FS_Subset DEF Counting
  <2>2. Sum(f, P) \in Nat
    <3> HIDE DEF P
    <3> QED BY <2>1, SumCounts
  <2> QED BY <2>2
<1>2. {} \in G
  <2>1. In({}) = {}
    OBVIOUS
  <2>2. Sum(g, {}) = 0 /\ Sum(f, {}) = 0
    BY SumEmpty
  <2> QED BY <2>1, <2>2
<1>3. ASSUME NEW T \in SUBSET K, NEW k \in K, T \in G, k \notin T
      PROVE  (T \cup {k}) \in G
  <2> DEFINE P == {x \in S : c[x] = k}
             Q == In(T)
  <2>1. IsFiniteSet(T) /\ IsFiniteSet(P) /\ IsFiniteSet(Q) /\ P \cap Q = {} /\ In(T \cup {k}) = P \cup Q
    <3>1. P \in SUBSET S /\ Q \in SUBSET S
      OBVIOUS
    <3>2. P \cap Q = {} /\ In(T \cup {k}) = P \cup Q
      BY <1>3
    <3> QED BY <3>1, <3>2, FS_Subset
  <2>2. Integral(f, P \cup Q)
    BY DEF Integral, Counting
  <2>3. Counting(g, T \cup {k}) /\ g[k] = Sum(f, P)
    BY <1>1, <1>3 DEF Counting
  <2>4. Sum(g, T) = Sum(f, Q)
    BY <1>3
  <2> HIDE DEF P, Q, g
  <2>5. Sum(g, T) \in Nat /\ g[k] \in Nat /\ Sum(g, T \cup {k}) = g[k] + Sum(g, T)
    BY <1>3, <2>1, <2>3, SumAdded
  <2>6. Sum(f, P \cup Q) = Sum(f, P) + Sum(f, Q)
    BY <2>1, <2>2, SumUnion
  <2>7. Sum(g, T \cup {k}) = Sum(f, In(T \cup {k}))
    <3> HIDE DEF In
    <3> QED BY <2>1, <2>3, <2>4, <2>5, <2>6
  <2> QED BY <2>7 DEF g
<1>4. K \in G
  <2> HIDE DEF G
  <2> QED BY <1>2, <1>3, SetInduct
<1>5. In(K) = S
  OBVIOUS
<1> QED BY <1>4, <1>5

LEMMA ToSetAppended ==
  ASSUME NEW X, NEW s \in Seq(X), NEW x \in X
  PROVE  /\ ToSet(Append(s, x)) = ToSet(s) \cup {x}
         /\ Once(Append(s, x)) => Once(s) /\ x \notin ToSet(s)
<1> DEFINE n == Len(s)
           t == Append(s, x)
<1>1. n \in Nat /\ DOMAIN s = 1..n
  BY LenProperties
<1>2. t \in Seq(X) /\ Len(t) = n + 1 /\ DOMAIN t = 1..(n + 1) /\ t[n + 1] = x /\ \A i \in 1..n : t[i] = s[i]
  BY <1>1, AppendProperties, LenProperties
<1>3. 1..(n + 1) = (1..n) \cup {n + 1} /\ n + 1 \notin 1..n
  BY <1>1
<1> HIDE DEF t, n
<1>4. ToSet(t) = ToSet(s) \cup {x}
  BY <1>1, <1>2, <1>3 DEF ToSet
<1>5. ASSUME Once(t)
      PROVE  Once(s) /\ x \notin ToSet(s)
  <2>1. \A i, j \in 1..(n + 1) : t[i] = t[j] => i = j
    BY <1>2, <1>5 DEF Once
  <2>2. Once(s)
    BY <1>2, <1>3, <2>1 DEF Once, n
  <2>3. \A i \in 1..n : s[i] # x
    BY <1>2, <1>3, <2>1
  <2> QED BY <1>1, <2>2, <2>3 DEF ToSet
<1> QED BY <1>4, <1>5 DEF t

(* A sequence without repetition weighs what its elements weigh together. *)
LEMMA WeightOnce ==
  ASSUME NEW X, NEW f \in [X -> Nat], NEW s \in Seq(X), Once(s)
  PROVE  IsFiniteSet(ToSet(s)) /\ Weight(s, f) = Sum(f, ToSet(s))
<1> DEFINE G == {t \in Seq(X) : Once(t) => IsFiniteSet(ToSet(t)) /\ Weight(t, f) = Sum(f, ToSet(t))}
<1>1. <<>> \in G
  <2>1. ToSet(<<>>) = {}
    BY DEF ToSet
  <2> QED BY <2>1, EmptySeq, WeightEmpty, SumEmpty, FS_EmptySet
<1>2. ASSUME NEW t \in Seq(X), NEW x \in X, t \in G
      PROVE  Append(t, x) \in G
  <2> SUFFICES ASSUME Once(Append(t, x))
               PROVE  /\ IsFiniteSet(ToSet(Append(t, x)))
                      /\ Weight(Append(t, x), f) = Sum(f, ToSet(Append(t, x)))
    BY AppendProperties
  <2>1. ToSet(Append(t, x)) = ToSet(t) \cup {x} /\ Once(t) /\ x \notin ToSet(t)
    BY ToSetAppended
  <2>2. IsFiniteSet(ToSet(t)) /\ Weight(t, f) = Sum(f, ToSet(t))
    BY <1>2, <2>1
  <2>3. Weight(Append(t, x), f) = Weight(t, f) + f[x]
    BY WeightAppended
  <2>4. Counting(f, ToSet(t) \cup {x})
    BY LenProperties DEF Counting, ToSet
  <2>5. Sum(f, ToSet(t)) \in Nat /\ f[x] \in Nat /\ Sum(f, ToSet(t) \cup {x}) = f[x] + Sum(f, ToSet(t))
    BY <2>1, <2>2, <2>4, SumAdded
  <2> QED BY <2>1, <2>2, <2>3, <2>5, FS_AddElement
<1>3. Seq(X) \subseteq G
  <2> HIDE DEF G
  <2> QED BY <1>1, <1>2, SeqInduct
<1> QED BY <1>3

(* The elements of a finite set in some order. *)
LEMMA InSomeOrder ==
  ASSUME NEW S, IsFiniteSet(S)
  PROVE  SetToSeq(S) \in Seq(S) /\ Once(SetToSeq(S)) /\ ToSet(SetToSeq(S)) = S
<1> DEFINE n == Cardinality(S)
           f == SetToSeq(S)
<1>1. n \in Nat /\ ExistsBijection(1..n, S)
  BY FS_CardinalityType
<1>2. \E g \in [1..n -> S] : IsInjective(g)
  BY <1>1 DEF ExistsBijection, Bijection, Injection
<1>3. f \in [1..n -> S] /\ IsInjective(f)
  BY <1>2 DEF SetToSeq
<1>4. Cardinality(1..n) = n
  BY <1>1, FS_Interval
<1>5. f \in Surjection(1..n, S)
  BY <1>3, <1>4, FS_Injection DEF Injection
<1>6. \A e \in S : \E i \in 1..n : f[i] = e
  BY <1>5 DEF Surjection
<1>7. f \in Seq(S)
  BY <1>1, <1>3
<1>8. Len(f) = n
  BY <1>1, <1>3, <1>7, LenProperties
<1>9. Once(f)
  BY <1>3, <1>8 DEF Once, IsInjective
<1> QED BY <1>3, <1>6, <1>7, <1>9 DEF ToSet

(* What weighs the same in every way is there equally often. *)
LEMMA OccursWeigh ==
  ASSUME NEW X, NEW s \in Seq(X), NEW e
  PROVE  Occurs(s, e) = Weight(s, [x \in X |-> IF x = e THEN 1 ELSE 0])
<1> DEFINE w == [x \in X |-> IF x = e THEN 1 ELSE 0]
           G == {t \in Seq(X) : Occurs(t, e) = Weight(t, w)}
<1>1. w \in [X -> Nat] /\ \A x \in X : w[x] = IF e = x THEN 1 ELSE 0
  OBVIOUS
<1>2. <<>> \in G
  BY OccursEmpty, WeightEmpty, EmptySeq
<1>3. ASSUME NEW t \in Seq(X), NEW x \in X, t \in G
      PROVE  Append(t, x) \in G
  <2>1. Occurs(Append(t, x), e) = Occurs(t, e) + (IF x = e THEN 1 ELSE 0)
    BY OccursAppended
  <2>2. Weight(Append(t, x), w) = Weight(t, w) + w[x]
    <3> HIDE DEF w
    <3> QED BY <1>1, WeightAppended
  <2> QED BY <1>1, <1>3, <2>1, <2>2, AppendProperties
<1>4. Seq(X) \subseteq G
  <2> HIDE DEF G
  <2> QED BY <1>2, <1>3, SeqInduct
<1> QED BY <1>4

(* One sequence after another. *)
LEMMA Joined ==
  ASSUME NEW S, NEW s \in Seq(S), NEW t \in Seq(S)
  PROVE  /\ s \o t \in Seq(S) /\ Len(s \o t) = Len(s) + Len(t)
         /\ \A i \in 1..(Len(s) + Len(t)) : (s \o t)[i] = IF i <= Len(s) THEN s[i] ELSE t[i - Len(s)]
BY ConcatProperties

(* FoldLeft adds in the order of the sequence, by a recursive function on   *)
(* the sets of places.                                                      *)
Folding(g, a, step, D) == g = [s \in D |-> IF s = {} THEN a ELSE step[<<g[s \ {Max(s)}], Max(s)>>]]

LEMMA FoldingExists ==
  ASSUME NEW n \in Nat, NEW X, NEW a \in X, NEW step \in [X \X (1..n) -> X]
  PROVE  \E g \in [SUBSET (1..n) -> X] : Folding(g, a, step, SUBSET (1..n))
<1> DEFINE S == 1..n
           D(k) == {s \in SUBSET S : Cardinality(s) <= k}
           Bad == {k \in Nat : ~\E g \in [D(k) -> X] : Folding(g, a, step, D(k))}
           m == Min(Bad)
<1>1. IsFiniteSet(S) /\ \A s \in SUBSET S : IsFiniteSet(s) /\ Cardinality(s) \in Nat /\ Cardinality(s) <= Cardinality(S)
  <2>1. IsFiniteSet(S)
    BY FS_Interval
  <2> HIDE DEF S
  <2> QED BY <2>1, FS_Subset, FS_CardinalityType
<1>2. \A s \in SUBSET S : s # {} => /\ Max(s) \in s /\ s \ {Max(s)} \in SUBSET S /\ Max(s) \in 1..n
                                    /\ Cardinality(s \ {Max(s)}) = Cardinality(s) - 1
                                    /\ Cardinality(s) \in Nat \ {0}
  <2>1. ASSUME NEW s \in SUBSET S, s # {}
        PROVE  Max(s) \in s
    <3>1. s \in SUBSET (0..n)
      OBVIOUS
    <3> QED BY <2>1, <3>1, MaxIs
  <2> QED BY <1>1, <2>1, OneLess
<1>3. ASSUME Bad # {}
      PROVE  FALSE
  <2> HIDE DEF D, S
  <2>1. m \in Nat /\ ~(\E g \in [D(m) -> X] : Folding(g, a, step, D(m)))
        /\ \A k \in Nat : k < m => \E g \in [D(k) -> X] : Folding(g, a, step, D(k))
    <3>1. m \in Bad /\ \A k \in Bad : m <= k
      <4> HIDE DEF Bad
      <4>1. Bad \in SUBSET Nat
        BY DEF Bad
      <4> QED BY <1>3, <4>1, MinIs
    <3> HIDE DEF m
    <3> QED BY <3>1
  <2> HIDE DEF m
  <2>2. CASE m = 0
    <3>1. ASSUME NEW s \in D(m)
          PROVE  s = {}
      <4>1. s \in SUBSET S /\ ~(Cardinality(s) \in Nat \ {0})
        BY <2>2 DEF D
      <4> QED BY <1>2, <4>1
    <3> DEFINE g == [s \in D(m) |-> a]
    <3>2. g \in [D(m) -> X] /\ Folding(g, a, step, D(m))
      BY <3>1 DEF Folding
    <3> HIDE DEF g
    <3> QED BY <2>1, <3>2
  <2>3. CASE m # 0
    <3>1. m - 1 \in Nat /\ m - 1 < m
      BY <2>1, <2>3
    <3>2. PICK g \in [D(m - 1) -> X] : Folding(g, a, step, D(m - 1))
      BY <2>1, <3>1
    <3> DEFINE h == [s \in D(m) |-> IF s = {} THEN a ELSE step[<<g[s \ {Max(s)}], Max(s)>>]]
    <3>3. \A s \in D(m) : s # {} => s \ {Max(s)} \in D(m - 1) /\ s \ {Max(s)} \in D(m) /\ Max(s) \in 1..n
      BY <1>1, <1>2, <2>1, <3>1 DEF D
    <3>4. \A s \in D(m - 1) : s \in D(m) /\ h[s] = g[s]
      <4>1. \A s \in D(m - 1) : s \in D(m)
        BY <1>1, <2>1, <3>1 DEF D
      <4> QED BY <3>2, <4>1 DEF Folding
    <3>5. Folding(h, a, step, D(m))
      BY <3>3, <3>4 DEF Folding
    <3>6. h \in [D(m) -> X]
      BY <3>2, <3>3
    <3> HIDE DEF h
    <3> QED BY <2>1, <3>5, <3>6
  <2> QED BY <2>2, <2>3
<1>4. Cardinality(S) \in Nat /\ D(Cardinality(S)) = SUBSET S
  BY <1>1
<1> HIDE DEF D
<1>5. Cardinality(S) \notin Bad
  BY <1>3
<1> HIDE DEF S
<1>6. \E g \in [D(Cardinality(S)) -> X] : Folding(g, a, step, D(Cardinality(S)))
  BY <1>4, <1>5
<1>7. \E g \in [SUBSET S -> X] : Folding(g, a, step, SUBSET S)
  BY <1>4, <1>6
<1> QED BY <1>7 DEF S

(* From the first element to the last. *)
LEMMA Upto ==
  ASSUME NEW n \in Nat, NEW k \in 1..n
  PROVE  1..k \in SUBSET (1..n) /\ 1..k # {} /\ Max(1..k) = k /\ (1..k) \ {k} = 1..(k - 1)
<1>1. 1..k \in SUBSET (0..n) /\ 1..k # {} /\ k \in 1..k
  OBVIOUS
<1>2. Max(1..k) \in 1..k /\ k <= Max(1..k)
  BY <1>1, MaxIs
<1>3. \A x \in 1..k : k <= x => x = k
  OBVIOUS
<1> QED BY <1>2, <1>3

LEMMA FoldingSteps ==
  ASSUME NEW n \in Nat, NEW a, NEW step, NEW g, Folding(g, a, step, SUBSET (1..n))
  PROVE  g[1..0] = a /\ \A k \in 1..n : g[1..k] = step[<<g[1..(k - 1)], k>>]
<1>1. 1..0 \in SUBSET (1..n) /\ 1..0 = {}
  OBVIOUS
<1>2. ASSUME NEW k \in 1..n
      PROVE  g[1..k] = step[<<g[1..(k - 1)], k>>]
  <2>1. 1..k \in SUBSET (1..n) /\ 1..k # {} /\ Max(1..k) = k /\ (1..k) \ {k} = 1..(k - 1)
    BY Upto
  <2>2. \A s \in SUBSET (1..n) : s # {} => g[s] = step[<<g[s \ {Max(s)}], Max(s)>>]
    BY DEF Folding
  <2> QED BY <2>1, <2>2
<1> QED BY <1>1, <1>2 DEF Folding
-----------------------------------------------------------------------------
(* What is kept of a sequence.                                              *)
SiftedStep(s, S, X) ==
  [q \in Seq(X) \X (1..Len(s)) |-> IF s[q[2]] \in S THEN Append(q[1], s[q[2]]) ELSE q[1]]

LEMMA SiftedFolds ==
  ASSUME NEW X, NEW s \in Seq(X), NEW S
  PROVE  \E g : /\ Sifted(s, S) = g[1..Len(s)] /\ g[1..0] = <<>>
                /\ \A k \in 1..Len(s) : g[1..k] = IF s[k] \in S THEN Append(g[1..(k - 1)], s[k]) ELSE g[1..(k - 1)]
<1> DEFINE n == Len(s)
           step == SiftedStep(s, S, X)
           Grow(t, x) == IF x \in S THEN Append(t, x) ELSE t
           Picks(g) == g = [d \in SUBSET DOMAIN s |->
                              IF d = {} THEN <<>>
                              ELSE IF s[Max(d)] \in S THEN Append(g[d \ {Max(d)}], s[Max(d)]) ELSE g[d \ {Max(d)}]]
<1>1. n \in Nat /\ DOMAIN s = 1..n /\ \A i \in 1..n : s[i] \in X
  BY LenProperties
<1>2. step \in [Seq(X) \X (1..n) -> Seq(X)]
      /\ \A t \in Seq(X), i \in 1..n : step[<<t, i>>] = IF s[i] \in S THEN Append(t, s[i]) ELSE t
  BY <1>1, AppendProperties DEF SiftedStep
<1>3. <<>> \in Seq(X)
  BY EmptySeq
<1>4. PICK h \in [SUBSET (1..n) -> Seq(X)] : Folding(h, <<>>, step, SUBSET (1..n))
  <2> HIDE DEF step, n
  <2> QED BY <1>1, <1>2, <1>3, FoldingExists
<1>5. Picks(h)
  <2> HIDE DEF step, n
  <2>1. \A d \in SUBSET (1..n) : d # {} => Max(d) \in 1..n /\ d \ {Max(d)} \in SUBSET (1..n)
    <3> TAKE d \in SUBSET (1..n)
    <3>1. d \in SUBSET (0..n)
      BY <1>1
    <3> QED BY <1>1, <3>1, MaxIs
  <2>2. \A d \in SUBSET (1..n) : d # {} =>
          step[<<h[d \ {Max(d)}], Max(d)>>]
            = IF s[Max(d)] \in S THEN Append(h[d \ {Max(d)}], s[Max(d)]) ELSE h[d \ {Max(d)}]
    BY <1>2, <1>4, <2>1
  <2> QED BY <1>1, <1>4, <2>2 DEF Folding
<1> DEFINE g == CHOOSE g : Picks(g)
<1>6. Picks(g)
  <2> HIDE DEF Picks
  <2> QED BY <1>5
<1>7. Sifted(s, S) = g[1..n]
  BY <1>1 DEF Sifted, FoldLeft, MapThenFoldSet
<1> HIDE DEF g
<1>8. 1..0 \in SUBSET (1..n) /\ 1..0 = {}
  OBVIOUS
<1>9. ASSUME NEW k \in 1..n
      PROVE  g[1..k] = IF s[k] \in S THEN Append(g[1..(k - 1)], s[k]) ELSE g[1..(k - 1)]
  <2>1. 1..k \in SUBSET (1..n) /\ 1..k # {} /\ Max(1..k) = k /\ (1..k) \ {k} = 1..(k - 1)
    BY <1>1, Upto
  <2> QED BY <1>1, <1>6, <2>1
<1> QED BY <1>1, <1>6, <1>7, <1>8, <1>9

LEMMA SiftedEmpty ==
  ASSUME NEW S
  PROVE  Sifted(<<>>, S) = <<>>
<1> DEFINE s == <<>>
           X == {}
<1>1. Len(s) = 0
  BY EmptySeq
<1>0. s \in Seq(X)
  BY EmptySeq
<1> HIDE DEF s, X
<1>2. PICK g : /\ Sifted(s, S) = g[1..Len(s)] /\ g[1..0] = <<>>
               /\ \A k \in 1..Len(s) : g[1..k] = IF s[k] \in S THEN Append(g[1..(k - 1)], s[k]) ELSE g[1..(k - 1)]
  BY <1>0, SiftedFolds
<1>3. Sifted(s, S) = <<>>
  BY <1>1, <1>2
<1> QED BY <1>3 DEF s

LEMMA SiftedAppended ==
  ASSUME NEW X, NEW s \in Seq(X), NEW x \in X, NEW S
  PROVE  Sifted(Append(s, x), S) = IF x \in S THEN Append(Sifted(s, S), x) ELSE Sifted(s, S)
<1> DEFINE t == Append(s, x)
           n == Len(s)
<1>1. n \in Nat /\ t \in Seq(X) /\ Len(t) = n + 1 /\ t[n + 1] = x /\ \A i \in 1..n : t[i] = s[i]
  BY AppendProperties, LenProperties
<1> HIDE DEF t
<1>2. PICK g : /\ Sifted(s, S) = g[1..n] /\ g[1..0] = <<>>
               /\ \A k \in 1..n : g[1..k] = IF s[k] \in S THEN Append(g[1..(k - 1)], s[k]) ELSE g[1..(k - 1)]
  BY SiftedFolds
<1>3. PICK h : /\ Sifted(t, S) = h[1..Len(t)] /\ h[1..0] = <<>>
               /\ \A k \in 1..Len(t) : h[1..k] = IF t[k] \in S THEN Append(h[1..(k - 1)], t[k]) ELSE h[1..(k - 1)]
  BY <1>1, SiftedFolds
<1> HIDE DEF n
<1>4. ASSUME NEW k \in 0..n, h[1..k] # g[1..k]
      PROVE  FALSE
  <2> DEFINE B == {i \in 0..n : h[1..i] # g[1..i]}
             m == Min(B)
  <2>1. m \in B /\ \A i \in B : m <= i
    <3>1. B \in SUBSET Nat /\ B # {}
      BY <1>1, <1>4
    <3> HIDE DEF B
    <3> QED BY <3>1, MinIs
  <2> HIDE DEF m
  <2>2. m \in 1..n
    BY <1>1, <1>2, <1>3, <2>1
  <2>3. m - 1 \in 0..n /\ ~(m <= m - 1) /\ m \in 1..Len(t)
    BY <1>1, <2>2
  <2>4. h[1..(m - 1)] = g[1..(m - 1)]
    BY <2>1, <2>3
  <2> QED BY <1>1, <1>2, <1>3, <2>1, <2>2, <2>3, <2>4
<1>5. h[1..n] = g[1..n] /\ n + 1 \in 1..Len(t) /\ (n + 1) - 1 = n
  BY <1>1, <1>4
<1>6. h[1..(n + 1)] = IF x \in S THEN Append(h[1..n], x) ELSE h[1..n]
  BY <1>1, <1>3, <1>5
<1> QED BY <1>1, <1>2, <1>3, <1>5, <1>6 DEF t

LEMMA SiftedIs ==
  ASSUME NEW X, NEW s \in Seq(X), NEW S
  PROVE  /\ Sifted(s, S) \in Seq(X) /\ ToSet(Sifted(s, S)) = ToSet(s) \cap S /\ Len(Sifted(s, S)) <= Len(s)
         /\ Once(s) => Once(Sifted(s, S))
<1> DEFINE Good(t) == /\ Sifted(t, S) \in Seq(X) /\ ToSet(Sifted(t, S)) = ToSet(t) \cap S
                      /\ Len(Sifted(t, S)) <= Len(t)
                      /\ Once(t) => Once(Sifted(t, S))
           G == {t \in Seq(X) : Good(t)}
<1>1. <<>> \in G
  <2>1. ToSet(<<>>) = {} /\ Once(<<>>) /\ <<>> \in Seq(X) /\ Len(<<>>) = 0
    BY EmptySeq DEF ToSet, Once
  <2>2. Sifted(<<>>, S) = <<>>
    BY SiftedEmpty
  <2> DEFINE e == <<>>
  <2>3. Sifted(e, S) = e /\ ToSet(e) = {} /\ Once(e) /\ e \in Seq(X) /\ Len(e) = 0
    BY <2>1, <2>2
  <2> HIDE DEF e
  <2>4. Good(e)
    BY <2>3
  <2> HIDE DEF Good
  <2>5. e \in G
    BY <2>3, <2>4
  <2> QED BY <2>5 DEF e
<1>2. ASSUME NEW t \in Seq(X), NEW x \in X, t \in G
      PROVE  Append(t, x) \in G
  <2>1. /\ Append(t, x) \in Seq(X) /\ ToSet(Append(t, x)) = ToSet(t) \cup {x}
        /\ Once(Append(t, x)) => Once(t) /\ x \notin ToSet(t)
        /\ Len(Append(t, x)) = Len(t) + 1 /\ Len(t) \in Nat
    BY ToSetAppended, AppendProperties, LenProperties
  <2>2. Sifted(t, S) \in Seq(X) /\ ToSet(Sifted(t, S)) = ToSet(t) \cap S /\ (Once(t) => Once(Sifted(t, S))) /\ Len(Sifted(t, S)) <= Len(t)
    BY <1>2
  <2>3. CASE x \in S
    <3>1. Sifted(Append(t, x), S) = Append(Sifted(t, S), x)
      BY <2>3, SiftedAppended
    <3>2. /\ Append(Sifted(t, S), x) \in Seq(X) /\ ToSet(Append(Sifted(t, S), x)) = ToSet(Sifted(t, S)) \cup {x}
          /\ Len(Append(Sifted(t, S), x)) = Len(Sifted(t, S)) + 1 /\ Len(Sifted(t, S)) \in Nat
      BY <2>2, ToSetAppended, AppendProperties, LenProperties
    <3>3. ASSUME Once(Append(t, x))
          PROVE  Once(Append(Sifted(t, S), x))
      <4>1. Once(Sifted(t, S)) /\ x \notin ToSet(Sifted(t, S))
        BY <2>1, <2>2, <3>3
      <4> QED BY <2>2, <4>1, OnceAppended
    <3>4. Good(Append(t, x))
      BY <2>1, <2>2, <2>3, <3>1, <3>2, <3>3
    <3> HIDE DEF Good
    <3> QED BY <2>1, <3>4
  <2>4. CASE x \notin S
    <3>1. Sifted(Append(t, x), S) = Sifted(t, S)
      BY <2>4, SiftedAppended
    <3>2. Len(Sifted(t, S)) \in Nat
      BY <2>2, LenProperties
    <3>3. Good(Append(t, x))
      BY <2>1, <2>2, <2>4, <3>1, <3>2
    <3> HIDE DEF Good
    <3> QED BY <2>1, <3>3
  <2> QED BY <2>3, <2>4
<1>3. Seq(X) \subseteq G
  <2> HIDE DEF G
  <2> QED BY <1>1, <1>2, SeqInduct
<1> QED BY <1>3

(* The places of a sequence where certain elements are. *)
LEMMA PlacesOnce ==
  ASSUME NEW X, NEW s \in Seq(X), Once(s), NEW T \in SUBSET ToSet(s)
  PROVE  Cardinality({i \in DOMAIN s : s[i] \in T}) = Cardinality(T)
<1> DEFINE D == {i \in DOMAIN s : s[i] \in T}
           f == [i \in D |-> s[i]]
<1>1. DOMAIN s = 1..Len(s) /\ Len(s) \in Nat
  BY LenProperties
<1>2. IsFiniteSet(D)
  <2>1. IsFiniteSet(1..Len(s)) /\ D \subseteq 1..Len(s)
    BY <1>1, FS_Interval
  <2> HIDE DEF D
  <2> QED BY <2>1, FS_Subset
<1>3. f \in Bijection(D, T)
  <2>1. f \in [D -> T] /\ \A i, j \in D : f[i] = f[j] => i = j
    BY <1>1 DEF Once
  <2>2. \A y \in T : \E i \in D : f[i] = y
    BY <1>1 DEF ToSet
  <2> HIDE DEF f, D
  <2> QED BY <2>1, <2>2 DEF Bijection, Injection, Surjection, IsInjective
<1>4. ExistsBijection(D, T)
  BY <1>3 DEF ExistsBijection
<1> HIDE DEF D
<1>5. Cardinality(D) = Cardinality(T)
  <2>1. Cardinality(D) \in Nat /\ ExistsBijection(1..Cardinality(D), D)
    BY <1>2, FS_CardinalityType
  <2> QED BY <1>2, <1>4, <2>1, FS_Bijection
<1> QED BY <1>5 DEF D

(* What all belongs stays as it is.                                         *)
LEMMA SiftedAll ==
  ASSUME NEW X, NEW S, NEW s \in Seq(X), ToSet(s) \subseteq S
  PROVE  Sifted(s, S) = s
<1> DEFINE G == {t \in Seq(X) : ToSet(t) \subseteq S => Sifted(t, S) = t}
<1>1. <<>> \in G
  <2>1. Sifted(<<>>, S) = <<>> /\ <<>> \in Seq(X)
    BY SiftedEmpty, EmptySeq
  <2> QED BY <2>1
<1>2. ASSUME NEW t \in Seq(X), NEW x \in X, t \in G
      PROVE  Append(t, x) \in G
  <2>1. Append(t, x) \in Seq(X) /\ ToSet(Append(t, x)) = ToSet(t) \cup {x}
    BY ToSetAppended, AppendProperties
  <2>2. ASSUME ToSet(Append(t, x)) \subseteq S
        PROVE  Sifted(Append(t, x), S) = Append(t, x)
    <3>1. ToSet(t) \subseteq S /\ x \in S
      BY <2>1, <2>2
    <3>2. Sifted(t, S) = t
      BY <1>2, <3>1
    <3> QED BY <3>1, <3>2, SiftedAppended
  <2> QED BY <2>1, <2>2
<1>3. Seq(X) \subseteq G
  <2> HIDE DEF G
  <2> QED BY <1>1, <1>2, SeqInduct
<1> QED BY <1>3

(* One that does not belong.                                                *)
LEMMA SiftedOne ==
  ASSUME NEW X, NEW s \in Seq(X), Once(s), NEW at \in 1..Len(s)
  PROVE  Sifted(s, X \ {s[at]}) = RemoveAt(s, at)
<1> DEFINE Good(t) == \A i \in 1..Len(t) : Sifted(t, X \ {t[i]}) = RemoveAt(t, i)
           G == {t \in Seq(X) : Once(t) => Good(t)}
<1>1. <<>> \in G
  <2> DEFINE e == <<>>
  <2>1. e \in Seq(X) /\ Len(e) = 0
    BY EmptySeq
  <2> HIDE DEF e
  <2>2. Good(e)
    BY <2>1
  <2> HIDE DEF Good
  <2>3. e \in G
    BY <2>1, <2>2
  <2> QED BY <2>3 DEF e
<1>2. ASSUME NEW t \in Seq(X), NEW x \in X, t \in G, Once(Append(t, x))
      PROVE  Good(Append(t, x))
  <2> DEFINE u == Append(t, x)
             n == Len(t)
  <2>1. n \in Nat /\ u \in Seq(X) /\ Len(u) = n + 1 /\ u[n + 1] = x /\ \A i \in 1..n : u[i] = t[i] /\ t[i] \in X
    BY AppendProperties, LenProperties
  <2>2. Once(t) /\ x \notin ToSet(t)
    BY <1>2, ToSetAppended
  <2>3. Good(t) /\ \A i \in 1..n : t[i] # x
    <3>1. DOMAIN t = 1..n
      BY LenProperties
    <3> QED BY <1>2, <2>2, <3>1 DEF ToSet
  <2>4. \A S : Sifted(u, S) = IF x \in S THEN Append(Sifted(t, S), x) ELSE Sifted(t, S)
    BY SiftedAppended
  <2> HIDE DEF u, n
  <2> SUFFICES ASSUME NEW k \in 1..Len(u)
               PROVE  Sifted(u, X \ {u[k]}) = RemoveAt(u, k)
    BY DEF u
  <2> DEFINE r == RemoveAt(u, k)
  <2>5. r \in Seq(X) /\ Len(r) = Len(u) - 1 /\ \A i \in 1..(Len(u) - 1) : r[i] = u[IF i < k THEN i ELSE i + 1]
    BY <2>1, RemovedIs
  <2> HIDE DEF r
  <2>6. CASE k = n + 1
    <3>1. Sifted(u, X \ {x}) = Sifted(t, X \ {x})
      BY <2>4
    <3>2. Sifted(t, X \ {x}) = t
      <4>1. ToSet(t) \subseteq X \ {x}
        BY <2>2, LenProperties DEF ToSet
      <4> DEFINE S == X \ {x}
      <4> HIDE DEF S
      <4>2. Sifted(t, S) = t
        BY <4>1, SiftedAll DEF S
      <4> QED BY <4>2 DEF S
    <3>3. r = t
      <4>1. Len(r) = n /\ \A i \in 1..n : i < k /\ r[i] = t[i]
        BY <2>1, <2>5, <2>6
      <4> QED BY <2>5, <4>1, SeqEqual DEF n
    <3> QED BY <2>1, <2>6, <3>1, <3>2, <3>3 DEF r
  <2>7. CASE k # n + 1
    <3>1. k \in 1..n /\ u[k] = t[k] /\ t[k] # x /\ x \in X \ {t[k]}
      BY <2>1, <2>3, <2>7
    <3>2. Sifted(u, X \ {t[k]}) = Append(Sifted(t, X \ {t[k]}), x)
      BY <2>4, <3>1
    <3>3. Sifted(t, X \ {t[k]}) = RemoveAt(t, k)
      BY <2>3, <3>1 DEF n
    <3> DEFINE q == RemoveAt(t, k)
    <3>4. q \in Seq(X) /\ Len(q) = n - 1 /\ \A i \in 1..(n - 1) : q[i] = t[IF i < k THEN i ELSE i + 1]
      BY <3>1, RemovedIs DEF n
    <3> HIDE DEF q
    <3> DEFINE v == Append(q, x)
    <3>5. v \in Seq(X) /\ Len(v) = n - 1 + 1 /\ v[n - 1 + 1] = x /\ \A i \in 1..(n - 1) : v[i] = q[i]
      BY <3>4, AppendProperties
    <3> HIDE DEF v
    <3>6. Len(v) = n /\ Len(r) = n /\ n \in Nat
      BY <2>1, <2>5, <3>5
    <3>7. \A i \in 1..n : v[i] = r[i]
      <4> TAKE i \in 1..n
      <4>1. CASE i = n
        <5>1. n - 1 + 1 = n /\ Len(u) - 1 = n /\ ~(n < k) /\ n \in 1..n
          BY <2>1, <3>1
        <5>2. v[n] = x /\ r[n] = u[n + 1]
          BY <2>5, <3>5, <5>1
        <5> QED BY <2>1, <4>1, <5>2
      <4>2. CASE i # n
        <5>1. i \in 1..(n - 1) /\ i + 1 \in 1..n /\ Len(u) - 1 = n
          BY <2>1, <4>2
        <5> QED BY <2>1, <2>5, <3>4, <3>5, <5>1
      <4> QED BY <4>1, <4>2
    <3>8. v = r
      BY <2>5, <3>5, <3>6, <3>7, SeqEqual
    <3> QED BY <3>1, <3>2, <3>3, <3>8 DEF q, v, r
  <2> QED BY <2>6, <2>7
<1>3. \A t \in Seq(X), x \in X : t \in G => Append(t, x) \in G
  <2> HIDE DEF Good
  <2> QED BY <1>2, AppendProperties
<1>4. Seq(X) \subseteq G
  <2> HIDE DEF G
  <2> QED BY <1>1, <1>3, SeqInduct
<1> HIDE DEF Good
<1>5. Good(s)
  BY <1>4
<1> QED BY <1>5 DEF Good

(* What holds at first, and from each step to the next, holds at last.      *)
LEMMA ZeroToLast ==
  ASSUME NEW n \in Nat, NEW G, 0 \in G, \A k \in 1..n : k - 1 \in G => k \in G
  PROVE  \A k \in 0..n : k \in G
<1>1. ASSUME NEW j \in 0..n, j \notin G
      PROVE  FALSE
  <2> DEFINE B == {k \in 0..n : k \notin G}
             m == Min(B)
  <2>1. m \in B /\ \A k \in B : m <= k
    <3>1. B \in SUBSET Nat /\ B # {}
      BY <1>1
    <3> HIDE DEF B
    <3> QED BY <3>1, MinIs
  <2> HIDE DEF m
  <2>2. m \in 1..n /\ m - 1 \in 0..n /\ ~(m <= m - 1)
    BY <2>1
  <2>3. m - 1 \in G
    BY <2>1, <2>2
  <2> QED BY <2>1, <2>2, <2>3
<1> QED BY <1>1

LEMMA TableIs ==
  ASSUME NEW n \in Nat, NEW X, NEW s \in [1..n -> X]
  PROVE  s \in Seq(X) /\ Len(s) = n
<1>1. s \in Seq(X)
  BY SeqDef
<1>2. Len(s) \in Nat /\ DOMAIN s = 1..Len(s) /\ DOMAIN s = 1..n
  BY <1>1, LenProperties
<1>3. Len(s) = n
  BY <1>2
<1> QED BY <1>1, <1>3
=============================================================================
