---------------------------- MODULE PositionProofs ----------------------------
(* What the operators of Positions return, whatever the queue: the proofs *)
(* about the front end and about translation rest on these lemmas.        *)
EXTENDS Positions, FiniteSetTheorems, SequenceTheorems, TLAPS

LEMMA IntervalSize ==
  ASSUME NEW a \in Int, NEW b \in Int, a <= b + 1
  PROVE  IsFiniteSet(a .. b) /\ Cardinality(a .. b) = b - a + 1
<1>1. IsFiniteSet(a .. b) /\ Cardinality(a .. b) = IF a > b THEN 0 ELSE b - a + 1
  BY FS_Interval
<1>2. (IF a > b THEN 0 ELSE b - a + 1) = b - a + 1
  OBVIOUS
<1> QED BY <1>1, <1>2

(* A set of numbers of an interval that is closed towards the smaller ones *)
(* is an interval with the same start, as long as the set is large.        *)
LEMMA ClosedBelow ==
  ASSUME NEW a \in Int, NEW b \in Int, NEW S \in SUBSET (a .. b),
         \A x \in S : \A y \in a .. b : y <= x => y \in S
  PROVE  /\ IsFiniteSet(S) /\ Cardinality(S) \in Nat
         /\ S = a .. (a + Cardinality(S) - 1)
         /\ a + Cardinality(S) - 1 <= b \/ S = {}
<1> DEFINE n == Cardinality(S)
           m == a + n - 1
<1>1. IsFiniteSet(S) /\ n \in Nat
  <2>1. IsFiniteSet(a .. b)
    BY FS_Interval
  <2> QED BY <2>1, FS_Subset, FS_CardinalityType
<1>2. ASSUME NEW x \in S PROVE x \in a .. m
  <2>1. x \in Int /\ a <= x /\ x <= b
    OBVIOUS
  <2>2. \A y \in a .. x : y \in S
    BY <2>1
  <2>3. Cardinality(a .. x) = x - a + 1
    BY <2>1, IntervalSize
  <2>4. Cardinality(a .. x) <= n
    BY <1>1, <2>2, FS_Subset
  <2> HIDE DEF n
  <2>5. x <= a + n - 1
    BY <1>1, <2>1, <2>3, <2>4
  <2> QED BY <1>1, <2>1, <2>5
<1>3. IsFiniteSet(a .. m) /\ Cardinality(a .. m) = n
  <2> HIDE DEF n
  <2>1. m \in Int /\ a <= m + 1 /\ m - a + 1 = n
    BY <1>1
  <2> HIDE DEF m
  <2> QED BY <2>1, IntervalSize
<1>4. S = a .. m
  BY <1>2, <1>3, FS_Subset
<1>5. m <= b \/ S = {}
  <2>1. CASE n = 0
    BY <1>1, <2>1, FS_EmptySet
  <2>2. CASE n # 0
    <3>1. m \in a .. m
      BY <1>1, <2>2
    <3>2. m \in a .. b
      BY <1>4, <3>1
    <3> QED BY <3>2
  <2> QED BY <2>1, <2>2
<1> QED BY <1>1, <1>4, <1>5

LEMMA NthElement ==
  ASSUME NEW I \in SUBSET Int, IsFiniteSet(I), NEW k \in 1 .. Cardinality(I)
  PROVE  Nth(I, k) \in I /\ Cardinality({j \in I : j <= Nth(I, k)}) = k
<1> DEFINE n == Cardinality(I)
           UpTo(i) == {j \in I : j <= i}
           f == [i \in I |-> Cardinality(UpTo(i))]
<1>1. n \in Nat /\ k \in 1 .. n
  BY FS_CardinalityType
<1>2. ASSUME NEW i \in I
      PROVE  IsFiniteSet(UpTo(i)) /\ Cardinality(UpTo(i)) \in 1 .. n
  <2>1. UpTo(i) \in SUBSET I /\ i \in UpTo(i)
    OBVIOUS
  <2>2. IsFiniteSet(UpTo(i)) /\ Cardinality(UpTo(i)) <= n
    BY <2>1, FS_Subset
  <2>3. Cardinality(UpTo(i)) # 0 /\ Cardinality(UpTo(i)) \in Nat
    BY <2>1, <2>2, FS_EmptySet, FS_CardinalityType
  <2> QED BY <1>1, <2>2, <2>3
<1>3. ASSUME NEW i \in I, NEW j \in I, i < j PROVE f[i] # f[j]
  <2>0. \A u \in I : u \in Int
    OBVIOUS
  <2>1. \A u \in UpTo(i) : u \in UpTo(j)
    BY <1>3, <2>0
  <2>2. j \in UpTo(j) /\ j \notin UpTo(i)
    BY <1>3, <2>0
  <2>3. UpTo(i) \in SUBSET UpTo(j) /\ UpTo(i) # UpTo(j)
    BY <2>1, <2>2
  <2>4. IsFiniteSet(UpTo(j))
    BY <1>2
  <2>5. Cardinality(UpTo(i)) # Cardinality(UpTo(j))
    BY <2>3, <2>4, FS_Subset
  <2> QED BY <2>5
<1>4. f \in [I -> 1 .. n]
  BY <1>2
<1>5. \A i, j \in I : f[i] = f[j] => i = j
  BY <1>3
<1>6. \A i \in I : f[i] = Cardinality({j \in I : j <= i})
  OBVIOUS
<1>7. \E i \in I : f[i] = k
  <2>1. SUFFICES ASSUME \A i \in I : f[i] # k PROVE FALSE
    OBVIOUS
  <2> DEFINE R == (1 .. n) \ {k}
  <2>2. f \in [I -> R]
    BY <1>4, <2>1
  <2>3. IsFiniteSet(R) /\ Cardinality(R) < Cardinality(I)
    <3>1. IsFiniteSet(1 .. n) /\ Cardinality(1 .. n) = n
      <4>1. 1 <= n + 1 /\ n - 1 + 1 = n
        BY <1>1
      <4> QED BY <1>1, <4>1, IntervalSize
    <3>2. IsFiniteSet(R) /\ Cardinality(R) = n - 1
      BY <1>1, <3>1, FS_RemoveElement
    <3> QED BY <1>1, <3>2
  <2> HIDE DEF f, R
  <2>4. \E x, y \in I : x # y /\ f[x] = f[y]
    BY <2>2, <2>3, FS_PigeonHole
  <2> QED BY <1>5, <2>4
<1>8. \E i \in I : Cardinality({j \in I : j <= i}) = k
  BY <1>6, <1>7
<1> QED BY <1>8 DEF Nth

(* A larger rank is a larger number, and every number has its rank. *)
LEMMA NthRises ==
  ASSUME NEW I \in SUBSET Int, IsFiniteSet(I),
         NEW k \in 1 .. Cardinality(I), NEW l \in 1 .. Cardinality(I), k < l
  PROVE  Nth(I, k) < Nth(I, l)
<1> DEFINE x == Nth(I, k)
           y == Nth(I, l)
           UpTo(i) == {j \in I : j <= i}
<1>1. x \in I /\ y \in I /\ Cardinality(UpTo(x)) = k /\ Cardinality(UpTo(y)) = l
  BY NthElement
<1>2. k \in Int /\ l \in Int /\ x \in Int /\ y \in Int
  <2>1. Cardinality(I) \in Nat
    BY FS_CardinalityType
  <2>2. k \in Int /\ l \in Int
    BY <2>1
  <2> HIDE DEF x, y
  <2>3. x \in Int /\ y \in Int
    BY <1>1
  <2> QED BY <2>2, <2>3
<1> HIDE DEF x, y
<1> SUFFICES ASSUME y <= x PROVE FALSE
  BY <1>2 DEF x, y
<1>3. UpTo(y) \subseteq UpTo(x)
  <2>1. ASSUME NEW u \in UpTo(y) PROVE u \in UpTo(x)
    <3>1. u \in Int /\ u <= y
      OBVIOUS
    <3>2. u <= x
      BY <1>2, <3>1
    <3> QED BY <3>2
  <2> QED BY <2>1
<1>4. IsFiniteSet(UpTo(x))
  <2>1. UpTo(x) \in SUBSET I
    OBVIOUS
  <2> QED BY <2>1, FS_Subset
<1>5. l <= k
  BY <1>1, <1>3, <1>4, FS_Subset
<1> QED BY <1>2, <1>5

LEMMA NthInverse ==
  ASSUME NEW I \in SUBSET Int, IsFiniteSet(I), NEW i \in I
  PROVE  \E k \in 1 .. Cardinality(I) : Nth(I, k) = i
<1> DEFINE n == Cardinality(I)
           f == [k \in 1 .. n |-> Nth(I, k)]
<1>1. n \in Nat
  BY FS_CardinalityType
<1>2. \A k \in 1 .. n : Nth(I, k) \in I
  BY NthElement
<1>3. \A k, l \in 1 .. n : k < l => f[k] < f[l]
  BY NthRises
<1>4. f \in [1 .. n -> I]
  BY <1>2
<1>5. ASSUME NEW k \in 1 .. n, NEW l \in 1 .. n, f[k] = f[l] PROVE k = l
  <2>1. k \in Int /\ l \in Int /\ f[k] \in I /\ f[l] \in I
    BY <1>1, <1>4
  <2>2. f[k] \in Int /\ f[l] \in Int
    BY <2>1
  <2>3. ~(k < l) /\ ~(l < k)
    BY <1>3, <1>5, <2>2
  <2> HIDE DEF f
  <2> QED BY <2>1, <2>3
<1>6. \A k \in 1 .. n : f[k] = Nth(I, k)
  OBVIOUS
<1>7. \E k \in 1 .. n : f[k] = i
  <2>1. SUFFICES ASSUME \A k \in 1 .. n : f[k] # i PROVE FALSE
    OBVIOUS
  <2> DEFINE R == I \ {i}
  <2>2. f \in [1 .. n -> R]
    BY <1>4, <2>1
  <2>3. IsFiniteSet(1 .. n) /\ Cardinality(1 .. n) = n
    <3>1. 1 <= n + 1 /\ n - 1 + 1 = n
      BY <1>1
    <3> HIDE DEF n
    <3> QED BY <1>1, <3>1, IntervalSize
  <2>4. IsFiniteSet(R) /\ Cardinality(R) < Cardinality(1 .. n)
    <3>1. IsFiniteSet(R) /\ Cardinality(R) = n - 1
      BY FS_RemoveElement
    <3> QED BY <1>1, <2>3, <3>1
  <2> HIDE DEF f, R
  <2>5. \E x, y \in 1 .. n : x # y /\ f[x] = f[y]
    BY <2>2, <2>3, <2>4, FS_PigeonHole
  <2> QED BY <1>5, <2>5
<1> QED BY <1>6, <1>7

LEMMA NthOfInterval ==
  ASSUME NEW a \in Int, NEW b \in Int, a <= b + 1, NEW k \in 1 .. (b - a + 1)
  PROVE  Nth(a .. b, k) = a + k - 1
<1> DEFINE x == Nth(a .. b, k)
<1>1. IsFiniteSet(a .. b) /\ Cardinality(a .. b) = b - a + 1
  BY IntervalSize
<1>2. x \in a .. b /\ Cardinality({j \in a .. b : j <= x}) = k
  <2>1. a .. b \in SUBSET Int
    OBVIOUS
  <2>2. k \in 1 .. Cardinality(a .. b)
    BY <1>1
  <2> QED BY <1>1, <2>1, <2>2, NthElement
<1> HIDE DEF x
<1>3. {j \in a .. b : j <= x} = a .. x /\ x \in Int /\ a <= x + 1
  BY <1>2
<1>4. Cardinality(a .. x) = x - a + 1
  BY <1>3, IntervalSize
<1>5. x - a + 1 = k
  BY <1>2, <1>3, <1>4
<1>6. x = a + k - 1
  BY <1>3, <1>5
<1> QED BY <1>6 DEF x

LEMMA GreatestMember ==
  ASSUME NEW S \in SUBSET Int, IsFiniteSet(S), S # {}
  PROVE  Greatest(S) \in S /\ \A y \in S : y <= Greatest(S)
<1> DEFINE n == Cardinality(S)
           x == Nth(S, n)
<1>1. n \in 1 .. n
  BY FS_CardinalityType, FS_EmptySet
<1>2. x \in S /\ Cardinality({j \in S : j <= x}) = n
  BY <1>1, NthElement
<1> HIDE DEF x
<1>3. {j \in S : j <= x} = S
  <2>1. {j \in S : j <= x} \in SUBSET S
    OBVIOUS
  <2> QED BY <1>2, <2>1, FS_Subset
<1>4. \A y \in S : x >= y
  BY <1>2, <1>3
<1>5. Greatest(S) \in S /\ \A y \in S : Greatest(S) >= y
  BY <1>2, <1>4 DEF Greatest
<1> HIDE DEF n
<1> QED BY <1>5

LEMMA LeastMember ==
  ASSUME NEW S \in SUBSET Int, IsFiniteSet(S), S # {}
  PROVE  Least(S) \in S /\ \A y \in S : Least(S) <= y
<1> DEFINE n == Cardinality(S)
           x == Nth(S, 1)
<1>1. 1 \in 1 .. n
  BY FS_CardinalityType, FS_EmptySet
<1>2. x \in S /\ Cardinality({j \in S : j <= x}) = 1
  BY <1>1, NthElement
<1> HIDE DEF x
<1>3. ASSUME NEW y \in S PROVE x <= y
  <2> SUFFICES ASSUME y < x PROVE FALSE
    BY <1>2
  <2>1. {j \in S : j <= y} \in SUBSET {j \in S : j <= x} /\ x \notin {j \in S : j <= y}
        /\ y \in {j \in S : j <= y}
    <3>1. x \in Int /\ y \in Int /\ \A j \in S : j \in Int
      BY <1>2
    <3>2. \A j \in S : j <= y => j <= x
      BY <3>1
    <3>3. {j \in S : j <= y} \in SUBSET {j \in S : j <= x}
      BY <3>2
    <3>4. x \notin {j \in S : j <= y}
      BY <3>1
    <3>5. y \in {j \in S : j <= y}
      BY <3>1
    <3> QED BY <3>3, <3>4, <3>5
  <2>2. IsFiniteSet({j \in S : j <= x})
    <3>1. {j \in S : j <= x} \in SUBSET S
      OBVIOUS
    <3> QED BY <3>1, FS_Subset
  <2>3. IsFiniteSet({j \in S : j <= y}) /\ Cardinality({j \in S : j <= y}) <= 1
        /\ Cardinality({j \in S : j <= y}) # 1
    <3>1. x \in {j \in S : j <= x}
      BY <1>2
    <3> QED BY <1>2, <2>1, <2>2, <3>1, FS_Subset
  <2>4. Cardinality({j \in S : j <= y}) # 0 /\ Cardinality({j \in S : j <= y}) \in Nat
    BY <2>1, <2>3, FS_EmptySet, FS_CardinalityType
  <2> QED BY <2>3, <2>4
<1>4. Least(S) \in S /\ \A y \in S : Least(S) <= y
  BY <1>2, <1>3 DEF Least
<1> QED BY <1>4

(* At(s, I) has the entries at the positions I and no others. *)
LEMMA Selected ==
  ASSUME NEW T, NEW s \in Seq(T), NEW I \in SUBSET DOMAIN s
  PROVE  /\ IsFiniteSet(I) /\ Cardinality(I) \in Nat
         /\ At(s, I) \in Seq(T) /\ Len(At(s, I)) = Cardinality(I)
         /\ \A k \in DOMAIN At(s, I) : \E i \in I : At(s, I)[k] = s[i]
         /\ \A i \in I : \E k \in DOMAIN At(s, I) : At(s, I)[k] = s[i]
<1> DEFINE n == Cardinality(I)
           t == At(s, I)
<1>1. DOMAIN s = 1 .. Len(s) /\ Len(s) \in Nat
  OBVIOUS
<1>2. IsFiniteSet(I) /\ n \in Nat /\ I \in SUBSET Int
  <2>1. IsFiniteSet(1 .. Len(s))
    BY <1>1, FS_Interval
  <2> QED BY <1>1, <2>1, FS_Subset, FS_CardinalityType
<1>3. \A k \in 1 .. n : Nth(I, k) \in I
  BY <1>2, NthElement
<1>4. t = [k \in 1 .. n |-> s[Nth(I, k)]]
  BY DEF At
<1> HIDE DEF n, t
<1>5. \A k \in 1 .. n : t[k] = s[Nth(I, k)] /\ t[k] \in T
  BY <1>1, <1>3, <1>4
<1>6. t \in Seq(T) /\ Len(t) = n /\ DOMAIN t = 1 .. n
  BY <1>2, <1>4, <1>5
<1>7. \A k \in DOMAIN t : \E i \in I : t[k] = s[i]
  BY <1>3, <1>5, <1>6
<1>8. \A i \in I : \E k \in DOMAIN t : t[k] = s[i]
  <2> TAKE i \in I
  <2>1. PICK k \in 1 .. n : Nth(I, k) = i
    BY <1>2, NthInverse DEF n
  <2> QED BY <1>5, <1>6, <2>1
<1> QED BY <1>2, <1>6, <1>7, <1>8 DEF n, t

LEMMA Dropped ==
  ASSUME NEW T, NEW s \in Seq(T), NEW n \in 0 .. Len(s)
  PROVE  /\ Drop(s, n) \in Seq(T) /\ Len(Drop(s, n)) = Len(s) - n
         /\ \A k \in DOMAIN Drop(s, n) : n + k \in DOMAIN s /\ Drop(s, n)[k] = s[n + k]
         /\ \A i \in DOMAIN s : i > n => i - n \in DOMAIN Drop(s, n) /\ Drop(s, n)[i - n] = s[i]
<1>1. Len(s) \in Nat /\ DOMAIN s = 1 .. Len(s) /\ n \in Nat /\ n <= Len(s)
  OBVIOUS
<1> DEFINE t == SubSeq(s, n + 1, Len(s))
<1>2. t \in Seq(T) /\ Len(t) = Len(s) - n /\ \A k \in 1 .. Len(s) - n : t[k] = s[n + k]
  BY <1>1
<1>3. DOMAIN t = 1 .. (Len(s) - n)
  <2> HIDE DEF t
  <2>1. DOMAIN t = 1 .. Len(t)
    BY <1>2
  <2> QED BY <1>2, <2>1
<1> HIDE DEF t
<1>4. \A k \in DOMAIN t : n + k \in DOMAIN s /\ t[k] = s[n + k]
  BY <1>1, <1>2, <1>3
<1>5. \A i \in DOMAIN s : i > n => i - n \in DOMAIN t /\ t[i - n] = s[i]
  BY <1>1, <1>2, <1>3
<1> QED BY <1>2, <1>4, <1>5 DEF t, Drop

LEMMA Concatenated ==
  ASSUME NEW T, NEW s \in Seq(T), NEW t \in Seq(T)
  PROVE  /\ s \o t \in Seq(T) /\ Len(s \o t) = Len(s) + Len(t)
         /\ \A k \in DOMAIN (s \o t) : \/ \E i \in DOMAIN s : (s \o t)[k] = s[i]
                                       \/ \E j \in DOMAIN t : (s \o t)[k] = t[j]
         /\ \A i \in DOMAIN s : i \in DOMAIN (s \o t) /\ (s \o t)[i] = s[i]
         /\ \A j \in DOMAIN t :
              Len(s) + j \in DOMAIN (s \o t) /\ (s \o t)[Len(s) + j] = t[j]
<1> DEFINE u == s \o t
           m == Len(s)
           n == Len(t)
<1>1. m \in Nat /\ n \in Nat /\ DOMAIN s = 1 .. m /\ DOMAIN t = 1 .. n
  OBVIOUS
<1>2. u \in Seq(T) /\ Len(u) = m + n
  OBVIOUS
<1>3. \A k \in 1 .. m : u[k] = s[k]
  OBVIOUS
<1>4. \A j \in 1 .. n : u[m + j] = t[j]
  <2> TAKE j \in 1 .. n
  <2>1. m + j \in 1 .. (Len(s) + Len(t)) /\ ~(m + j <= Len(s)) /\ m + j - Len(s) = j
    BY <1>1
  <2> QED BY <1>1, <2>1
<1>5. DOMAIN u = 1 .. (m + n)
  <2> HIDE DEF u, m, n
  <2>1. DOMAIN u = 1 .. Len(u)
    BY <1>2
  <2> QED BY <1>2, <2>1
<1> HIDE DEF u, m, n
<1>6. \A k \in DOMAIN u : (\E i \in DOMAIN s : u[k] = s[i]) \/ (\E j \in DOMAIN t : u[k] = t[j])
  <2> TAKE k \in DOMAIN u
  <2>1. CASE k <= m
    <3>1. k \in 1 .. m
      BY <1>1, <1>5, <2>1
    <3> QED BY <1>1, <1>3, <3>1
  <2>2. CASE ~(k <= m)
    <3>1. k - m \in 1 .. n /\ m + (k - m) = k
      BY <1>1, <1>5, <2>2
    <3>2. u[m + (k - m)] = t[k - m]
      BY <1>4, <3>1
    <3> QED BY <1>1, <3>1, <3>2
  <2> QED BY <2>1, <2>2
<1>7. \A i \in DOMAIN s : i \in DOMAIN u /\ u[i] = s[i]
  BY <1>1, <1>3, <1>5
<1>8. \A j \in DOMAIN t : m + j \in DOMAIN u /\ u[m + j] = t[j]
  BY <1>1, <1>4, <1>5
<1> QED BY <1>2, <1>6, <1>7, <1>8 DEF u, m, n

(* An entry of two queues put together is one of the first or of the second. *)
LEMMA FromEither ==
  ASSUME NEW T, NEW s \in Seq(T), NEW t \in Seq(T)
  PROVE  /\ s \o t \in Seq(T)
         /\ \A k \in DOMAIN (s \o t) : \/ \E i \in DOMAIN s : (s \o t)[k] = s[i]
                                       \/ \E j \in DOMAIN t : (s \o t)[k] = t[j]
  BY Concatenated

LEMMA BothInside ==
  ASSUME NEW T, NEW s \in Seq(T), NEW t \in Seq(T)
  PROVE  /\ s \o t \in Seq(T)
         /\ \A i \in DOMAIN s : i \in DOMAIN (s \o t) /\ (s \o t)[i] = s[i]
         /\ \A j \in DOMAIN t : \E k \in DOMAIN (s \o t) : (s \o t)[k] = t[j]
<1>1. \A j \in DOMAIN t : Len(s) + j \in DOMAIN (s \o t) /\ (s \o t)[Len(s) + j] = t[j]
  BY Concatenated
<1>2. \A i \in DOMAIN s : i \in DOMAIN (s \o t) /\ (s \o t)[i] = s[i]
  BY Concatenated
<1>3. \A j \in DOMAIN t : \E k \in DOMAIN (s \o t) : (s \o t)[k] = t[j]
  <2> TAKE j \in DOMAIN t
  <2> WITNESS Len(s) + j \in DOMAIN (s \o t)
  <2> QED BY <1>1
<1>4. s \o t \in Seq(T)
  OBVIOUS
<1> QED BY <1>2, <1>3, <1>4

(* An entry put behind a queue, and the first entry taken from it. *)
LEMMA Longer ==
  ASSUME NEW T, NEW s \in Seq(T), NEW e \in T
  PROVE  /\ Append(s, e) \in Seq(T)
         /\ \A k \in DOMAIN s : k \in DOMAIN Append(s, e) /\ Append(s, e)[k] = s[k]
         /\ \E k \in DOMAIN Append(s, e) : Append(s, e)[k] = e
         /\ \A k \in DOMAIN Append(s, e) : Append(s, e)[k] = e
              \/ \E j \in DOMAIN s : Append(s, e)[k] = s[j]
<1> DEFINE n == Len(s)
           t == Append(s, e)
<1>1. n \in Nat /\ DOMAIN s = 1 .. n
  OBVIOUS
<1>2. t \in Seq(T) /\ Len(t) = n + 1 /\ t[n + 1] = e
  OBVIOUS
<1>3. \A k \in 1 .. n : t[k] = s[k]
  OBVIOUS
<1>4. DOMAIN t = 1 .. Len(t)
  BY <1>2
<1> HIDE DEF t, n
<1>5. DOMAIN t = 1 .. (n + 1) /\ n + 1 \in DOMAIN t
  BY <1>1, <1>2, <1>4
<1>6. \A k \in DOMAIN s : k \in DOMAIN t /\ t[k] = s[k]
  BY <1>1, <1>3, <1>5
<1>7. \A k \in DOMAIN t : t[k] = e \/ \E j \in DOMAIN s : t[k] = s[j]
  <2> TAKE k \in DOMAIN t
  <2>1. k = n + 1 \/ k \in 1 .. n
    BY <1>1, <1>5
  <2> QED BY <1>1, <1>2, <1>3, <2>1
<1> QED BY <1>2, <1>5, <1>6, <1>7 DEF t

LEMMA Shorter ==
  ASSUME NEW T, NEW s \in Seq(T), s # <<>>
  PROVE  /\ Head(s) = s[1] /\ s[1] \in T /\ 1 \in DOMAIN s
         /\ Tail(s) \in Seq(T)
         /\ \A k \in DOMAIN s : k # 1 => k - 1 \in DOMAIN Tail(s) /\ Tail(s)[k - 1] = s[k]
         /\ \A k \in DOMAIN Tail(s) : \E j \in DOMAIN s : Tail(s)[k] = s[j]
<1> DEFINE n == Len(s)
           t == Tail(s)
<1>1. n \in Nat \ {0} /\ DOMAIN s = 1 .. n /\ Head(s) = s[1]
  BY EmptySeq
<1>2. s[1] \in T
  BY <1>1
<1>3. t \in Seq(T) /\ Len(t) = n - 1 /\ \A k \in 1 .. Len(t) : t[k] = s[k + 1]
  BY HeadTailProperties
<1>4. DOMAIN t = 1 .. Len(t)
  BY <1>3
<1> HIDE DEF t, n
<1>5. DOMAIN t = 1 .. (n - 1) /\ \A k \in 1 .. (n - 1) : t[k] = s[k + 1]
  BY <1>3, <1>4
<1>6. \A k \in DOMAIN s : k # 1 => k - 1 \in DOMAIN t /\ t[k - 1] = s[k]
  <2> TAKE k \in DOMAIN s
  <2> SUFFICES ASSUME k # 1 PROVE k - 1 \in DOMAIN t /\ t[k - 1] = s[k]
    OBVIOUS
  <2>1. k - 1 \in 1 .. (n - 1) /\ (k - 1) + 1 = k
    BY <1>1
  <2>2. t[k - 1] = s[(k - 1) + 1]
    BY <1>5, <2>1
  <2> QED BY <1>5, <2>1, <2>2
<1>7. \A k \in DOMAIN t : \E j \in DOMAIN s : t[k] = s[j]
  <2> TAKE k \in DOMAIN t
  <2>1. k + 1 \in DOMAIN s
    BY <1>1, <1>5
  <2> QED BY <1>5, <2>1
<1> QED BY <1>1, <1>2, <1>3, <1>6, <1>7 DEF t

(* Distinct values at the first n positions are n values. *)
LEMMA Counted ==
  ASSUME NEW f, NEW n \in Nat, \A i, j \in 1 .. n : i # j => f[i] # f[j]
  PROVE  IsFiniteSet({f[i] : i \in 1 .. n}) /\ Cardinality({f[i] : i \in 1 .. n}) = n
<1> DEFINE g == [i \in 1 .. n |-> f[i]]
           T == {f[i] : i \in 1 .. n}
<1>1. g \in Bijection(1 .. n, T)
  BY DEF Bijection, Injection, Surjection, IsInjective
<1>2. IsFiniteSet(1 .. n) /\ Cardinality(1 .. n) = n
  BY IntervalSize
<1> QED BY <1>1, <1>2, FS_Bijection DEF ExistsBijection

(* Selecting positions of a sequence selects its elements in their order. *)
LEMMA Picked ==
  ASSUME NEW T, NEW s \in Seq(T), NEW I \in SUBSET DOMAIN s
  PROVE  /\ At(s, I) \in Seq(T) /\ Len(At(s, I)) = Cardinality(I) /\ Cardinality(I) \in Nat
         /\ \A k \in 1 .. Cardinality(I) : At(s, I)[k] = s[Nth(I, k)] /\ Nth(I, k) \in I
         /\ \A k, l \in 1 .. Cardinality(I) : k < l => Nth(I, k) < Nth(I, l)
         /\ \A i \in I : \E k \in 1 .. Cardinality(I) : Nth(I, k) = i
<1>1. IsFiniteSet(I) /\ Cardinality(I) \in Nat /\ At(s, I) \in Seq(T) /\ Len(At(s, I)) = Cardinality(I)
  BY Selected
<1>2. I \in SUBSET Int
  OBVIOUS
<1>3. \A k \in 1 .. Cardinality(I) : Nth(I, k) \in I
  BY <1>1, <1>2, NthElement
<1>4. \A k, l \in 1 .. Cardinality(I) : k < l => Nth(I, k) < Nth(I, l)
  BY <1>1, <1>2, NthRises
<1>5. \A i \in I : \E k \in 1 .. Cardinality(I) : Nth(I, k) = i
  BY <1>1, <1>2, NthInverse
<1> QED BY <1>1, <1>3, <1>4, <1>5 DEF At

LEMMA FirstOnes ==
  ASSUME NEW T, NEW s \in Seq(T), NEW m \in 0 .. Len(s)
  PROVE  At(s, 1 .. m) \in Seq(T) /\ Len(At(s, 1 .. m)) = m /\ \A k \in 1 .. m : At(s, 1 .. m)[k] = s[k]
<1>1. 1 .. m \in SUBSET DOMAIN s /\ m \in Nat
  OBVIOUS
<1>2. Cardinality(1 .. m) = m
  BY <1>1, IntervalSize
<1>3. \A k \in 1 .. m : Nth(1 .. m, k) = k
  <2> SUFFICES ASSUME NEW k \in 1 .. m PROVE Nth(1 .. m, k) = k
    OBVIOUS
  <2>1. m \in Int /\ 1 <= m + 1 /\ k \in 1 .. (m - 1 + 1) /\ 1 + k - 1 = k
    BY <1>1
  <2> QED BY <2>1, NthOfInterval
<1>4. /\ At(s, 1 .. m) \in Seq(T) /\ Len(At(s, 1 .. m)) = Cardinality(1 .. m)
      /\ \A k \in 1 .. Cardinality(1 .. m) : At(s, 1 .. m)[k] = s[Nth(1 .. m, k)]
  BY <1>1, Picked
<1> QED BY <1>2, <1>3, <1>4

LEMMA AllOfThem ==
  ASSUME NEW T, NEW s \in Seq(T)
  PROVE  At(s, DOMAIN s) = s
<1>1. DOMAIN s = 1 .. Len(s) /\ Len(s) \in 0 .. Len(s)
  OBVIOUS
<1>2. /\ At(s, 1 .. Len(s)) \in Seq(T) /\ Len(At(s, 1 .. Len(s))) = Len(s)
      /\ \A k \in 1 .. Len(s) : At(s, 1 .. Len(s))[k] = s[k]
  BY <1>1, FirstOnes
<1>3. At(s, 1 .. Len(s)) = s
  BY <1>2, SeqEqual
<1> QED BY <1>1, <1>3

(* Of finitely many numbers there is a least and a greatest. *)
LEMMA Extremes ==
  ASSUME NEW D, IsFiniteSet(D), D # {}, NEW f \in [D -> Int]
  PROVE  /\ \E w \in D : \A v \in D : f[w] <= f[v]
         /\ \E w \in D : \A v \in D : f[w] >= f[v]
<1> DEFINE S == {f[w] : w \in D}
<1>1. IsFiniteSet(S)
  <2>1. f \in Surjection(D, S)
    BY DEF Surjection
  <2> HIDE DEF S
  <2> QED BY <2>1, FS_Surjection
<1>2. S \in SUBSET Int /\ S # {}
  OBVIOUS
<1>3. Least(S) \in S /\ (\A y \in S : Least(S) <= y) /\ Greatest(S) \in S /\ (\A y \in S : y <= Greatest(S))
  <2> HIDE DEF S
  <2> QED BY <1>1, <1>2, LeastMember, GreatestMember
<1>4. PICK w \in D : f[w] = Least(S)
  BY <1>3
<1>5. PICK w1 \in D : f[w1] = Greatest(S)
  BY <1>3
<1>6. \A v \in D : f[w] <= f[v] /\ f[w1] >= f[v]
  BY <1>2, <1>3, <1>4, <1>5
<1> QED BY <1>6
===============================================================================
