----------------------------- MODULE DataLemmas -----------------------------
(***************************************************************************)
(* Facts about data that the proofs of the components share: induction on  *)
(* a number and on a finite set, the enumeration of a set of numbers in    *)
(* increasing order, and the sum of a function.  An induction is stated    *)
(* for a set of numbers, or of sets, in the place of a predicate.          *)
(***************************************************************************)
EXTENDS Naturals, FiniteSets, Ordering, SequencesExt, FiniteSetTheorems,
        SequenceTheorems, WellFoundedInduction, TLAPS

-----------------------------------------------------------------------------
(* Induction *)

\* A set of numbers that has 0 and, with a number, the next one has them all: the
\* least number it lacks would be neither.
LEMMA NatInduct ==
  ASSUME NEW T, 0 \in T, \A n \in Nat : n \in T => n + 1 \in T
  PROVE  Nat \subseteq T
<1> SUFFICES ASSUME Nat \ T # {}
             PROVE  FALSE
  OBVIOUS
<1> DEFINE S == Nat \ T
<1>1. PICK i \in S : \A j \in S : ~(<<j, i>> \in OpToRel(<, Nat))
  BY NatLessThanWellFounded, WFMin
<1>2. ASSUME NEW j \in S
      PROVE  ~(j < i)
  <2>1. i \in Nat /\ j \in Nat /\ ~(<<j, i>> \in {ss \in Nat \X Nat : ss[1] < ss[2]})
    BY <1>1, Zenon DEF OpToRel
  <2> QED BY <2>1
<1>3. i \in Nat /\ i # 0 /\ i \notin T
  OBVIOUS
<1>4. i - 1 \in Nat /\ i - 1 < i /\ (i - 1) + 1 = i
  BY <1>3
<1>5. i - 1 \in T
  BY <1>2, <1>4
<1> QED BY <1>3, <1>4, <1>5

\* A set of subsets of a finite set that has a subset whenever it has all the
\* smaller ones inside it has every subset: induction on the cardinality.
LEMMA SubsetInduct ==
  ASSUME NEW S, IsFiniteSet(S), NEW F,
         \A t \in SUBSET S : (\A u \in SUBSET t : u # t => u \in F) => t \in F
  PROVE  SUBSET S \subseteq F
<1> DEFINE T == {n \in Nat : \A t \in SUBSET S : Cardinality(t) <= n => t \in F}
<1>1. \A t \in SUBSET S : IsFiniteSet(t) /\ Cardinality(t) \in Nat
  BY FS_Subset, FS_CardinalityType
<1>2. \A t \in SUBSET S : \A u \in SUBSET t : u # t => Cardinality(u) < Cardinality(t)
  <2> SUFFICES ASSUME NEW t \in SUBSET S, NEW u \in SUBSET t, u # t
               PROVE  Cardinality(u) < Cardinality(t)
    OBVIOUS
  <2>1. IsFiniteSet(t) /\ Cardinality(t) \in Nat /\ u \in SUBSET S
    BY <1>1
  <2>2. Cardinality(u) \in Nat
    BY <1>1, <2>1
  <2>3. Cardinality(u) <= Cardinality(t) /\ (Cardinality(t) = Cardinality(u) => t = u)
    BY <2>1, FS_Subset
  <2> QED BY <2>1, <2>2, <2>3
<1>3. 0 \in T
  <2> SUFFICES ASSUME NEW t \in SUBSET S, Cardinality(t) <= 0
               PROVE  t \in F
    OBVIOUS
  <2>1. ASSUME NEW u \in SUBSET t, u # t
        PROVE  FALSE
    <3>1. Cardinality(u) \in Nat /\ Cardinality(t) \in Nat
      BY <1>1
    <3>2. Cardinality(u) < Cardinality(t)
      BY <1>2, <2>1
    <3> QED BY <3>1, <3>2
  <2> QED BY <2>1
<1>4. ASSUME NEW n \in Nat, n \in T
      PROVE  n + 1 \in T
  <2>1. n + 1 \in Nat
    OBVIOUS
  <2> SUFFICES ASSUME NEW t \in SUBSET S, Cardinality(t) <= n + 1
               PROVE  t \in F
    BY <2>1
  <2>2. ASSUME NEW u \in SUBSET t, u # t
        PROVE  u \in F
    <3>1. u \in SUBSET S /\ Cardinality(u) \in Nat /\ Cardinality(t) \in Nat
      BY <1>1
    <3>2. Cardinality(u) < Cardinality(t)
      BY <1>2, <2>2
    <3>3. Cardinality(u) <= n
      BY <3>1, <3>2
    <3> QED BY <1>4, <3>1, <3>3
  <2> QED BY <2>2
<1> HIDE DEF T
<1>5. Nat \subseteq T
  BY <1>3, <1>4, NatInduct
<1>6. Cardinality(S) \in T /\ \A t \in SUBSET S : Cardinality(t) <= Cardinality(S)
  BY <1>1, <1>5, FS_Subset
<1> QED BY <1>6 DEF T

-----------------------------------------------------------------------------
(* Enumeration in increasing order *)

\* Numbers up to a bound can be enumerated in increasing order, and such an
\* enumeration leaves none out.
LEMMA Enumeration ==
  ASSUME NEW n \in Nat, NEW S \in SUBSET (1..n)
  PROVE  /\ Cardinality(S) \in Nat
         /\ \E t \in [1..Cardinality(S) -> S] :
              \A i, j \in 1..Cardinality(S) : i < j => t[i] < t[j]
         /\ \A t \in [1..Cardinality(S) -> S] :
              (\A i, j \in 1..Cardinality(S) : i < j => t[i] < t[j])
                => S = {t[i] : i \in 1..Cardinality(S)}
<1> DEFINE Increasing(t, c) == \A i, j \in 1..c : i < j => t[i] < t[j]
           Listed(X) == \E t \in [1..Cardinality(X) -> X] : Increasing(t, Cardinality(X))
           T == {m \in Nat : \A X \in SUBSET (1..m) : Listed(X)}
<1>1. \A m \in Nat : \A X \in SUBSET (1..m) : IsFiniteSet(X) /\ Cardinality(X) \in Nat
  <2> SUFFICES ASSUME NEW m \in Nat, NEW X \in SUBSET (1..m)
               PROVE  IsFiniteSet(X) /\ Cardinality(X) \in Nat
    OBVIOUS
  <2>1. IsFiniteSet(1..m)
    BY 1 \in Int, m \in Int, FS_Interval
  <2>2. IsFiniteSet(X)
    BY <2>1, FS_Subset
  <2> QED BY <2>2, FS_CardinalityType
<1>2. 0 \in T
  <2> SUFFICES ASSUME NEW X \in SUBSET (1..0)
               PROVE  Listed(X)
    OBVIOUS
  <2>1. X = {}
    OBVIOUS
  <2>3. Cardinality(X) = 0
    BY <2>1, FS_EmptySet
  <2>2. <<>> \in [1..0 -> X] /\ Increasing(<<>>, 0)
    OBVIOUS
  <2> QED BY <2>1, <2>2, <2>3
<1>3. ASSUME NEW m \in Nat, m \in T
      PROVE  m + 1 \in T
  <2>n. m + 1 \in Nat
    OBVIOUS
  <2> SUFFICES ASSUME NEW X \in SUBSET (1..(m + 1))
               PROVE  Listed(X)
    BY <2>n
  <2>1. CASE m + 1 \notin X
    <3>1. X \in SUBSET (1..m)
      BY <2>1
    <3> QED BY <1>3, <3>1
  <2>2. CASE m + 1 \in X
    <3> DEFINE Y == X \ {m + 1}
               c == Cardinality(Y)
    <3>1. Y \in SUBSET (1..m)
      OBVIOUS
    <3>2. c \in Nat /\ Cardinality(X) = c + 1
      <4>1. IsFiniteSet(X) /\ Cardinality(X) \in Nat
        BY <1>1
      <4>2. Cardinality(Y) = Cardinality(X) - 1
        BY <2>2, <4>1, FS_RemoveElement
      <4>3. Cardinality(Y) \in Nat
        BY <1>1, <3>1
      <4> QED BY <4>1, <4>2, <4>3
    <3>3. PICK t \in [1..c -> Y] : Increasing(t, c)
      BY <1>3, <3>1
    <3> HIDE DEF c
    <3> DEFINE u == [i \in 1..(c + 1) |-> IF i = c + 1 THEN m + 1 ELSE t[i]]
    <3>4. \A i \in 1..c : i \in 1..(c + 1) /\ i # c + 1 /\ u[i] = t[i] /\ t[i] \in Y
      BY <3>2, <3>3
    <3>5. c + 1 \in 1..(c + 1) /\ u[c + 1] = m + 1
      BY <3>2
    <3>6. u \in [1..(c + 1) -> X]
      BY <2>2, <3>2, <3>3
    <3>7. \A y \in Y : y \in 1..m /\ y < m + 1
      BY <3>1
    <3>8. Increasing(u, c + 1)
      <4> SUFFICES ASSUME NEW i \in 1..(c + 1), NEW j \in 1..(c + 1), i < j
                   PROVE  u[i] < u[j]
        OBVIOUS
      <4>1. i \in 1..c
        BY <3>2
      <4>2. CASE j \in 1..c
        BY <3>3, <3>4, <4>1, <4>2
      <4>3. CASE j = c + 1
        BY <3>4, <3>5, <3>7, <4>1, <4>3
      <4> QED BY <3>2, <4>2, <4>3
    <3> QED BY <3>2, <3>6, <3>8
  <2> QED BY <2>1, <2>2
<1>4. Nat \subseteq T
  <2> HIDE DEF T
  <2> QED BY <1>2, <1>3, NatInduct
<1>5. Listed(S)
  BY <1>4
<1>6. ASSUME NEW t \in [1..Cardinality(S) -> S], Increasing(t, Cardinality(S))
      PROVE  S = {t[i] : i \in 1..Cardinality(S)}
  <2> DEFINE c == Cardinality(S)
  <2>1. c \in Nat /\ IsFiniteSet(S)
    BY <1>1
  <2>2. IsFiniteSet(1..c) /\ Cardinality(1..c) = c
    BY <2>1, FS_Interval
  <2>3. \A s \in S : s \in Nat
    OBVIOUS
  <2>4. t \in Injection(1..c, S)
    <3> SUFFICES ASSUME NEW i \in 1..c, NEW j \in 1..c, t[i] = t[j], i # j
                 PROVE  FALSE
      BY DEF Injection, IsInjective
    <3>1. t[i] \in Nat /\ t[j] \in Nat
      BY <2>3
    <3> HIDE DEF c
    <3> QED BY <1>6, <2>1, <3>1 DEF c
  <2>5. t \in Surjection(1..c, S)
    BY <2>1, <2>2, <2>4, FS_Injection
  <2> QED BY <2>5 DEF Surjection
<1> QED BY <1>1, <1>5, <1>6

\* Numbers up to a bound, put in order: each of them once, and no other.
LEMMA InOrderProperties ==
  ASSUME NEW n \in Nat, NEW S \in SUBSET (1..n)
  PROVE  /\ InOrder(S) \in Seq(S)
         /\ ToSet(InOrder(S)) = S
         /\ \A i, j \in 1..Len(InOrder(S)) : i < j => InOrder(S)[i] < InOrder(S)[j]
<1> DEFINE c == Cardinality(S)
           Increasing(t) == \A i, j \in 1..c : i < j => t[i] < t[j]
<1>1. /\ c \in Nat
      /\ \E t \in [1..c -> S] : Increasing(t)
      /\ \A t \in [1..c -> S] : Increasing(t) => S = {t[i] : i \in 1..c}
  BY Enumeration
<1>2. InOrder(S) = CHOOSE t \in [1..c -> S] : Increasing(t)
  BY DEF InOrder
<1> HIDE DEF c, Increasing
<1>3. InOrder(S) \in [1..c -> S] /\ Increasing(InOrder(S))
  BY <1>1, <1>2
<1>4. InOrder(S) \in Seq(S) /\ Len(InOrder(S)) = c
  BY <1>1, <1>3
<1>5. ToSet(InOrder(S)) = S
  BY <1>1, <1>3 DEF ToSet
<1> QED BY <1>3, <1>4, <1>5 DEF Increasing

\* c numbers that ascend; all of them among d others; alike below k.
Ascend(s, c) ==
  c \in Nat /\ s \in [1..c -> Nat] /\ \A i, j \in 1..c : i < j => s[i] < s[j]
Among(s, c, t, d) == \A i \in 1..c : \E j \in 1..d : t[j] = s[i]
AlikeBelow(k, s, c, t) == \A i \in 1..c : i < k => s[i] = t[i]

\* Of two ascending lists, the second with all the numbers of the first, that are
\* alike below k, the second is not ahead at k.
LEMMA NotAhead ==
  ASSUME NEW c, NEW s, Ascend(s, c), NEW d, NEW t, Ascend(t, d), Among(s, c, t, d),
         NEW k \in 1..c, AlikeBelow(k, s, c, t)
  PROVE  k \in 1..d /\ t[k] <= s[k]
<1> USE DEF Ascend, Among, AlikeBelow
<1>1. PICK j \in 1..d : t[j] = s[k]
  OBVIOUS
<1>2. ASSUME j < k
      PROVE  FALSE
  <2>1. j \in 1..c
    BY <1>2
  <2>2. s[j] = t[j] /\ s[j] < s[k]
    BY <1>2, <2>1
  <2>3. s[j] \in Nat /\ s[k] \in Nat
    BY <2>1
  <2> QED BY <1>1, <2>2, <2>3
<1>3. k <= j
  BY <1>2
<1>4. k \in 1..d
  BY <1>3
<1>5. CASE k = j
  BY <1>1, <1>4, <1>5
<1>6. CASE k < j
  <2>1. t[k] < t[j] /\ t[k] \in Nat /\ t[j] \in Nat
    BY <1>4, <1>6
  <2> QED BY <1>1, <1>4, <2>1
<1> QED BY <1>3, <1>5, <1>6

\* There is one way to put numbers in order.
LEMMA OneOrder ==
  ASSUME NEW c, NEW s, Ascend(s, c), NEW d, NEW t, Ascend(t, d),
         Among(s, c, t, d), Among(t, d, s, c)
  PROVE  s = t
<1> DEFINE Same(i) == (i \in 1..c <=> i \in 1..d) /\ (i \in 1..c => s[i] = t[i])
           T == {n \in Nat : \A i \in 1..n : Same(i)}
<1>n. /\ c \in Nat /\ s \in [1..c -> Nat]
      /\ d \in Nat /\ t \in [1..d -> Nat]
  BY DEF Ascend
<1>1. 0 \in T
  OBVIOUS
<1>2. ASSUME NEW n \in Nat, n \in T
      PROVE  n + 1 \in T
  <2>1. n + 1 \in Nat /\ \A i \in 1..(n + 1) : i = n + 1 \/ i \in 1..n
    OBVIOUS
  <2>2. \A i \in 1..n : Same(i)
    BY <1>2
  <2>3. ASSUME NEW k \in 1..c, k = n + 1
        PROVE  k \in 1..d /\ t[k] <= s[k]
    <3>1. \A i \in 1..c : i < k => i \in 1..n
      BY <1>n, <2>3
    <3>2. AlikeBelow(k, s, c, t)
      BY <2>2, <3>1 DEF AlikeBelow
    <3> HIDE DEF Same, T
    <3> QED BY <3>2, NotAhead
  <2>4. ASSUME NEW k \in 1..d, k = n + 1
        PROVE  k \in 1..c /\ s[k] <= t[k]
    <3>1. \A i \in 1..d : i < k => i \in 1..n
      BY <1>n, <2>4
    <3>2. AlikeBelow(k, t, d, s)
      BY <2>2, <3>1 DEF AlikeBelow
    <3> HIDE DEF Same, T
    <3> QED BY <3>2, NotAhead
  <2>5. n + 1 \in 1..c <=> n + 1 \in 1..d
    BY <2>3, <2>4
  <2>6. ASSUME NEW k \in 1..c, k = n + 1
        PROVE  s[k] = t[k]
    <3>1. k \in 1..d /\ t[k] <= s[k]
      BY <2>3, <2>6
    <3>2. s[k] <= t[k]
      BY <2>4, <2>6, <3>1
    <3>3. s[k] \in Nat /\ t[k] \in Nat
      BY <1>n, <3>1
    <3> QED BY <3>1, <3>2, <3>3
  <2>7. Same(n + 1)
    BY <2>5, <2>6
  <2> HIDE DEF Same
  <2> QED BY <2>1, <2>2, <2>7
<1>3. Nat \subseteq T
  <2> HIDE DEF T
  <2> QED BY <1>1, <1>2, NatInduct
<1>4. c \in T /\ d \in T
  BY <1>n, <1>3
<1>5. c <= d
  <2>1. c # 0 => c \in 1..c /\ Same(c)
    BY <1>n, <1>4
  <2> QED BY <1>n, <2>1
<1>6. d <= c
  <2>1. d # 0 => d \in 1..d /\ Same(d)
    BY <1>n, <1>4
  <2> QED BY <1>n, <2>1
<1>7. c = d /\ \A i \in 1..c : s[i] = t[i]
  BY <1>n, <1>4, <1>5, <1>6
<1> QED BY <1>n, <1>7

\* A number beyond the others comes last.
LEMMA InOrderAdd ==
  ASSUME NEW n \in Nat, NEW S \in SUBSET (1..n), NEW x \in Nat, n < x
  PROVE  InOrder(S \cup {x}) = Append(InOrder(S), x)
<1> DEFINE s == InOrder(S)
           R == S \cup {x}
           t == Append(s, x)
           u == InOrder(R)
<1>1. /\ s \in Seq(S) /\ ToSet(s) = S
      /\ \A i, j \in 1..Len(s) : i < j => s[i] < s[j]
  BY InOrderProperties
<1>2. R \in SUBSET (1..x)
  OBVIOUS
<1>3. /\ u \in Seq(R) /\ ToSet(u) = R
      /\ \A i, j \in 1..Len(u) : i < j => u[i] < u[j]
  <2> HIDE DEF R
  <2> QED BY <1>2, InOrderProperties
<1> HIDE DEF s, u
<1>4. /\ s \in Seq(R) /\ Len(s) \in Nat
      /\ \A i \in 1..Len(s) : s[i] \in S
  BY <1>1
<1>5. /\ t \in Seq(R) /\ Len(t) = Len(s) + 1
      /\ \A i \in 1..Len(s) : t[i] = s[i]
      /\ t[Len(s) + 1] = x
  BY <1>4, AppendProperties
<1> HIDE DEF t
<1>6. ToSet(t) = R
  <2>1. DOMAIN t = (1..Len(s)) \cup {Len(s) + 1} /\ DOMAIN s = 1..Len(s)
    BY <1>4, <1>5
  <2> QED BY <1>1, <1>5, <2>1 DEF ToSet
<1>7. ASSUME NEW i \in 1..Len(t), NEW j \in 1..Len(t), i < j
      PROVE  t[i] < t[j]
  <2>1. i \in 1..Len(s)
    BY <1>4, <1>5, <1>7
  <2>2. CASE j \in 1..Len(s)
    BY <1>1, <1>5, <1>7, <2>1, <2>2
  <2>3. CASE j = Len(s) + 1
    <3>1. t[i] \in 1..n
      BY <1>4, <1>5, <2>1
    <3> QED BY <1>5, <2>3, <3>1
  <2> QED BY <1>4, <1>5, <2>2, <2>3
<1>8. R \in SUBSET Nat
  OBVIOUS
<1> HIDE DEF R
<1>9. t = u
  <2> DEFINE c == Len(t)
             d == Len(u)
  <2>1. c \in Nat /\ t \in [1..c -> Nat] /\ DOMAIN t = 1..c
    <3>1. t \in [1..Len(t) -> R] /\ Len(t) \in Nat
      BY <1>5
    <3> QED BY <1>8, <3>1
  <2>2. d \in Nat /\ u \in [1..d -> Nat] /\ DOMAIN u = 1..d
    <3>1. u \in [1..Len(u) -> R] /\ Len(u) \in Nat
      BY <1>3
    <3> QED BY <1>8, <3>1
  <2>3. {t[i] : i \in 1..c} = {u[i] : i \in 1..d}
    BY <1>3, <1>6, <2>1, <2>2 DEF ToSet
  <2>4. /\ \A i, j \in 1..c : i < j => t[i] < t[j]
        /\ \A i, j \in 1..d : i < j => u[i] < u[j]
    BY <1>3, <1>7
  <2> HIDE DEF c, d
  <2>5. Among(t, c, u, d) /\ Among(u, d, t, c)
    BY <2>3 DEF Among
  <2>6. Ascend(t, c) /\ Ascend(u, d)
    BY <2>1, <2>2, <2>4 DEF Ascend
  <2> QED BY <2>5, <2>6, OneOrder
<1> QED BY <1>9 DEF R, s, t, u

\* Nothing is put in order.
LEMMA InOrderEmpty == InOrder({}) = <<>>
<1>1. InOrder({}) \in Seq({})
  BY 0 \in Nat, {} \in SUBSET (1..0), InOrderProperties
<1> QED BY <1>1

\* The largest number is the one beyond the others.
LEMMA MaxAdd ==
  ASSUME NEW n \in Nat, NEW S \in SUBSET (1..n), NEW x \in Nat, n < x
  PROVE  Max(S \cup {x}) = x
<1> DEFINE Largest(y) == \A z \in S \cup {x} : y >= z
<1>1. \A z \in S : z \in Nat /\ z < x
  OBVIOUS
<1>2. x \in S \cup {x} /\ Largest(x)
  BY <1>1
<1>3. \A y \in S \cup {x} : Largest(y) => y = x
  BY <1>1
<1>4. Max(S \cup {x}) = CHOOSE y \in S \cup {x} : Largest(y)
  BY DEF Max
<1> HIDE DEF Largest
<1> QED BY <1>2, <1>3, <1>4

\* A sequence over a set is one over a larger set.
LEMMA SeqWider ==
  ASSUME NEW S, NEW T, S \subseteq T, NEW s \in Seq(S)
  PROVE  s \in Seq(T)
<1>1. Len(s) \in Nat /\ s = [i \in 1..Len(s) |-> s[i]] /\ \A i \in 1..Len(s) : s[i] \in S
  OBVIOUS
<1> QED BY <1>1, SeqDef

\* What a function says of the members of a sequence.
Listing(f, s) == [i \in DOMAIN s |-> f[s[i]]]

\* What is listed for one more number comes at the end of what is listed already.
LEMMA ListingAppend ==
  ASSUME NEW s \in Seq(Nat), NEW x \in Nat, NEW f
  PROVE  /\ Listing(f, s) \in Seq({f[y] : y \in Nat})
         /\ Listing(f, Append(s, x)) = Append(Listing(f, s), f[x])
<1> DEFINE l == Len(s)
           V == {f[y] : y \in Nat}
           d == [i \in 1..l |-> f[s[i]]]
           t == Append(s, x)
           e == [i \in 1..(l + 1) |-> f[t[i]]]
           a == Append(d, f[x])
<1>1. /\ l \in Nat /\ DOMAIN s = 1..l /\ DOMAIN t = 1..(l + 1)
      /\ \A i \in 1..l : s[i] \in Nat /\ t[i] = s[i]
      /\ t[l + 1] = x
  BY AppendProperties
<1> HIDE DEF l, t
<1>2. \A i \in 1..l : f[s[i]] \in V
  BY <1>1
<1>3. d \in Seq(V) /\ Len(d) = l
  BY <1>1, <1>2, SeqDef
<1>4. f[x] \in V
  OBVIOUS
<1> HIDE DEF V, d
<1>5. /\ a \in Seq(V) /\ Len(a) = l + 1
      /\ \A i \in 1..l : a[i] = d[i]
      /\ a[l + 1] = f[x]
  BY <1>3, <1>4, AppendProperties
<1> HIDE DEF a
<1>6. \A i \in 1..(l + 1) : a[i] = f[t[i]]
  BY <1>1, <1>5 DEF d
<1>7. a = [i \in 1..(l + 1) |-> a[i]]
  BY <1>5
<1>8. a = e
  BY <1>6, <1>7
<1> QED BY <1>1, <1>3, <1>8 DEF V, a, d, t, l, Listing

\* Numbers in order are a sequence of numbers.
LEMMA InOrderType ==
  ASSUME NEW n \in Nat, NEW S \in SUBSET (1..n)
  PROVE  InOrder(S) \in Seq(Nat)
<1>1. InOrder(S) \in Seq(S)
  BY InOrderProperties
<1>2. S \subseteq Nat
  OBVIOUS
<1> QED BY <1>1, <1>2, SeqWider

\* A part stays a part of what grows at the end.
LEMMA PrefixAppend ==
  ASSUME NEW S, NEW s \in Seq(S), NEW t \in Seq(S), IsPrefix(s, t), NEW x \in S
  PROVE  IsPrefix(s, Append(t, x))
<1>1. Len(s) \in Nat /\ Len(t) \in Nat /\ Len(s) <= Len(t) /\ SubSeq(s, 1, Len(s)) = SubSeq(t, 1, Len(s))
  BY DEF IsPrefix
<1>2. Append(t, x) \in Seq(S) /\ Len(Append(t, x)) = Len(t) + 1
      /\ \A i \in 1..Len(t) : Append(t, x)[i] = t[i]
  BY AppendProperties
<1>3. SubSeq(t, 1, Len(s)) = SubSeq(Append(t, x), 1, Len(s))
  <2>1. SubSeq(t, 1, Len(s)) = [i \in 1..Len(s) |-> t[i]]
    BY <1>1
  <2>2. SubSeq(Append(t, x), 1, Len(s)) = [i \in 1..Len(s) |-> Append(t, x)[i]]
    BY <1>1, <1>2
  <2>3. \A i \in 1..Len(s) : Append(t, x)[i] = t[i]
    BY <1>1, <1>2
  <2> QED BY <2>1, <2>2, <2>3
<1> QED BY <1>1, <1>2, <1>3 DEF IsPrefix

-----------------------------------------------------------------------------
(* The sum of a function *)

\* The sum over a set of indices is that of an index picked from it and of the
\* others.
LEMMA SumUnfold ==
  ASSUME NEW f, NEW S, IsFiniteSet(S)
  PROVE  /\ SumFunctionOnSet(f, {}) = 0
         /\ S # {} => LET x == CHOOSE x \in S : TRUE
                      IN  SumFunctionOnSet(f, S) = f[x] + SumFunctionOnSet(f, S \ {x})
<1> DEFINE Pick(s) == CHOOSE x \in s : TRUE
           Sum(h, s) == IF s = {} THEN 0 ELSE f[Pick(s)] + h[s \ {Pick(s)}]
           IsSum(h, X) == h = [s \in SUBSET X |-> Sum(h, s)]
           Iter(X) == CHOOSE h : IsSum(h, X)
<1>1. \A X : SumFunctionOnSet(f, X) = Iter(X)[X]
  BY DEF SumFunctionOnSet, FoldFunctionOnSet, MapThenFoldSet
<1>2. \A s : s # {} => Pick(s) \in s /\ s \ {Pick(s)} \in SUBSET s /\ s \ {Pick(s)} # s
  OBVIOUS
<1>3. ASSUME NEW X, IsFiniteSet(X)
      PROVE  \E h : IsSum(h, X)
  <2> DEFINE Small(n) == {s \in SUBSET X : Cardinality(s) <= n}
             T == {n \in Nat : \E h : h = [s \in Small(n) |-> Sum(h, s)]}
  <2>1. \A s \in SUBSET X : IsFiniteSet(s) /\ Cardinality(s) \in Nat /\ Cardinality(s) <= Cardinality(X)
    BY <1>3, FS_Subset, FS_CardinalityType
  <2>2. 0 \in T
    <3> DEFINE h == [s \in Small(0) |-> 0]
    <3>1. \A s \in Small(0) : s = {}
      BY <2>1, FS_EmptySet
    <3>2. h = [s \in Small(0) |-> Sum(h, s)]
      BY <3>1
    <3> QED BY <3>2
  <2>3. ASSUME NEW n \in Nat, n \in T
        PROVE  n + 1 \in T
    <3>1. PICK h : h = [s \in Small(n) |-> Sum(h, s)]
      BY <2>3
    <3> DEFINE g == [s \in Small(n + 1) |-> Sum(h, s)]
    <3>2. ASSUME NEW s \in Small(n + 1), s # {}
          PROVE  g[s \ {Pick(s)}] = h[s \ {Pick(s)}]
      <4> DEFINE r == s \ {Pick(s)}
      <4>1. Pick(s) \in s /\ r \in SUBSET X
        BY <1>2, <3>2
      <4>2. Cardinality(r) = Cardinality(s) - 1
        BY <2>1, <3>2, <4>1, FS_RemoveElement
      <4>3. r \in Small(n) /\ r \in Small(n + 1)
        BY <2>1, <4>1, <4>2
      <4> HIDE DEF r, Sum
      <4>4. g[r] = Sum(h, r) /\ h[r] = Sum(h, r)
        BY <3>1, <4>3
      <4> QED BY <4>4 DEF r
    <3>3. \A s \in Small(n + 1) : Sum(g, s) = Sum(h, s)
      <4> HIDE DEF g, Pick
      <4> QED BY <3>2
    <3>4. g = [s \in Small(n + 1) |-> Sum(g, s)]
      <4> HIDE DEF Sum
      <4> QED BY <3>3
    <3>5. n + 1 \in Nat
      OBVIOUS
    <3> HIDE DEF g, Sum, Small
    <3> QED BY <3>4, <3>5
  <2>4. Nat \subseteq T
    <3> HIDE DEF T
    <3> QED BY <2>2, <2>3, NatInduct
  <2>5. X \in SUBSET X
    OBVIOUS
  <2>6. Cardinality(X) \in Nat /\ Small(Cardinality(X)) = SUBSET X
    BY <2>1, <2>5
  <2>7. PICK h : h = [s \in Small(Cardinality(X)) |-> Sum(h, s)]
    BY <2>4, <2>6
  <2>8. IsSum(h, X)
    BY <2>6, <2>7
  <2> QED BY <2>8
<1>4. \A X : IsFiniteSet(X) => IsSum(Iter(X), X)
  <2> HIDE DEF IsSum
  <2> QED BY <1>3
<1>5. ASSUME NEW X, IsFiniteSet(X), NEW Y \in SUBSET X, NEW h, IsSum(h, X), NEW g, IsSum(g, Y)
      PROVE  h[Y] = g[Y]
  <2> DEFINE F == {s \in SUBSET Y : h[s] = g[s]}
  <2>1. IsFiniteSet(Y)
    BY <1>5, FS_Subset
  <2>2. ASSUME NEW t \in SUBSET Y, \A u \in SUBSET t : u # t => u \in F
        PROVE  t \in F
    <3>1. h[t] = Sum(h, t) /\ g[t] = Sum(g, t)
      <4> HIDE DEF Sum
      <4>1. t \in SUBSET X
        OBVIOUS
      <4> QED BY <1>5, <4>1
    <3>2. t # {} => h[t \ {Pick(t)}] = g[t \ {Pick(t)}]
      <4> HIDE DEF Pick
      <4> QED BY <1>2, <2>2
    <3>3. h[t] = g[t]
      <4> HIDE DEF Pick
      <4> QED BY <3>1, <3>2
    <3> QED BY <3>3
  <2>3. SUBSET Y \subseteq F
    <3> HIDE DEF F
    <3> QED BY <2>1, <2>2, SubsetInduct
  <2> QED BY <2>3
<1>6. SumFunctionOnSet(f, {}) = 0
  <2>1. IsSum(Iter({}), {})
    BY <1>4, FS_EmptySet
  <2>2. Iter({})[{}] = Sum(Iter({}), {})
    <3> HIDE DEF Iter, Sum
    <3> QED BY <2>1
  <2> QED BY <1>1, <2>2
<1>7. ASSUME S # {}
      PROVE  SumFunctionOnSet(f, S) = f[Pick(S)] + SumFunctionOnSet(f, S \ {Pick(S)})
  <2> DEFINE R == S \ {Pick(S)}
  <2>1. R \in SUBSET S /\ IsFiniteSet(R)
    BY <1>2, <1>7, FS_Subset
  <2>2. IsSum(Iter(S), S) /\ IsSum(Iter(R), R)
    BY <1>4, <2>1
  <2> HIDE DEF Iter, Pick, R
  <2>3. Iter(S)[R] = Iter(R)[R]
    <3> HIDE DEF IsSum
    <3> QED BY <1>5, <2>1, <2>2
  <2>4. Iter(S)[S] = Sum(Iter(S), S)
    <3> HIDE DEF Sum
    <3>1. S \in SUBSET S
      OBVIOUS
    <3> QED BY <2>2, <3>1
  <2>5. Iter(S)[S] = f[Pick(S)] + Iter(S)[R]
    BY <1>7, <2>4 DEF R
  <2>6. SumFunctionOnSet(f, S) = Iter(S)[S] /\ SumFunctionOnSet(f, R) = Iter(R)[R]
    BY <1>1
  <2> QED BY <2>3, <2>5, <2>6 DEF R
<1> QED BY <1>6, <1>7

\* The sum of numbers is a number, and depends on nothing but the numbers.
LEMMA SumOfNumbers ==
  ASSUME NEW S, IsFiniteSet(S), NEW f, \A x \in S : f[x] \in Nat
  PROVE  /\ SumFunctionOnSet(f, S) \in Nat
         /\ \A g : (\A x \in S : g[x] = f[x]) => SumFunctionOnSet(g, S) = SumFunctionOnSet(f, S)
<1> DEFINE Agree(s) == \A g : (\A x \in S : g[x] = f[x])
                                => SumFunctionOnSet(g, s) = SumFunctionOnSet(f, s)
           F == {s \in SUBSET S : SumFunctionOnSet(f, s) \in Nat /\ Agree(s)}
<1>1. ASSUME NEW t \in SUBSET S, \A u \in SUBSET t : u # t => u \in F
      PROVE  t \in F
  <2> DEFINE x == CHOOSE x \in t : TRUE
  <2>1. IsFiniteSet(t)
    BY FS_Subset
  <2>2. \A g : SumFunctionOnSet(g, {}) = 0
    BY FS_EmptySet, SumUnfold
  <2>3. CASE t = {}
    BY <2>2, <2>3
  <2>4. CASE t # {}
    <3>1. \A g : SumFunctionOnSet(g, t) = g[x] + SumFunctionOnSet(g, t \ {x})
      BY <2>1, <2>4, SumUnfold
    <3>2. x \in t
      BY <2>4
    <3>3. t \ {x} \in F
      BY <1>1, <3>2
    <3>4. SumFunctionOnSet(f, t) \in Nat
      BY <3>1, <3>2, <3>3
    <3>5. Agree(t)
      BY <3>1, <3>2, <3>3
    <3> QED BY <3>4, <3>5
  <2> QED BY <2>3, <2>4
<1>2. SUBSET S \subseteq F
  <2> HIDE DEF F
  <2> QED BY <1>1, SubsetInduct
<1> QED BY <1>2

\* Any index can be taken out of a sum of numbers.
LEMMA SumRemove ==
  ASSUME NEW S, IsFiniteSet(S), NEW f, \A x \in S : f[x] \in Nat, NEW x \in S
  PROVE  SumFunctionOnSet(f, S) = f[x] + SumFunctionOnSet(f, S \ {x})
<1> DEFINE F == {s \in SUBSET S : \A y \in s :
                   SumFunctionOnSet(f, s) = f[y] + SumFunctionOnSet(f, s \ {y})}
<1>1. \A s \in SUBSET S : IsFiniteSet(s) /\ SumFunctionOnSet(f, s) \in Nat
  BY FS_Subset, SumOfNumbers
<1>2. ASSUME NEW t \in SUBSET S, \A u \in SUBSET t : u # t => u \in F
      PROVE  t \in F
  <2> SUFFICES ASSUME NEW y \in t
               PROVE  SumFunctionOnSet(f, t) = f[y] + SumFunctionOnSet(f, t \ {y})
    OBVIOUS
  <2> DEFINE z == CHOOSE z \in t : TRUE
  <2>1. SumFunctionOnSet(f, t) = f[z] + SumFunctionOnSet(f, t \ {z}) /\ z \in t
    BY <1>1, SumUnfold
  <2> HIDE DEF z
  <2>2. CASE y = z
    BY <2>1, <2>2
  <2>3. CASE y # z
    <3>1. t \ {z} \in F /\ t \ {y} \in F /\ y \in t \ {z} /\ z \in t \ {y}
      BY <1>2, <2>1, <2>3
    <3>2. SumFunctionOnSet(f, t \ {z}) = f[y] + SumFunctionOnSet(f, (t \ {z}) \ {y})
      BY <3>1
    <3>3. SumFunctionOnSet(f, t \ {y}) = f[z] + SumFunctionOnSet(f, (t \ {y}) \ {z})
      BY <3>1
    <3>4. (t \ {z}) \ {y} = (t \ {y}) \ {z}
      OBVIOUS
    <3>5. SumFunctionOnSet(f, (t \ {y}) \ {z}) \in Nat /\ f[y] \in Nat /\ f[z] \in Nat
      <4>1. (t \ {y}) \ {z} \in SUBSET S
        OBVIOUS
      <4> QED BY <1>1, <2>1, <4>1
    <3> DEFINE a == SumFunctionOnSet(f, (t \ {y}) \ {z})
    <3>6. f[z] + (f[y] + a) = f[y] + (f[z] + a)
      BY <3>5
    <3> QED BY ONLY <2>1, <3>2, <3>3, <3>4, <3>6
  <2> QED BY <2>2, <2>3
<1>3. SUBSET S \subseteq F
  <2> HIDE DEF F
  <2> QED BY <1>2, SubsetInduct
<1> QED BY <1>3
=============================================================================
