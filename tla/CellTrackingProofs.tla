------------------------ MODULE CellTrackingProofs ------------------------
(***************************************************************************)
(* Proofs about the identity of storm cells: for any ids, scans, overlaps, *)
(* lineage counters, assignments, failures and retries, a storm that is    *)
(* seen again keeps its track, and every detection is in the list once.    *)
(* A list is taken apart into one short list for each merge, split, match  *)
(* and new cell, and what each of them holds is counted.                   *)
(***************************************************************************)
EXTENDS CellTracking, FiniteSetTheorems, SequenceTheorems, TLAPS

-----------------------------------------------------------------------------
(***************************************************************************)
(* Numbers, and ids in order.                                              *)
(***************************************************************************)
\* Every finite set of numbers has a maximum, and Max is it.
LEMMA MaxOfFinite ==
  ASSUME NEW S, IsFiniteSet(S), S \subseteq Int, S # {}
  PROVE  Max(S) \in S /\ \A x \in S : x <= Max(S)
  <1> DEFINE HasMax(U) == \E m \in U : \A x \in U : x <= m
             T == {U \in SUBSET S : U # {} /\ ~HasMax(U)}
  <1>1. ASSUME T # {} PROVE FALSE
    <2>1. T \subseteq FiniteSubsetsOf(S)
      BY FS_Subset DEF FiniteSubsetsOf
    <2>2. PICK U \in T : \A V \in T : ~(<<V, U>> \in StrictSubsetOrdering(S))
      BY <1>1, <2>1, FS_StrictSubsetOrderingWellFounded, WFMin
    <2>3. PICK u \in U : TRUE
      OBVIOUS
    <2> DEFINE V == U \ {u}
    <2>4. V \notin T
      BY <2>2, <2>3 DEF StrictSubsetOrdering
    <2>5. CASE V = {}
      <3>1. U = {u} /\ u \in Int
        BY <2>3, <2>5
      <3> QED
        BY <3>1
    <2>6. ASSUME NEW m \in V, \A x \in V : x <= m PROVE FALSE
      <3>1. m \in Int /\ u \in Int /\ U \subseteq Int
        BY <2>3, <2>6
      <3>2. (\A x \in U : x <= m) \/ (\A x \in U : x <= u)
        BY <2>6, <3>1
      <3> QED
        BY <2>3, <3>2
    <2> QED
      BY <2>4, <2>5, <2>6
  <1>2. PICK m \in S : \A x \in S : x <= m
    BY <1>1
  <1>3. \E x \in S : \A y \in S : x >= y
    BY <1>2
  <1>4. Max(S) \in S /\ \A y \in S : Max(S) >= y
    BY <1>3 DEF Max
  <1> QED
    BY <1>4

\* Every set of natural numbers has a least element, and Min is it.
LEMMA LeastOfNumbers ==
  ASSUME NEW T, T \subseteq Nat, T # {}
  PROVE  Min(T) \in T /\ \A x \in T : Min(T) <= x
  <1>1. PICK n \in T : \A m \in T : ~ (<<m, n>> \in OpToRel(<, Nat))
    BY NatLessThanWellFounded, WFMin
  <1>2. ASSUME NEW m \in T, m < n PROVE FALSE
    <2>1. <<m, n>> \in OpToRel(<, Nat)
      BY <1>2 DEF OpToRel
    <2> QED
      BY <1>1, <2>1
  <1>3. \A m \in T : n =< m
    BY <1>2
  <1> QED
    BY <1>3 DEF Min

\* A set of numbers with 0 and the successor of each of its numbers has them all.
LEMMA NumbersOneByOne ==
  ASSUME NEW S, 0 \in S, \A n \in Nat : n \in S => n + 1 \in S
  PROVE  Nat \subseteq S
  <1> DEFINE T == Nat \ S
  <1> SUFFICES ASSUME T # {} PROVE FALSE
    OBVIOUS
  <1>1. PICK n \in T : \A m \in T : n <= m
    BY LeastOfNumbers
  <1>2. n - 1 \in Nat /\ n - 1 \in S
    BY <1>1
  <1> QED
    BY <1>2

\* In order: each id of the set at one place.
LEMMA InOrderLists ==
  ASSUME NEW S, IsFiniteSet(S), S \subseteq Nat
  PROVE  /\ Cardinality(S) \in Nat
         /\ InOrder(S) \in [1..Cardinality(S) -> S]
         /\ \A id \in S : \E n \in 1..Cardinality(S) : InOrder(S)[n] = id
         /\ \A m, n \in 1..Cardinality(S) : InOrder(S)[m] = InOrder(S)[n] => m = n
  <1> DEFINE Below(id) == {x \in S : x < id}
             Rank(id) == Cardinality(Below(id))
             N == Cardinality(S)
  <1>1. N \in Nat
    BY FS_CardinalityType
  <1>2. ASSUME NEW id \in S PROVE IsFiniteSet(Below(id)) /\ Rank(id) \in 0..N - 1
    <2>1. Below(id) \in SUBSET S /\ id \notin Below(id)
      OBVIOUS
    <2> HIDE DEF Below
    <2>2. IsFiniteSet(Below(id)) /\ Cardinality(Below(id)) <= N
      BY <2>1, FS_Subset
    <2>3. Cardinality(Below(id)) # N
      BY <2>1, FS_Subset
    <2>4. Cardinality(Below(id)) \in Nat
      BY <2>2, FS_CardinalityType
    <2> QED
      BY <1>1, <2>2, <2>3, <2>4
  <1>3. ASSUME NEW a \in S, NEW b \in S, a < b PROVE Rank(a) # Rank(b)
    <2>1. a \in Nat /\ b \in Nat /\ \A x \in S : x \in Nat
      OBVIOUS
    <2>2. \A x \in S : x < a => x < b
      BY <1>3, <2>1
    <2>3. Below(a) \in SUBSET Below(b)
      <3>1. \A x \in Below(a) : x \in S /\ x < a
        OBVIOUS
      <3>2. \A x \in Below(a) : x \in Below(b)
        BY <2>2, <3>1
      <3> QED
        BY <3>2
    <2>5. a \in Below(b) /\ a \notin Below(a)
      BY <1>3, <2>1
    <2>4. IsFiniteSet(Below(b))
      BY <1>2
    <2> HIDE DEF Below
    <2> QED
      BY <2>3, <2>4, <2>5, FS_Subset
  <1>4. \A a, b \in S : Rank(a) = Rank(b) => a = b
    <2>1. \A a, b \in S : a = b \/ a < b \/ b < a
      OBVIOUS
    <2> HIDE DEF Rank
    <2> QED
      BY <1>3, <2>1
  <1>5. \A n \in 1..N : \E id \in S : Rank(id) = n - 1
    <2> DEFINE f == [id \in S |-> Rank(id)]
    <2>1. IsFiniteSet(0..N - 1) /\ Cardinality(0..N - 1) = N
      <3>1. 0 \in Int /\ N - 1 \in Int
        BY <1>1
      <3>2. IsFiniteSet(0..N - 1) /\ Cardinality(0..N - 1) = IF 0 > N - 1 THEN 0 ELSE (N - 1) - 0 + 1
        BY <3>1, FS_Interval
      <3> HIDE DEF N
      <3> QED
        BY <1>1, <3>2
    <2>2. f \in Injection(S, 0..N - 1)
      <3> HIDE DEF Rank, N
      <3>1. f \in [S -> 0..N - 1] /\ \A a, b \in S : f[a] = f[b] => a = b
        BY <1>2, <1>4
      <3> HIDE DEF f
      <3> QED
        BY <3>1 DEF Injection, IsInjective
    <2>3. f \in Surjection(S, 0..N - 1)
      <3> HIDE DEF f
      <3> QED
        BY <2>1, <2>2, FS_Injection
    <2>4. \A k \in 0..N - 1 : \E id \in S : f[id] = k
      <3> HIDE DEF f
      <3> QED
        BY <2>3 DEF Surjection
    <2>5. \A n \in 1..N : n - 1 \in 0..N - 1
      BY <1>1
    <2> HIDE DEF Rank, N
    <2> QED
      BY <2>4, <2>5
  <1>6. InOrder(S) = [n \in 1..N |-> CHOOSE id \in S : Rank(id) = n - 1]
    BY DEF InOrder
  <1> HIDE DEF Rank, N
  <1>7. \A n \in 1..N : InOrder(S)[n] \in S /\ Rank(InOrder(S)[n]) = n - 1
    BY <1>5, <1>6
  <1>8. InOrder(S) \in [1..N -> S]
    BY <1>6, <1>7
  <1>9. \A id \in S : \E n \in 1..N : InOrder(S)[n] = id
    <2> TAKE id \in S
    <2>1. Rank(id) \in 0..N - 1
      BY <1>2
    <2>2. Rank(id) + 1 \in 1..N /\ (Rank(id) + 1) - 1 = Rank(id)
      BY <1>1, <2>1
    <2> QED
      BY <1>4, <1>7, <2>2
  <1>10. \A m, n \in 1..N : InOrder(S)[m] = InOrder(S)[n] => m = n
    BY <1>1, <1>7
  <1> QED
    BY <1>1, <1>8, <1>9, <1>10 DEF N

-----------------------------------------------------------------------------
(***************************************************************************)
(* Lists: how many entries of a kind they hold.                            *)
(***************************************************************************)
\* How many entries of a list are of a kind: none, exactly one, at least one.
HasNone(s, kind) == \A p \in DOMAIN s : s[p] \notin kind
HasOne(s, kind) == \E p \in DOMAIN s : \A q \in DOMAIN s : s[q] \in kind <=> q = p
HasSome(s, kind) == \E p \in DOMAIN s : s[p] \in kind

\* One list after another.
LEMMA JoinedHolds ==
  ASSUME NEW T, NEW s \in Seq(T), NEW t \in Seq(T), NEW kind
  PROVE  /\ s \o t \in Seq(T)
         /\ HasNone(s, kind) /\ HasNone(t, kind) => HasNone(s \o t, kind)
         /\ HasOne(s, kind) /\ HasNone(t, kind) => HasOne(s \o t, kind)
         /\ HasNone(s, kind) /\ HasOne(t, kind) => HasOne(s \o t, kind)
         /\ HasSome(s, kind) \/ HasSome(t, kind) => HasSome(s \o t, kind)
  <1> DEFINE m == Len(s)
             n == Len(t)
             both == s \o t
  <1>1. /\ m \in Nat /\ n \in Nat /\ DOMAIN s = 1..m /\ DOMAIN t = 1..n
        /\ both \in Seq(T) /\ DOMAIN both = 1..m + n
        /\ \A p \in 1..m : p \in 1..m + n /\ both[p] = s[p]
        /\ \A p \in 1..n : m + p \in 1..m + n /\ both[m + p] = t[p]
    <2>1. /\ m \in Nat /\ n \in Nat /\ DOMAIN s = 1..m /\ DOMAIN t = 1..n
          /\ both \in Seq(T) /\ Len(both) = m + n /\ DOMAIN both = 1..Len(both)
      BY ConcatProperties, LenProperties
    <2>2. \A p \in 1..m + n : both[p] = IF p <= m THEN s[p] ELSE t[p - m]
      BY <2>1, ConcatProperties
    <2> HIDE DEF m, n, both
    <2>3. \A p \in 1..m : p \in 1..m + n /\ p <= m
      BY <2>1
    <2>4. \A p \in 1..n : m + p \in 1..m + n /\ ~(m + p <= m) /\ (m + p) - m = p
      BY <2>1
    <2> QED
      BY <2>1, <2>2, <2>3, <2>4
  <1>2. \A p \in 1..m + n : p \in 1..m \/ \E k \in 1..n : p = m + k
    <2> TAKE p \in 1..m + n
    <2>1. CASE p <= m
      BY <1>1, <2>1
    <2>2. CASE p > m
      <3>1. p - m \in 1..n /\ p = m + (p - m)
        BY <1>1, <2>2
      <3> QED
        BY <3>1
    <2> QED
      BY <1>1, <2>1, <2>2
  <1>3. \A k, l \in 1..n : m + k = m + l => k = l
    BY <1>1
  <1>4. \A k \in 1..m, l \in 1..n : k # m + l
    BY <1>1
  <1> HIDE DEF m, n, both
  <1>d. DOMAIN s = 1..m /\ DOMAIN t = 1..n /\ DOMAIN both = 1..m + n
    BY <1>1
  <1>s. \A p \in 1..m : p \in 1..m + n /\ both[p] = s[p]
    BY <1>1
  <1>t. \A p \in 1..n : m + p \in 1..m + n /\ both[m + p] = t[p]
    BY <1>1
  <1>5. HasNone(s, kind) /\ HasNone(t, kind) => HasNone(both, kind)
    <2> SUFFICES ASSUME HasNone(s, kind), HasNone(t, kind), NEW p \in 1..m + n
                 PROVE  both[p] \notin kind
      BY <1>d DEF HasNone
    <2>1. \A k \in 1..m : s[k] \notin kind
      BY <1>d DEF HasNone
    <2>2. \A k \in 1..n : t[k] \notin kind
      BY <1>d DEF HasNone
    <2> QED
      BY <1>2, <1>s, <1>t, <2>1, <2>2
  <1>6. HasOne(s, kind) /\ HasNone(t, kind) => HasOne(both, kind)
    <2> SUFFICES ASSUME HasOne(s, kind), HasNone(t, kind) PROVE HasOne(both, kind)
      OBVIOUS
    <2>0. PICK p \in DOMAIN s : \A q \in DOMAIN s : s[q] \in kind <=> q = p
      BY DEF HasOne
    <2>1. p \in 1..m /\ \A q \in 1..m : s[q] \in kind <=> q = p
      BY <1>d, <2>0
    <2>2. \A q \in 1..n : both[m + q] \notin kind
      BY <1>d, <1>t DEF HasNone
    <2>3. \A q \in 1..m + n : both[q] \in kind <=> q = p
      BY <1>2, <1>4, <1>s, <2>1, <2>2
    <2> QED
      BY <1>1, <2>3, SMTT(30) DEF HasOne
  <1>7. HasNone(s, kind) /\ HasOne(t, kind) => HasOne(both, kind)
    <2> SUFFICES ASSUME HasNone(s, kind), HasOne(t, kind) PROVE HasOne(both, kind)
      OBVIOUS
    <2>0. PICK p \in DOMAIN t : \A q \in DOMAIN t : t[q] \in kind <=> q = p
      BY DEF HasOne
    <2>1. p \in 1..n /\ \A q \in 1..n : t[q] \in kind <=> q = p
      BY <1>d, <2>0
    <2>2. \A q \in 1..m : both[q] \notin kind
      BY <1>d, <1>s DEF HasNone
    <2>3. ASSUME NEW q \in 1..m + n PROVE both[q] \in kind <=> q = m + p
      <3>1. CASE q \in 1..m
        BY <1>4, <2>1, <2>2, <3>1
      <3>2. ASSUME NEW k \in 1..n, q = m + k PROVE both[q] \in kind <=> q = m + p
        BY <1>3, <1>t, <2>1, <3>2
      <3> QED
        BY <1>2, <3>1, <3>2
    <2>4. m + p \in DOMAIN both
      BY <1>1
    <2> QED
      BY <1>1, <2>3, <2>4 DEF HasOne
  <1>8. HasSome(s, kind) \/ HasSome(t, kind) => HasSome(both, kind)
    BY <1>1 DEF HasSome
  <1> QED
    BY <1>1, <1>5, <1>6, <1>7, <1>8 DEF both

\* A list of lists is flattened one list at a time.
Flattens(g, ss, n) ==
    /\ FlattenSeq(ss) = g[n] /\ g[1] = ss[1]
    /\ \A k \in 1..n - 1 : g[k + 1] = g[k] \o ss[k + 1]

\* Such a sequence of prefixes exists.
LEMMA FlattenedSteps ==
  ASSUME NEW n \in Nat \ {0}, NEW ss, Len(ss) = n
  PROVE  \E g : Flattens(g, ss, n)
  <1> DEFINE Step(g, k) == IF k = 1 THEN ss[k] ELSE g[k - 1] \o ss[k]
             Solves(g, m) == g = [k \in 1..m |-> Step(g, k)]
             Solvable == {m \in Nat : \E g : Solves(g, m)}
  <1>1. 0 \in Solvable
    <2> DEFINE g == [k \in 1..0 |-> {}]
    <2>1. Solves(g, 0)
      <3> HIDE DEF Step
      <3>1. \A k \in 1..0 : FALSE
        OBVIOUS
      <3> QED
        BY <3>1
    <2> QED
      BY <2>1
  <1>2. ASSUME NEW m \in Nat, m \in Solvable PROVE m + 1 \in Solvable
    <2> SUFFICES \E h : Solves(h, m + 1)
      <3> HIDE DEF Solves
      <3>1. m + 1 \in Nat
        OBVIOUS
      <3> QED
        BY <3>1
    <2>2. PICK g : Solves(g, m)
      BY <1>2
    <2>3. \A k \in 1..m : g[k] = Step(g, k)
      BY <2>2
    <2>4. PICK h : h = [k \in 1..m + 1 |-> IF k <= m THEN g[k] ELSE Step(g, k)]
      OBVIOUS
    <2> HIDE DEF Solves
    <2>5. \A k \in 1..m : h[k] = g[k]
      BY <2>4
    <2>6. ASSUME NEW k \in 1..m + 1 PROVE h[k] = Step(h, k)
      <3>1. h[k] = Step(g, k)
        <4> HIDE DEF Step
        <4> QED
          BY <2>3, <2>4
      <3>2. CASE k = 1
        BY <3>1, <3>2
      <3>3. CASE k # 1
        <4>1. k - 1 \in 1..m
          BY <3>3
        <4>2. h[k - 1] = g[k - 1]
          BY <2>5, <4>1
        <4> QED
          BY <3>1, <3>3, <4>2
      <3> QED
        BY <3>2, <3>3
    <2>7. Solves(h, m + 1)
      <3>1. h = [k \in 1..m + 1 |-> h[k]]
        BY <2>4
      <3> HIDE DEF Step
      <3>2. [k \in 1..m + 1 |-> h[k]] = [k \in 1..m + 1 |-> Step(h, k)]
        BY <2>6
      <3> QED
        BY <3>1, <3>2 DEF Solves
    <2> QED
      BY <2>7
  <1>3. PICK g : Solves(g, n)
    <2> HIDE DEF Solves
    <2>1. Nat \subseteq Solvable
      <3> HIDE DEF Solvable
      <3> QED
        BY <1>1, <1>2, NumbersOneByOne
    <2> QED
      BY <2>1
  <1>4. PICK f : f = CHOOSE h : Solves(h, n)
    OBVIOUS
  <1>5. FlattenSeq(ss) = f[n]
    BY <1>4 DEF FlattenSeq
  <1>6. Solves(f, n)
    BY <1>3, <1>4
  <1>7. \A k \in 1..n : f[k] = Step(f, k)
    BY <1>6
  <1>8. f[1] = ss[1]
    BY <1>7
  <1>9. ASSUME NEW k \in 1..n - 1 PROVE f[k + 1] = f[k] \o ss[k + 1]
    <2>1. k + 1 \in 1..n /\ k + 1 # 1 /\ (k + 1) - 1 = k
      OBVIOUS
    <2>2. Step(f, k + 1) = f[k] \o ss[k + 1]
      BY <2>1
    <2> HIDE DEF Step
    <2> QED
      BY <1>7, <2>1, <2>2
  <1> QED
    BY <1>5, <1>8, <1>9 DEF Flattens

\* A flattened list holds what its lists hold.
LEMMA FlattenedHolds ==
  ASSUME NEW T, NEW n \in Nat, NEW ss \in [1..n -> Seq(T)], NEW kind
  PROVE  /\ FlattenSeq(ss) \in Seq(T)
         /\ (\A i \in 1..n : HasNone(ss[i], kind)) => HasNone(FlattenSeq(ss), kind)
         /\ \A i \in 1..n :
              HasOne(ss[i], kind) /\ (\A j \in 1..n \ {i} : HasNone(ss[j], kind))
                => HasOne(FlattenSeq(ss), kind)
         /\ \A i \in 1..n : HasSome(ss[i], kind) => HasSome(FlattenSeq(ss), kind)
  <1>1. Len(ss) = n
    <2>1. ss \in Seq(Seq(T)) /\ DOMAIN ss = 1..n
      OBVIOUS
    <2> QED
      BY <2>1, LenProperties
  <1>2. CASE n = 0
    <2>1. FlattenSeq(ss) = ss /\ ss = << >>
      BY <1>1, <1>2 DEF FlattenSeq
    <2>2. FlattenSeq(ss) \in Seq(T) /\ DOMAIN FlattenSeq(ss) = {} /\ 1..n = {}
      BY <1>2, <2>1
    <2> QED
      BY <2>2 DEF HasNone
  <1>3. CASE n # 0
    <2>1. PICK g : /\ FlattenSeq(ss) = g[n] /\ g[1] = ss[1]
                   /\ \A k \in 1..n - 1 : g[k + 1] = g[k] \o ss[k + 1]
      <3>1. n \in Nat \ {0}
        BY <1>3
      <3>2. PICK g : Flattens(g, ss, n)
        BY <1>1, <3>1, FlattenedSteps
      <3> QED
        BY <3>2 DEF Flattens
    <2> DEFINE Good(k) ==
                 /\ g[k] \in Seq(T)
                 /\ (\A i \in 1..k : HasNone(ss[i], kind)) => HasNone(g[k], kind)
                 /\ \A i \in 1..k :
                      HasOne(ss[i], kind) /\ (\A j \in 1..k \ {i} : HasNone(ss[j], kind))
                        => HasOne(g[k], kind)
                 /\ \A i \in 1..k : HasSome(ss[i], kind) => HasSome(g[k], kind)
               Done == {k \in Nat : k \in 1..n => Good(k)}
    <2>2. 0 \in Done
      OBVIOUS
    <2>3. ASSUME NEW k \in Nat, k \in Done PROVE k + 1 \in Done
      <3> SUFFICES ASSUME k + 1 \in 1..n PROVE Good(k + 1)
        <4> HIDE DEF Good
        <4> QED
          OBVIOUS
      <3>1. CASE k = 0
        <4>1. g[k + 1] = ss[1] /\ ss[1] \in Seq(T) /\ 1..k + 1 = {1}
          BY <2>1, <3>1
        <4> QED
          BY <4>1
      <3>2. CASE k # 0
        <4>1. k \in 1..n - 1 /\ k \in 1..n
          BY <3>2
        <4>2. Good(k) /\ g[k + 1] = g[k] \o ss[k + 1] /\ ss[k + 1] \in Seq(T)
          <5> HIDE DEF Good
          <5> QED
            BY <2>1, <2>3, <4>1
        <4>3. 1..k + 1 = 1..k \cup {k + 1} /\ k + 1 \notin 1..k
          OBVIOUS
        <4> DEFINE s == g[k]
                   t == ss[k + 1]
        <4>4. s \in Seq(T) /\ t \in Seq(T)
          BY <4>2
        <4>5. /\ s \o t \in Seq(T)
              /\ HasNone(s, kind) /\ HasNone(t, kind) => HasNone(s \o t, kind)
              /\ HasOne(s, kind) /\ HasNone(t, kind) => HasOne(s \o t, kind)
              /\ HasNone(s, kind) /\ HasOne(t, kind) => HasOne(s \o t, kind)
              /\ HasSome(s, kind) \/ HasSome(t, kind) => HasSome(s \o t, kind)
          <5> HIDE DEF s, t
          <5> QED
            BY <4>4, JoinedHolds
        <4>6. (\A i \in 1..k + 1 : HasNone(ss[i], kind)) => HasNone(g[k + 1], kind)
          BY <4>2, <4>3, <4>5
        <4>7. ASSUME NEW i \in 1..k + 1, HasOne(ss[i], kind),
                     \A j \in 1..k + 1 \ {i} : HasNone(ss[j], kind)
              PROVE  HasOne(g[k + 1], kind)
          <5>1. CASE i = k + 1
            <6>1. \A j \in 1..k : HasNone(ss[j], kind)
              BY <4>3, <4>7, <5>1
            <6> QED
              BY <4>2, <4>5, <4>7, <5>1, <6>1
          <5>2. CASE i \in 1..k
            <6>1. HasNone(t, kind) /\ \A j \in 1..k \ {i} : HasNone(ss[j], kind)
              BY <4>3, <4>7, <5>2
            <6> QED
              BY <4>2, <4>5, <4>7, <5>2, <6>1
          <5> QED
            BY <4>3, <5>1, <5>2
        <4>8. \A i \in 1..k + 1 : HasSome(ss[i], kind) => HasSome(g[k + 1], kind)
          BY <4>2, <4>3, <4>5
        <4> QED
          BY <4>2, <4>5, <4>6, <4>7, <4>8
      <3> QED
        BY <3>1, <3>2
    <2>4. n \in Done
      <3> HIDE DEF Done
      <3> QED
        BY <2>2, <2>3, NumbersOneByOne
    <2>5. Good(n)
      <3> HIDE DEF Good
      <3> QED
        BY <1>3, <2>4
    <2> QED
      BY <2>1, <2>5
  <1> QED
    BY <1>2, <1>3

\* One list for each id of a set, in order.
Each(parts) ==
    FlattenSeq([i \in 1..Cardinality(DOMAIN parts) |-> parts[InOrder(DOMAIN parts)[i]]])

\* A list made id by id holds what its lists hold.
LEMMA EachHolds ==
  ASSUME NEW T, NEW parts, IsFiniteSet(DOMAIN parts), DOMAIN parts \subseteq Nat,
         \A id \in DOMAIN parts : parts[id] \in Seq(T), NEW kind
  PROVE  /\ Each(parts) \in Seq(T)
         /\ (\A id \in DOMAIN parts : HasNone(parts[id], kind)) => HasNone(Each(parts), kind)
         /\ \A id \in DOMAIN parts :
              HasOne(parts[id], kind) /\ (\A x \in DOMAIN parts \ {id} : HasNone(parts[x], kind))
                => HasOne(Each(parts), kind)
         /\ \A id \in DOMAIN parts : HasSome(parts[id], kind) => HasSome(Each(parts), kind)
  <1> DEFINE ids == DOMAIN parts
             n == Cardinality(ids)
             ss == [i \in 1..n |-> parts[InOrder(ids)[i]]]
  <1>1. /\ n \in Nat /\ InOrder(ids) \in [1..n -> ids]
        /\ \A id \in ids : \E i \in 1..n : InOrder(ids)[i] = id
        /\ \A i, j \in 1..n : InOrder(ids)[i] = InOrder(ids)[j] => i = j
    BY InOrderLists
  <1>2. Each(parts) = FlattenSeq(ss)
    BY DEF Each
  <1>3. \A i \in 1..n : InOrder(ids)[i] \in ids /\ ss[i] = parts[InOrder(ids)[i]]
    BY <1>1
  <1>4. ss \in [1..n -> Seq(T)]
    BY <1>3
  <1> HIDE DEF ss, n
  <1>5. /\ FlattenSeq(ss) \in Seq(T)
        /\ (\A i \in 1..n : HasNone(ss[i], kind)) => HasNone(FlattenSeq(ss), kind)
        /\ \A i \in 1..n :
              HasOne(ss[i], kind) /\ (\A j \in 1..n \ {i} : HasNone(ss[j], kind))
                => HasOne(FlattenSeq(ss), kind)
        /\ \A i \in 1..n : HasSome(ss[i], kind) => HasSome(FlattenSeq(ss), kind)
    BY <1>1, <1>4, FlattenedHolds
  <1>6. ASSUME NEW id \in ids, HasOne(parts[id], kind),
               \A x \in ids \ {id} : HasNone(parts[x], kind)
        PROVE  HasOne(FlattenSeq(ss), kind)
    <2>1. PICK i \in 1..n : InOrder(ids)[i] = id
      BY <1>1
    <2>2. \A j \in 1..n \ {i} : InOrder(ids)[j] \in ids \ {id}
      BY <1>1, <2>1
    <2> QED
      BY <1>3, <1>5, <1>6, <2>1, <2>2
  <1>7. ASSUME NEW id \in ids, HasSome(parts[id], kind) PROVE HasSome(FlattenSeq(ss), kind)
    <2>1. PICK i \in 1..n : InOrder(ids)[i] = id
      BY <1>1
    <2> QED
      BY <1>3, <1>5, <1>7, <2>1
  <1> QED
    BY <1>2, <1>3, <1>5, <1>6, <1>7

-----------------------------------------------------------------------------
(***************************************************************************)
(* The invariant.  Beside the types, it knows where the events of an attempt *)
(* come from: a merge leads into a detection of this scan, a split out of a *)
(* cell of the scan before, and no detection or old record has two.        *)
(***************************************************************************)
Modes == {"live", "bare", "predicted", "dissipated"}
Cells == [id: Ids, track: Ids \X Nat, data: {0} \cup Ids, mode: Modes]

TrackType ==
    /\ tracks \in Seq(Cells)
    /\ frame = [scan |-> frame.scan, before |-> frame.before, seen |-> frame.seen,
                over |-> frame.over, single |-> frame.single]
    /\ frame.scan \in Nat /\ frame.before \in Seq(Cells) /\ frame.single \in BOOLEAN
    /\ frame.seen \subseteq Ids /\ IsFiniteSet(frame.seen)
    /\ attempt = [pc |-> attempt.pc, merges |-> attempt.merges, splits |-> attempt.splits,
                  left |-> attempt.left, out |-> attempt.out]
    /\ attempt.out \in Seq(Cells)

\* A merge leads into a detection, from cells that came before.
MergesAreSound ==
    \A m \in attempt.merges :
        m.child \in frame.seen /\ m = MergeInto(m.child) /\ Parents(m.child) # {}

\* A split leads out of a cell that came before, one for an id.
SplitsAreSound ==
    /\ \A s \in attempt.splits :
        \E p \in DOMAIN frame.before : s = SplitOf(p) /\ Children(p) # {}
    /\ \A s, t \in attempt.splits : s.parent = t.parent => s = t

TrackInv ==
    /\ TrackType /\ MergesAreSound /\ SplitsAreSound
    /\ IsFiniteSet(attempt.merges) /\ IsFiniteSet(attempt.splits)
    /\ TracksFollowStorms

\* The cells with the data of a detection, and the cells that go on with a track.
Carrying(new) == {c \in Cells : c.mode \notin {"dissipated", "predicted"} /\ c.data = new}
Continuing(id) ==
    {c \in Cells : /\ c.mode \notin {"dissipated", "predicted"}
                   /\ c.id = id /\ c.track = Entry(id).track}

\* The parts of the new list.
MergeParts == [c \in {m.child : m \in attempt.merges} |->
                 MergedCells(CHOOSE m \in attempt.merges : m.child = c)]
SplitParts == [p \in {s.parent : s \in attempt.splits} |->
                 SplitCells(CHOOSE s \in attempt.splits : s.parent = p)]
SameParts == [id \in SameId |-> <<Carry(Entry(id), id, id)>>]
ReacquiredParts(pairs) ==
    [id \in {d[1] : d \in pairs} |->
        <<Carry(LastEntry(id), id, (CHOOSE d \in pairs : d[1] = id)[2])>>]
LeftParts(pairs, fate) ==
    [id \in UnmatchedTracks \ {d[1] : d \in pairs} |->
        IF fate[id] = "dropped" THEN <<>>
        ELSE <<[LastEntry(id) EXCEPT !.mode = fate[id], !.data = 0]>>]
NewParts(pairs) == [id \in UnmatchedDetections \ {d[2] : d \in pairs} |-> <<NewCell(id, "live")>>]

\* Before: a finite set of ids, each with an entry.
LEMMA OldIdsAreFinite ==
  ASSUME TrackType
  PROVE  /\ IsFiniteSet(OldIds) /\ OldIds \subseteq Ids /\ Ids \subseteq Nat
         /\ \A id \in OldIds : /\ Entry(id) \in Cells /\ Entry(id).id = id
                               /\ LastEntry(id) \in Cells /\ LastEntry(id).id = id
  <1>1. /\ frame.before \in Seq(Cells) /\ Len(frame.before) \in Nat
        /\ DOMAIN frame.before = 1..Len(frame.before)
        /\ \A p \in DOMAIN frame.before : frame.before[p] \in Cells /\ frame.before[p].id \in Ids
    <2>1. frame.before \in Seq(Cells)
      BY DEF TrackType
    <2>2. \A p \in DOMAIN frame.before : frame.before[p] \in Cells
      BY <2>1
    <2> QED
      BY <2>1, <2>2, LenProperties DEF Cells
  <1>2. IsFiniteSet(DOMAIN frame.before) /\ DOMAIN frame.before \subseteq Nat
    <2>1. 1 \in Int /\ Len(frame.before) \in Int
      BY <1>1
    <2> QED
      BY <1>1, <2>1, FS_Interval
  <1>3. IsFiniteSet(OldIds)
    <2> DEFINE f == [p \in DOMAIN frame.before |-> frame.before[p].id]
    <2>1. f \in Surjection(DOMAIN frame.before, OldIds)
      BY DEF Surjection, OldIds
    <2> HIDE DEF f
    <2> QED
      BY <1>2, <2>1, FS_Surjection
  <1>4. OldIds \subseteq Ids /\ Ids \subseteq Nat
    BY <1>1, TrackingAssumption DEF OldIds
  <1>5. ASSUME NEW id \in OldIds
        PROVE  Min(Copies(id)) \in Copies(id) /\ Max(Copies(id)) \in Copies(id)
    <2>1. Copies(id) # {} /\ Copies(id) \in SUBSET DOMAIN frame.before
      BY DEF OldIds, Copies
    <2>2. IsFiniteSet(Copies(id)) /\ Copies(id) \subseteq Nat
      BY <1>2, <2>1, FS_Subset
    <2>3. Copies(id) \subseteq Int
      BY <2>2
    <2> QED
      BY <2>1, <2>2, <2>3, LeastOfNumbers, MaxOfFinite
  <1>6. \A id \in OldIds : \A p \in Copies(id) : frame.before[p] \in Cells /\ frame.before[p].id = id
    BY <1>1 DEF Copies
  <1> QED
    BY <1>3, <1>4, <1>5, <1>6 DEF Entry, LastEntry

\* Taken apart: ForEach is Each of the parts.
LEMMA UpdatedIs ==
  ASSUME NEW pairs, NEW fate,
         IsFiniteSet({m.child : m \in attempt.merges}), {m.child : m \in attempt.merges} \subseteq Nat,
         IsFiniteSet({s.parent : s \in attempt.splits}), {s.parent : s \in attempt.splits} \subseteq Nat,
         IsFiniteSet(SameId), SameId \subseteq Nat,
         IsFiniteSet({d[1] : d \in pairs}), {d[1] : d \in pairs} \subseteq Nat,
         IsFiniteSet(UnmatchedTracks), UnmatchedTracks \subseteq Nat,
         IsFiniteSet(UnmatchedDetections), UnmatchedDetections \subseteq Nat
  PROVE  Updated(pairs, fate) =
           Each(MergeParts) \o Each(SplitParts) \o Each(SameParts) \o Each(ReacquiredParts(pairs))
             \o Each(LeftParts(pairs, fate)) \o Each(NewParts(pairs))
  <1> DEFINE MergeOf(child) == MergedCells(CHOOSE m \in attempt.merges : m.child = child)
             SplitsOf(parent) == SplitCells(CHOOSE s \in attempt.splits : s.parent = parent)
             Matched(id) == <<Carry(Entry(id), id, id)>>
             Reacquired(id) == <<Carry(LastEntry(id), id, (CHOOSE d \in pairs : d[1] = id)[2])>>
             Left(id) == IF fate[id] = "dropped" THEN <<>>
                         ELSE <<[LastEntry(id) EXCEPT !.mode = fate[id], !.data = 0]>>
             New(id) == <<NewCell(id, "live")>>
             A == {m.child : m \in attempt.merges}
             B == {s.parent : s \in attempt.splits}
             D == {d[1] : d \in pairs}
             E == UnmatchedTracks \ {d[1] : d \in pairs}
             F == UnmatchedDetections \ {d[2] : d \in pairs}
  <1>1. ForEach(A, MergeOf) = Each(MergeParts)
    <2>1. \A i \in 1..Cardinality(A) : InOrder(A)[i] \in A
      BY InOrderLists
    <2>2. DOMAIN MergeParts = A /\ \A x \in A : MergeParts[x] = MergeOf(x)
      BY DEF MergeParts
    <2> HIDE DEF A, MergeOf
    <2> QED
      BY <2>1, <2>2 DEF ForEach, Each
  <1>2. ForEach(B, SplitsOf) = Each(SplitParts)
    <2>1. \A i \in 1..Cardinality(B) : InOrder(B)[i] \in B
      BY InOrderLists
    <2>2. DOMAIN SplitParts = B /\ \A x \in B : SplitParts[x] = SplitsOf(x)
      BY DEF SplitParts
    <2> HIDE DEF B, SplitsOf
    <2> QED
      BY <2>1, <2>2 DEF ForEach, Each
  <1>3. ForEach(SameId, Matched) = Each(SameParts)
    <2>1. \A i \in 1..Cardinality(SameId) : InOrder(SameId)[i] \in SameId
      BY InOrderLists
    <2>2. DOMAIN SameParts = SameId /\ \A x \in SameId : SameParts[x] = Matched(x)
      BY DEF SameParts
    <2> HIDE DEF Matched
    <2> QED
      BY <2>1, <2>2 DEF ForEach, Each
  <1>4. ForEach(D, Reacquired) = Each(ReacquiredParts(pairs))
    <2>1. \A i \in 1..Cardinality(D) : InOrder(D)[i] \in D
      BY InOrderLists
    <2>2. DOMAIN ReacquiredParts(pairs) = D /\ \A x \in D : ReacquiredParts(pairs)[x] = Reacquired(x)
      BY DEF ReacquiredParts
    <2> HIDE DEF D, Reacquired
    <2> QED
      BY <2>1, <2>2 DEF ForEach, Each
  <1>5. ForEach(E, Left) = Each(LeftParts(pairs, fate))
    <2>0. E \in SUBSET UnmatchedTracks
      OBVIOUS
    <2>a. IsFiniteSet(E) /\ E \subseteq Nat
      BY <2>0, FS_Subset
    <2>1. \A i \in 1..Cardinality(E) : InOrder(E)[i] \in E
      BY <2>a, InOrderLists
    <2>2. DOMAIN LeftParts(pairs, fate) = E /\ \A x \in E : LeftParts(pairs, fate)[x] = Left(x)
      BY DEF LeftParts
    <2> HIDE DEF E, Left
    <2> QED
      BY <2>1, <2>2 DEF ForEach, Each
  <1>6. ForEach(F, New) = Each(NewParts(pairs))
    <2>0. F \in SUBSET UnmatchedDetections
      OBVIOUS
    <2>a. IsFiniteSet(F) /\ F \subseteq Nat
      BY <2>0, FS_Subset
    <2>1. \A i \in 1..Cardinality(F) : InOrder(F)[i] \in F
      BY <2>a, InOrderLists
    <2>2. DOMAIN NewParts(pairs) = F /\ \A x \in F : NewParts(pairs)[x] = New(x)
      BY DEF NewParts
    <2> HIDE DEF F, New
    <2> QED
      BY <2>1, <2>2 DEF ForEach, Each
  <1>7. Updated(pairs, fate) =
          ForEach(A, MergeOf) \o ForEach(B, SplitsOf) \o ForEach(SameId, Matched)
            \o ForEach(D, Reacquired) \o ForEach(E, Left) \o ForEach(F, New)
    BY DEF Updated
  <1> QED
    BY <1>1, <1>2, <1>3, <1>4, <1>5, <1>6, <1>7

-----------------------------------------------------------------------------
(***************************************************************************)
(* What each event puts into the new list.                                 *)
(***************************************************************************)
\* A list of one entry, and of none.
LEMMA OneEntry ==
  ASSUME NEW T, NEW x \in T, NEW kind
  PROVE  /\ <<x>> \in Seq(T) /\ << >> \in Seq(T) /\ HasNone(<< >>, kind)
         /\ x \in kind => HasOne(<<x>>, kind) /\ HasSome(<<x>>, kind)
         /\ x \notin kind => HasNone(<<x>>, kind)
  <1>1. <<x>> \in Seq(T) /\ << >> \in Seq(T) /\ DOMAIN <<x>> = {1} /\ <<x>>[1] = x
    OBVIOUS
  <1>2. HasNone(<< >>, kind)
    BY DEF HasNone
  <1> DEFINE s == <<x>>
  <1>3. DOMAIN s = {1} /\ s[1] = x
    BY <1>1
  <1> HIDE DEF s
  <1>4. x \in kind => HasOne(s, kind) /\ HasSome(s, kind)
    BY <1>3 DEF HasOne, HasSome
  <1>5. x \notin kind => HasNone(s, kind)
    BY <1>3 DEF HasNone
  <1> QED
    BY <1>1, <1>2, <1>4, <1>5 DEF s

\* An id lives on in one of the cells it came from.
LEMMA MergeFacts ==
  ASSUME TrackType, MergesAreSound, NEW m \in attempt.merges
  PROVE  /\ m.child \in frame.seen /\ m.parents \subseteq OldIds /\ m.dominant \in m.parents
         /\ m.child \in m.parents => m.dominant = m.child
         /\ m.parents = Parents(m.child)
  <1> DEFINE new == m.child
  <1>1. new \in frame.seen /\ m = MergeInto(new) /\ Parents(new) # {}
    BY DEF MergesAreSound
  <1>2. m.parents = Parents(new)
        /\ m.dominant = IF new \in Parents(new) THEN new ELSE Strongest(Parents(new))
    BY <1>1 DEF MergeInto
  <1>3. Parents(new) \subseteq OldIds
    <2>1. Others(new) \subseteq OldIds
      BY DEF Others
    <2>2. OverlapsOld(new, new) => new \in OldIds
      BY DEF OverlapsOld, Copies, OldIds
    <2> HIDE DEF new
    <2> QED
      BY <2>1, <2>2 DEF Parents
  <1>4. Strongest(Parents(new)) \in Parents(new)
    <2>1. IsFiniteSet(OldIds) /\ OldIds \subseteq Nat
      BY OldIdsAreFinite
    <2>2. IsFiniteSet(Parents(new))
      BY <1>3, <2>1, FS_Subset
    <2>3. Parents(new) \subseteq Nat
      BY <1>3, <2>1
    <2>4. Parents(new) \subseteq Int
      BY <2>3
    <2> QED
      BY <1>1, <2>2, <2>4, MaxOfFinite DEF Strongest
  <1> QED
    BY <1>1, <1>2, <1>3, <1>4

\* One of the cells that came out of a split goes on with the track of the old one.
LEMMA SplitFacts ==
  ASSUME TrackType, SplitsAreSound, NEW s \in attempt.splits
  PROVE  /\ s.parent \in OldIds /\ s.children \subseteq frame.seen /\ s.dominant \in s.children
         /\ s.parent \in s.children => s.dominant = s.parent
  <1>1. PICK p \in DOMAIN frame.before : s = SplitOf(p) /\ Children(p) # {}
    BY DEF SplitsAreSound
  <1> DEFINE id == frame.before[p].id
  <1>2. /\ s.parent = id /\ s.children = Children(p)
        /\ s.dominant = IF id \in Children(p) THEN id ELSE Strongest(Children(p))
    BY <1>1 DEF SplitOf
  <1>3. id \in OldIds /\ Children(p) \subseteq frame.seen
    BY DEF OldIds, Children
  <1>4. Strongest(Children(p)) \in Children(p)
    <2>1. IsFiniteSet(frame.seen) /\ frame.seen \subseteq Ids
      BY DEF TrackType
    <2>2. IsFiniteSet(Children(p))
      BY <1>3, <2>1, FS_Subset
    <2>3. Children(p) \subseteq Nat
      BY <1>3, <2>1, TrackingAssumption
    <2>4. Children(p) \subseteq Int
      BY <2>3
    <2> QED
      BY <1>1, <2>2, <2>4, MaxOfFinite DEF Strongest
  <1> QED
    BY <1>2, <1>3, <1>4

\* The cells made: of the right type, and of the right kind.
LEMMA CellsMade ==
  ASSUME TrackType
  PROVE  /\ \A c \in Cells, id \in Ids, data \in Ids :
              /\ Carry(c, id, data) \in Cells
              /\ Carry(c, id, data) \in Carrying(data)
              /\ \A new \in Ids \ {data} : Carry(c, id, data) \notin Carrying(new)
         /\ \A id \in Ids, mode \in {"live", "bare"} :
              /\ NewCell(id, mode) \in Cells
              /\ NewCell(id, mode) \in Carrying(id)
              /\ \A new \in Ids \ {id} : NewCell(id, mode) \notin Carrying(new)
         /\ \A c \in Cells, mode \in {"predicted", "dissipated"} :
              /\ [c EXCEPT !.mode = mode, !.data = 0] \in Cells
              /\ \A new : [c EXCEPT !.mode = mode, !.data = 0] \notin Carrying(new)
  <1>1. ASSUME NEW c \in Cells, NEW id \in Ids, NEW data \in Ids
        PROVE  /\ Carry(c, id, data) \in Cells
               /\ Carry(c, id, data).mode = "live" /\ Carry(c, id, data).data = data
    BY DEF Carry, Cell, Cells, Modes
  <1>2. ASSUME NEW id \in Ids, NEW mode \in {"live", "bare"}
        PROVE  /\ NewCell(id, mode) \in Cells
               /\ NewCell(id, mode).mode = mode /\ NewCell(id, mode).data = id
    <2>1. frame.scan \in Nat
      BY DEF TrackType
    <2> QED
      BY <2>1 DEF NewCell, Cell, Cells, Modes
  <1>3. ASSUME NEW c \in Cells, NEW mode \in {"predicted", "dissipated"}
        PROVE  LET d == [c EXCEPT !.mode = mode, !.data = 0]
               IN  d \in Cells /\ d.mode = mode
    BY DEF Cells, Modes
  <1>4. \A new, c : c \in Carrying(new) <=>
          c \in Cells /\ c.mode \notin {"dissipated", "predicted"} /\ c.data = new
    BY DEF Carrying
  <1>5. \A c \in Cells, id \in Ids, data \in Ids :
          /\ Carry(c, id, data) \in Carrying(data)
          /\ \A new \in Ids \ {data} : Carry(c, id, data) \notin Carrying(new)
    <2> TAKE c \in Cells, id \in Ids, data \in Ids
    <2> DEFINE d == Carry(c, id, data)
    <2>1. d \in Cells /\ d.mode = "live" /\ d.data = data
      BY <1>1
    <2>2. d \in Carrying(data) /\ \A new \in Ids \ {data} : d \notin Carrying(new)
      <3> HIDE DEF d
      <3> QED
        BY <1>4, <2>1
    <2> QED
      BY <2>2
  <1>6. \A id \in Ids, mode \in {"live", "bare"} :
          /\ NewCell(id, mode) \in Carrying(id)
          /\ \A new \in Ids \ {id} : NewCell(id, mode) \notin Carrying(new)
    BY <1>2, <1>4
  <1>7. \A c \in Cells, mode \in {"predicted", "dissipated"} :
          \A new : [c EXCEPT !.mode = mode, !.data = 0] \notin Carrying(new)
    BY <1>3, <1>4
  <1> QED
    BY <1>1, <1>2, <1>3, <1>5, <1>6, <1>7

\* What a merge puts into the list: its child, once.
LEMMA MergedCellsHold ==
  ASSUME TrackType, MergesAreSound, NEW m \in attempt.merges
  PROVE  /\ MergedCells(m) \in Seq(Cells)
         /\ HasOne(MergedCells(m), Carrying(m.child))
         /\ \A new \in Ids \ {m.child} : HasNone(MergedCells(m), Carrying(new))
         /\ m.dominant = m.child => HasSome(MergedCells(m), Continuing(m.child))
  <1> DEFINE Gone(id) == <<[Entry(id) EXCEPT !.mode = "dissipated", !.data = 0]>>
             ids == m.parents \ {m.dominant}
             parts == [id \in ids |-> Gone(id)]
             gone == IF m.dominant = m.child THEN ForEach(ids, Gone) ELSE <<>>
             cell == Carry(Entry(m.dominant), m.child, m.child)
  <1>1. /\ m.child \in Ids /\ m.parents \subseteq OldIds /\ m.dominant \in m.parents
    <2>1. frame.seen \subseteq Ids
      BY DEF TrackType
    <2> QED
      BY <2>1, MergeFacts
  <1>2. /\ IsFiniteSet(OldIds) /\ OldIds \subseteq Nat
        /\ \A id \in OldIds : Entry(id) \in Cells
    BY OldIdsAreFinite
  <1>3. IsFiniteSet(ids) /\ ids \subseteq Nat /\ ids \subseteq OldIds
    BY <1>1, <1>2, FS_Subset
  <1>4. ASSUME NEW id \in ids, NEW new
        PROVE  Gone(id) \in Seq(Cells) /\ HasNone(Gone(id), Carrying(new))
    <2> DEFINE c == [Entry(id) EXCEPT !.mode = "dissipated", !.data = 0]
    <2>1. Entry(id) \in Cells
      BY <1>2, <1>3
    <2>2. c \in Cells /\ c \notin Carrying(new)
      BY <2>1, CellsMade
    <2> HIDE DEF c
    <2>3. <<c>> \in Seq(Cells) /\ HasNone(<<c>>, Carrying(new))
      BY <2>2, OneEntry
    <2> QED
      BY <2>3 DEF c
  <1>5. ForEach(ids, Gone) = Each(parts)
    <2>1. \A i \in 1..Cardinality(ids) : InOrder(ids)[i] \in ids
      BY <1>3, InOrderLists
    <2>2. DOMAIN parts = ids /\ \A x \in ids : parts[x] = Gone(x)
      OBVIOUS
    <2> HIDE DEF ids, Gone, parts
    <2> QED
      BY <2>1, <2>2 DEF ForEach, Each
  <1>6. ASSUME NEW new
        PROVE  gone \in Seq(Cells) /\ HasNone(gone, Carrying(new))
    <2>1. DOMAIN parts = ids /\ \A x \in ids : parts[x] \in Seq(Cells) /\ HasNone(parts[x], Carrying(new))
      BY <1>4
    <2>2. <<>> \in Seq(Cells) /\ HasNone(<<>>, Carrying(new))
      BY DEF HasNone
    <2> HIDE DEF parts, ids, Gone
    <2>3. Each(parts) \in Seq(Cells) /\ HasNone(Each(parts), Carrying(new))
      BY <1>3, <2>1, EachHolds
    <2> QED
      BY <1>5, <2>2, <2>3
  <1>7. MergedCells(m) = gone \o <<cell>>
    BY DEF MergedCells
  <1>8. cell \in Cells /\ cell \in Carrying(m.child) /\ \A new \in Ids \ {m.child} : cell \notin Carrying(new)
    BY <1>1, <1>2, CellsMade
  <1>9. m.dominant = m.child => cell \in Continuing(m.child)
    BY <1>8 DEF Continuing, Carry, Cell
  <1> HIDE DEF gone, cell
  <1>10. <<cell>> \in Seq(Cells) /\ gone \in Seq(Cells)
    BY <1>6, <1>8, OneEntry
  <1>11. HasOne(gone \o <<cell>>, Carrying(m.child))
    <2>1. HasNone(gone, Carrying(m.child))
      BY <1>6
    <2>2. HasOne(<<cell>>, Carrying(m.child))
      BY <1>8, OneEntry
    <2> QED
      BY <1>10, <2>1, <2>2, JoinedHolds
  <1>12. ASSUME NEW new \in Ids \ {m.child} PROVE HasNone(gone \o <<cell>>, Carrying(new))
    <2>1. HasNone(gone, Carrying(new))
      BY <1>6
    <2>2. HasNone(<<cell>>, Carrying(new))
      BY <1>8, <1>12, OneEntry
    <2> QED
      BY <1>10, <2>1, <2>2, JoinedHolds
  <1>13. m.dominant = m.child => HasSome(gone \o <<cell>>, Continuing(m.child))
    BY <1>8, <1>9, <1>10, OneEntry, JoinedHolds
  <1>14. gone \o <<cell>> \in Seq(Cells)
    BY <1>10, JoinedHolds
  <1> QED
    BY <1>7, <1>11, <1>12, <1>13, <1>14

\* What a split puts into the list: each of its children, once.
LEMMA SplitCellsHold ==
  ASSUME TrackType, SplitsAreSound, NEW s \in attempt.splits
  PROVE  /\ SplitCells(s) \in Seq(Cells)
         /\ \A new \in s.children : HasOne(SplitCells(s), Carrying(new))
         /\ \A new \in Ids \ s.children : HasNone(SplitCells(s), Carrying(new))
         /\ s.dominant = s.parent => HasSome(SplitCells(s), Continuing(s.parent))
  <1> DEFINE Child(id) == IF id = s.dominant THEN <<Carry(Entry(s.parent), id, id)>>
                          ELSE <<NewCell(id, "live")>>
             ids == s.children
             parts == [id \in ids |-> Child(id)]
  <1>1. /\ s.parent \in OldIds /\ Entry(s.parent) \in Cells /\ s.dominant \in ids
        /\ ids \subseteq Ids /\ IsFiniteSet(ids) /\ ids \subseteq Nat
    <2>1. frame.seen \subseteq Ids /\ IsFiniteSet(frame.seen)
      BY DEF TrackType
    <2>2. s.parent \in OldIds /\ s.children \subseteq frame.seen /\ s.dominant \in s.children
      BY SplitFacts
    <2>3. Entry(s.parent) \in Cells /\ Ids \subseteq Nat
      BY <2>2, OldIdsAreFinite
    <2> QED
      BY <2>1, <2>2, <2>3, FS_Subset
  <1>2. ASSUME NEW id \in ids
        PROVE  /\ Child(id) \in Seq(Cells) /\ HasOne(Child(id), Carrying(id))
               /\ \A new \in Ids \ {id} : HasNone(Child(id), Carrying(new))
               /\ id = s.dominant /\ id = s.parent => HasSome(Child(id), Continuing(id))
    <2> DEFINE c == IF id = s.dominant THEN Carry(Entry(s.parent), id, id) ELSE NewCell(id, "live")
    <2>1. c \in Cells /\ c \in Carrying(id) /\ \A new \in Ids \ {id} : c \notin Carrying(new)
      BY <1>1, CellsMade
    <2>2. id = s.dominant /\ id = s.parent => c \in Continuing(id)
      BY <2>1 DEF Continuing, Carry, Cell
    <2>3. Child(id) = <<c>>
      OBVIOUS
    <2> HIDE DEF c, Child
    <2> QED
      BY <2>1, <2>2, <2>3, OneEntry
  <1>3. SplitCells(s) = ForEach(ids, Child)
    BY DEF SplitCells
  <1>4. ForEach(ids, Child) = Each(parts)
    <2>1. \A i \in 1..Cardinality(ids) : InOrder(ids)[i] \in ids
      BY <1>1, InOrderLists
    <2>2. DOMAIN parts = ids /\ \A x \in ids : parts[x] = Child(x)
      OBVIOUS
    <2> HIDE DEF ids, Child, parts
    <2> QED
      BY <2>1, <2>2 DEF ForEach, Each
  <1>5. DOMAIN parts = ids /\ \A x \in ids : parts[x] = Child(x)
    OBVIOUS
  <1> HIDE DEF ids, Child, parts
  <1>6. \A x \in DOMAIN parts : parts[x] \in Seq(Cells)
    BY <1>2, <1>5
  <1>7. Each(parts) \in Seq(Cells)
    BY <1>1, <1>5, <1>6, EachHolds
  <1>8. ASSUME NEW new \in ids PROVE HasOne(Each(parts), Carrying(new))
    <2>1. HasOne(parts[new], Carrying(new))
          /\ \A x \in DOMAIN parts \ {new} : HasNone(parts[x], Carrying(new))
      BY <1>1, <1>2, <1>5
    <2> QED
      BY <1>1, <1>5, <1>6, <2>1, EachHolds
  <1>9. ASSUME NEW new \in Ids \ ids PROVE HasNone(Each(parts), Carrying(new))
    <2>1. \A x \in DOMAIN parts : HasNone(parts[x], Carrying(new))
      BY <1>2, <1>5
    <2> QED
      BY <1>1, <1>5, <1>6, <2>1, EachHolds
  <1>10. ASSUME s.dominant = s.parent PROVE HasSome(Each(parts), Continuing(s.parent))
    <2>1. s.parent \in DOMAIN parts /\ HasSome(parts[s.parent], Continuing(s.parent))
      BY <1>1, <1>2, <1>5, <1>10
    <2> QED
      BY <1>1, <1>5, <1>6, <2>1, EachHolds
  <1> QED
    BY <1>3, <1>4, <1>7, <1>8, <1>9, <1>10 DEF ids

-----------------------------------------------------------------------------
(***************************************************************************)
(* What each part of the new list holds.                                   *)
(***************************************************************************)
\* The parts of the list, for a matching of tracks with detections.
Pairing(pairs, fate) ==
    /\ TrackType /\ MergesAreSound /\ SplitsAreSound
    /\ IsFiniteSet(attempt.merges) /\ IsFiniteSet(attempt.splits)
    /\ pairs \in Assignments
    /\ fate \in [UnmatchedTracks \ {d[1] : d \in pairs} -> {"predicted", "dissipated", "dropped"}]

\* The ids of each part: some ids of before or of the scan.
LEMMA PartsAreFinite ==
  ASSUME NEW pairs, NEW fate, Pairing(pairs, fate)
  PROVE  /\ IsFiniteSet({m.child : m \in attempt.merges}) /\ {m.child : m \in attempt.merges} \subseteq Ids
         /\ IsFiniteSet({s.parent : s \in attempt.splits}) /\ {s.parent : s \in attempt.splits} \subseteq Ids
         /\ IsFiniteSet(SameId) /\ SameId \subseteq OldIds \cap frame.seen
         /\ IsFiniteSet({d[1] : d \in pairs}) /\ {d[1] : d \in pairs} \subseteq UnmatchedTracks
         /\ {d[2] : d \in pairs} \subseteq UnmatchedDetections
         /\ IsFiniteSet(UnmatchedTracks) /\ UnmatchedTracks \subseteq OldIds
         /\ IsFiniteSet(UnmatchedDetections) /\ UnmatchedDetections \subseteq frame.seen
         /\ OldIds \subseteq Ids /\ frame.seen \subseteq Ids /\ Ids \subseteq Nat
  <1>1. /\ TrackType /\ MergesAreSound /\ SplitsAreSound
        /\ pairs \in SUBSET (UnmatchedTracks \X UnmatchedDetections)
    BY DEF Pairing, Assignments
  <1>2. /\ IsFiniteSet(OldIds) /\ OldIds \subseteq Ids /\ Ids \subseteq Nat
        /\ IsFiniteSet(frame.seen) /\ frame.seen \subseteq Ids
    <2>1. IsFiniteSet(frame.seen) /\ frame.seen \subseteq Ids
      BY <1>1 DEF TrackType
    <2> QED
      BY <1>1, <2>1, OldIdsAreFinite
  <1>3. SameId \subseteq OldIds \cap frame.seen
    BY DEF SameId
  <1>4. UnmatchedTracks \subseteq OldIds /\ UnmatchedDetections \subseteq frame.seen
    BY DEF UnmatchedTracks, UnmatchedDetections
  <1>5. {d[1] : d \in pairs} \subseteq UnmatchedTracks /\ {d[2] : d \in pairs} \subseteq UnmatchedDetections
    BY <1>1
  <1>6. {m.child : m \in attempt.merges} \subseteq frame.seen
    BY <1>1, MergeFacts
  <1>7. {s.parent : s \in attempt.splits} \subseteq OldIds
    BY <1>1, SplitFacts
  <1>8. \A S : S \subseteq OldIds \/ S \subseteq frame.seen => IsFiniteSet(S)
    BY <1>2, FS_Subset
  <1> QED
    BY <1>2, <1>3, <1>4, <1>5, <1>6, <1>7, <1>8

\* The children of merges are carried, once each.
LEMMA MergePartsHold ==
  ASSUME NEW pairs, NEW fate, Pairing(pairs, fate)
  PROVE  LET children == {m.child : m \in attempt.merges}
         IN  /\ Each(MergeParts) \in Seq(Cells)
             /\ \A new \in children : HasOne(Each(MergeParts), Carrying(new))
             /\ \A new \in Ids \ children : HasNone(Each(MergeParts), Carrying(new))
             /\ \A m \in attempt.merges : m.dominant = m.child =>
                    HasSome(Each(MergeParts), Continuing(m.child))
  <1> DEFINE ids == {m.child : m \in attempt.merges}
  <1>1. TrackType /\ MergesAreSound
    BY DEF Pairing
  <1>2. IsFiniteSet(ids) /\ ids \subseteq Ids /\ ids \subseteq Nat
    BY PartsAreFinite
  <1>3. DOMAIN MergeParts = ids
    BY DEF MergeParts
  <1>4. ASSUME NEW m \in attempt.merges PROVE MergeParts[m.child] = MergedCells(m)
    <2>1. \A k \in attempt.merges : k.child = m.child => k = m
      BY <1>1 DEF MergesAreSound
    <2>2. (CHOOSE k \in attempt.merges : k.child = m.child) = m
      BY <2>1
    <2> QED
      BY <2>2 DEF MergeParts
  <1>5. ASSUME NEW id \in ids
        PROVE  /\ MergeParts[id] \in Seq(Cells) /\ HasOne(MergeParts[id], Carrying(id))
               /\ \A new \in Ids \ {id} : HasNone(MergeParts[id], Carrying(new))
    <2>1. PICK m \in attempt.merges : id = m.child
      OBVIOUS
    <2> QED
      BY <1>1, <1>4, <2>1, MergedCellsHold
  <1>6. ASSUME NEW m \in attempt.merges, m.dominant = m.child
        PROVE  m.child \in ids /\ HasSome(MergeParts[m.child], Continuing(m.child))
    BY <1>1, <1>4, <1>6, MergedCellsHold
  <1> HIDE DEF ids
  <1>7. IsFiniteSet(DOMAIN MergeParts) /\ DOMAIN MergeParts \subseteq Nat
        /\ \A id \in DOMAIN MergeParts : MergeParts[id] \in Seq(Cells)
    BY <1>2, <1>3, <1>5
  <1>8. Each(MergeParts) \in Seq(Cells)
    BY <1>7, EachHolds
  <1>9. ASSUME NEW new \in ids PROVE HasOne(Each(MergeParts), Carrying(new))
    <2>1. \A x \in ids \ {new} : HasNone(MergeParts[x], Carrying(new))
      BY <1>2, <1>5
    <2> QED
      BY <1>3, <1>5, <1>7, <2>1, EachHolds
  <1>10. ASSUME NEW new \in Ids \ ids PROVE HasNone(Each(MergeParts), Carrying(new))
    <2>1. \A x \in ids : HasNone(MergeParts[x], Carrying(new))
      BY <1>5
    <2> QED
      BY <1>3, <1>7, <2>1, EachHolds
  <1>11. ASSUME NEW m \in attempt.merges, m.dominant = m.child
         PROVE  HasSome(Each(MergeParts), Continuing(m.child))
    BY <1>3, <1>6, <1>7, <1>11, EachHolds
  <1> QED
    BY <1>8, <1>9, <1>10, <1>11 DEF ids

\* So are the children of splits that no other split claims.
LEMMA SplitPartsHold ==
  ASSUME NEW pairs, NEW fate, Pairing(pairs, fate)
  PROVE  /\ Each(SplitParts) \in Seq(Cells)
         /\ \A s \in attempt.splits : \A new \in s.children :
              (\A t \in attempt.splits : new \in t.children => t = s)
                => HasOne(Each(SplitParts), Carrying(new))
         /\ \A new \in Ids : (\A s \in attempt.splits : new \notin s.children)
                => HasNone(Each(SplitParts), Carrying(new))
         /\ \A s \in attempt.splits : s.dominant = s.parent =>
                HasSome(Each(SplitParts), Continuing(s.parent))
  <1> DEFINE ids == {s.parent : s \in attempt.splits}
  <1>1. TrackType /\ SplitsAreSound
    BY DEF Pairing
  <1>2. IsFiniteSet(ids) /\ ids \subseteq Nat /\ frame.seen \subseteq Ids
    BY PartsAreFinite
  <1>3. DOMAIN SplitParts = ids
    BY DEF SplitParts
  <1>4. ASSUME NEW s \in attempt.splits PROVE SplitParts[s.parent] = SplitCells(s)
    <2>1. \A t \in attempt.splits : t.parent = s.parent => t = s
      BY <1>1 DEF SplitsAreSound
    <2>2. (CHOOSE t \in attempt.splits : t.parent = s.parent) = s
      BY <2>1
    <2> QED
      BY <2>2 DEF SplitParts
  <1>5. ASSUME NEW s \in attempt.splits
        PROVE  /\ s.parent \in ids /\ SplitParts[s.parent] \in Seq(Cells)
               /\ \A new \in s.children : new \in Ids /\ HasOne(SplitParts[s.parent], Carrying(new))
               /\ \A new \in Ids \ s.children : HasNone(SplitParts[s.parent], Carrying(new))
               /\ s.dominant = s.parent => HasSome(SplitParts[s.parent], Continuing(s.parent))
    <2>1. s.children \subseteq frame.seen
      BY <1>1, SplitFacts
    <2> QED
      BY <1>1, <1>2, <1>4, <2>1, SplitCellsHold
  <1>6. \A id \in ids : \E s \in attempt.splits : id = s.parent
    OBVIOUS
  <1> HIDE DEF ids
  <1>7. IsFiniteSet(DOMAIN SplitParts) /\ DOMAIN SplitParts \subseteq Nat
        /\ \A id \in DOMAIN SplitParts : SplitParts[id] \in Seq(Cells)
    BY <1>2, <1>3, <1>5, <1>6
  <1>8. Each(SplitParts) \in Seq(Cells)
    BY <1>7, EachHolds
  <1>9. ASSUME NEW s \in attempt.splits, NEW new \in s.children,
               \A t \in attempt.splits : new \in t.children => t = s
        PROVE  HasOne(Each(SplitParts), Carrying(new))
    <2>1. ASSUME NEW x \in ids \ {s.parent} PROVE HasNone(SplitParts[x], Carrying(new))
      <3>1. PICK t \in attempt.splits : x = t.parent
        BY <1>6
      <3>2. new \in Ids \ t.children
        BY <1>5, <1>9, <2>1, <3>1
      <3> QED
        BY <1>5, <3>1, <3>2
    <2>2. s.parent \in ids /\ HasOne(SplitParts[s.parent], Carrying(new))
      BY <1>5, <1>9
    <2> QED
      BY <1>3, <1>7, <2>1, <2>2, EachHolds
  <1>10. ASSUME NEW new \in Ids, \A s \in attempt.splits : new \notin s.children
         PROVE  HasNone(Each(SplitParts), Carrying(new))
    <2>1. \A x \in ids : HasNone(SplitParts[x], Carrying(new))
      BY <1>5, <1>6, <1>10
    <2> QED
      BY <1>3, <1>7, <2>1, EachHolds
  <1>11. ASSUME NEW s \in attempt.splits, s.dominant = s.parent
         PROVE  HasSome(Each(SplitParts), Continuing(s.parent))
    <2>1. s.parent \in ids /\ HasSome(SplitParts[s.parent], Continuing(s.parent))
      BY <1>5, <1>11
    <2> QED
      BY <1>3, <1>7, <2>1, EachHolds
  <1> QED
    BY <1>8, <1>9, <1>10, <1>11

\* And the detections matched by id, each with the track of its id.
LEMMA SamePartsHold ==
  ASSUME NEW pairs, NEW fate, Pairing(pairs, fate)
  PROVE  /\ Each(SameParts) \in Seq(Cells)
         /\ \A new \in SameId : /\ HasOne(Each(SameParts), Carrying(new))
                                /\ HasSome(Each(SameParts), Continuing(new))
         /\ \A new \in Ids \ SameId : HasNone(Each(SameParts), Carrying(new))
  <1>1. TrackType
    BY DEF Pairing
  <1>2. IsFiniteSet(SameId) /\ SameId \subseteq OldIds /\ SameId \subseteq Ids /\ SameId \subseteq Nat
    BY PartsAreFinite
  <1>3. DOMAIN SameParts = SameId /\ \A id \in SameId : SameParts[id] = <<Carry(Entry(id), id, id)>>
    BY DEF SameParts
  <1>4. ASSUME NEW id \in SameId
        PROVE  /\ SameParts[id] \in Seq(Cells)
               /\ HasOne(SameParts[id], Carrying(id)) /\ HasSome(SameParts[id], Continuing(id))
               /\ \A new \in Ids \ {id} : HasNone(SameParts[id], Carrying(new))
    <2> DEFINE c == Carry(Entry(id), id, id)
    <2>1. c \in Cells /\ c \in Carrying(id) /\ \A new \in Ids \ {id} : c \notin Carrying(new)
      BY <1>1, <1>2, CellsMade, OldIdsAreFinite
    <2>2. c \in Continuing(id)
      BY <2>1 DEF Continuing, Carry, Cell
    <2>3. SameParts[id] = <<c>>
      BY <1>3
    <2> HIDE DEF c
    <2> QED
      BY <2>1, <2>2, <2>3, OneEntry
  <1>5. \A id \in DOMAIN SameParts : SameParts[id] \in Seq(Cells)
    BY <1>3, <1>4
  <1>6. Each(SameParts) \in Seq(Cells)
    BY <1>2, <1>3, <1>5, EachHolds
  <1>7. ASSUME NEW new \in SameId
        PROVE  HasOne(Each(SameParts), Carrying(new)) /\ HasSome(Each(SameParts), Continuing(new))
    <2>1. \A x \in SameId \ {new} : HasNone(SameParts[x], Carrying(new))
      BY <1>2, <1>4
    <2> QED
      BY <1>2, <1>3, <1>4, <1>5, <2>1, EachHolds
  <1>8. ASSUME NEW new \in Ids \ SameId PROVE HasNone(Each(SameParts), Carrying(new))
    <2>1. \A x \in SameId : HasNone(SameParts[x], Carrying(new))
      BY <1>4
    <2> QED
      BY <1>2, <1>3, <1>5, <2>1, EachHolds
  <1> QED
    BY <1>6, <1>7, <1>8

\* And the detections assigned to a track by distance.
LEMMA ReacquiredPartsHold ==
  ASSUME NEW pairs, NEW fate, Pairing(pairs, fate)
  PROVE  LET parts == ReacquiredParts(pairs)
         IN  /\ Each(parts) \in Seq(Cells)
             /\ \A d \in pairs : HasOne(Each(parts), Carrying(d[2]))
             /\ \A new \in Ids \ {d[2] : d \in pairs} : HasNone(Each(parts), Carrying(new))
  <1> DEFINE ids == {d[1] : d \in pairs}
             parts == ReacquiredParts(pairs)
  <1>1. TrackType /\ pairs \in Assignments
    BY DEF Pairing
  <1>2. IsFiniteSet(ids) /\ ids \subseteq OldIds /\ ids \subseteq Ids /\ ids \subseteq Nat
        /\ {d[2] : d \in pairs} \subseteq Ids
    BY PartsAreFinite
  <1>3. DOMAIN parts = ids
    BY DEF ReacquiredParts
  <1>4. \A a, b \in pairs : (a[1] = b[1] => a = b) /\ (a[2] = b[2] => a = b)
    BY <1>1 DEF Assignments
  <1>5. ASSUME NEW d \in pairs
        PROVE  /\ d[1] \in ids /\ parts[d[1]] \in Seq(Cells)
               /\ HasOne(parts[d[1]], Carrying(d[2]))
               /\ \A new \in Ids \ {d[2]} : HasNone(parts[d[1]], Carrying(new))
    <2> DEFINE c == Carry(LastEntry(d[1]), d[1], d[2])
    <2>1. d[1] \in ids /\ d[1] \in OldIds /\ d[1] \in Ids /\ d[2] \in Ids
      BY <1>2
    <2>0. LastEntry(d[1]) \in Cells
      BY <1>1, <2>1, OldIdsAreFinite
    <2>2. c \in Cells /\ c \in Carrying(d[2]) /\ \A new \in Ids \ {d[2]} : c \notin Carrying(new)
      <3> DEFINE x == LastEntry(d[1])
                 id == d[1]
                 data == d[2]
      <3>1. x \in Cells /\ id \in Ids /\ data \in Ids
        BY <2>0, <2>1
      <3> HIDE DEF x, id, data
      <3>2. /\ Carry(x, id, data) \in Cells /\ Carry(x, id, data) \in Carrying(data)
            /\ \A new \in Ids \ {data} : Carry(x, id, data) \notin Carrying(new)
        BY <1>1, <3>1, CellsMade
      <3> QED
        BY <3>2 DEF x, id, data
    <2>3. (CHOOSE e \in pairs : e[1] = d[1]) = d
      BY <1>4
    <2>4. parts[d[1]] = <<c>>
      BY <2>1, <2>3 DEF ReacquiredParts
    <2> HIDE DEF c, parts
    <2> QED
      BY <2>1, <2>2, <2>4, OneEntry
  <1>6. \A id \in ids : \E d \in pairs : id = d[1]
    OBVIOUS
  <1>7. \A d \in pairs : d[2] \in Ids
    BY <1>2
  <1> HIDE DEF parts, ids
  <1>8. \A id \in DOMAIN parts : parts[id] \in Seq(Cells)
    BY <1>3, <1>5, <1>6
  <1>9. Each(parts) \in Seq(Cells)
    BY <1>2, <1>3, <1>8, EachHolds
  <1>10. ASSUME NEW d \in pairs PROVE HasOne(Each(parts), Carrying(d[2]))
    <2>1. ASSUME NEW x \in ids \ {d[1]} PROVE HasNone(parts[x], Carrying(d[2]))
      <3>1. PICK e \in pairs : x = e[1]
        BY <1>6
      <3>2. d[2] \in Ids \ {e[2]}
        BY <1>4, <1>7, <2>1, <3>1
      <3> QED
        BY <1>5, <3>1, <3>2
    <2> QED
      BY <1>2, <1>3, <1>5, <1>8, <2>1, EachHolds
  <1>11. ASSUME NEW new \in Ids \ {d[2] : d \in pairs} PROVE HasNone(Each(parts), Carrying(new))
    <2>1. \A x \in ids : HasNone(parts[x], Carrying(new))
      BY <1>5, <1>6
    <2> QED
      BY <1>2, <1>3, <1>8, <2>1, EachHolds
  <1> QED
    BY <1>9, <1>10, <1>11 DEF parts

\* A track without a detection carries none.
LEMMA LeftPartsHold ==
  ASSUME NEW pairs, NEW fate, Pairing(pairs, fate)
  PROVE  LET parts == LeftParts(pairs, fate)
         IN  Each(parts) \in Seq(Cells) /\ \A new : HasNone(Each(parts), Carrying(new))
  <1> DEFINE ids == UnmatchedTracks \ {d[1] : d \in pairs}
             parts == LeftParts(pairs, fate)
  <1>1. TrackType /\ fate \in [ids -> {"predicted", "dissipated", "dropped"}]
    BY DEF Pairing
  <1>2. IsFiniteSet(ids) /\ ids \subseteq OldIds /\ ids \subseteq Nat
    <2>1. ids \in SUBSET UnmatchedTracks
      OBVIOUS
    <2> HIDE DEF ids
    <2> QED
      BY <2>1, PartsAreFinite, FS_Subset
  <1>3. DOMAIN parts = ids
    BY DEF LeftParts
  <1>4. ASSUME NEW id \in ids
        PROVE  parts[id] \in Seq(Cells) /\ \A new : HasNone(parts[id], Carrying(new))
    <2> DEFINE c == [LastEntry(id) EXCEPT !.mode = fate[id], !.data = 0]
    <2>1. parts[id] = IF fate[id] = "dropped" THEN <<>> ELSE <<c>>
      BY DEF LeftParts
    <2>2. CASE fate[id] = "dropped"
      BY <2>1, <2>2 DEF HasNone
    <2>3. CASE fate[id] # "dropped"
      <3>1. fate[id] \in {"predicted", "dissipated"} /\ LastEntry(id) \in Cells
        BY <1>1, <1>2, <2>3, OldIdsAreFinite
      <3>2. c \in Cells /\ \A new : c \notin Carrying(new)
        BY <1>1, <3>1, CellsMade
      <3> HIDE DEF c, parts
      <3> QED
        BY <2>1, <2>3, <3>2, OneEntry
    <2> QED
      BY <2>2, <2>3
  <1> HIDE DEF parts, ids
  <1> QED
    <2>1. \A id \in DOMAIN parts : parts[id] \in Seq(Cells)
      BY <1>3, <1>4
    <2>2. Each(parts) \in Seq(Cells)
      BY <1>2, <1>3, <2>1, EachHolds
    <2>3. ASSUME NEW new PROVE HasNone(Each(parts), Carrying(new))
      <3>1. \A id \in DOMAIN parts : HasNone(parts[id], Carrying(new))
        BY <1>3, <1>4
      <3> QED
        BY <1>2, <1>3, <2>1, <3>1, EachHolds
    <2> QED
      BY <2>2, <2>3 DEF parts

\* What is left of the detections starts tracks of its own.
LEMMA NewPartsHold ==
  ASSUME NEW pairs, NEW fate, Pairing(pairs, fate)
  PROVE  LET ids == UnmatchedDetections \ {d[2] : d \in pairs}
             parts == NewParts(pairs)
         IN  /\ Each(parts) \in Seq(Cells)
             /\ \A new \in ids : HasOne(Each(parts), Carrying(new))
             /\ \A new \in Ids \ ids : HasNone(Each(parts), Carrying(new))
  <1> DEFINE ids == UnmatchedDetections \ {d[2] : d \in pairs}
             parts == NewParts(pairs)
  <1>1. TrackType
    BY DEF Pairing
  <1>2. IsFiniteSet(ids) /\ ids \subseteq Ids /\ ids \subseteq Nat
    <2>1. ids \in SUBSET UnmatchedDetections
      OBVIOUS
    <2> HIDE DEF ids
    <2> QED
      BY <2>1, PartsAreFinite, FS_Subset
  <1>3. DOMAIN parts = ids /\ \A id \in ids : parts[id] = <<NewCell(id, "live")>>
    BY DEF NewParts
  <1> HIDE DEF parts, ids
  <1>4. ASSUME NEW id \in ids
        PROVE  /\ parts[id] \in Seq(Cells) /\ HasOne(parts[id], Carrying(id))
               /\ \A new \in Ids \ {id} : HasNone(parts[id], Carrying(new))
    <2> DEFINE c == NewCell(id, "live")
    <2>1. c \in Cells /\ c \in Carrying(id) /\ \A new \in Ids \ {id} : c \notin Carrying(new)
      BY <1>1, <1>2, CellsMade
    <2>2. parts[id] = <<c>>
      BY <1>3
    <2> HIDE DEF c
    <2> QED
      BY <2>1, <2>2, OneEntry
  <1>5. \A id \in DOMAIN parts : parts[id] \in Seq(Cells)
    BY <1>3, <1>4
  <1>6. Each(parts) \in Seq(Cells)
    BY <1>2, <1>3, <1>5, EachHolds
  <1>7. ASSUME NEW new \in ids PROVE HasOne(Each(parts), Carrying(new))
    <2>1. \A x \in ids \ {new} : HasNone(parts[x], Carrying(new))
      BY <1>2, <1>4
    <2> QED
      BY <1>2, <1>3, <1>4, <1>5, <2>1, EachHolds
  <1>8. ASSUME NEW new \in Ids \ ids PROVE HasNone(Each(parts), Carrying(new))
    <2>1. \A x \in ids : HasNone(parts[x], Carrying(new))
      BY <1>4
    <2> QED
      BY <1>2, <1>3, <1>5, <2>1, EachHolds
  <1> QED
    BY <1>6, <1>7, <1>8 DEF ids, parts

\* A detection is carried by one cell of the new list, but for one that several events claim.
LEMMA UpdatedCarries ==
  ASSUME NEW pairs, NEW fate, Pairing(pairs, fate)
  PROVE  /\ Updated(pairs, fate) \in Seq(Cells)
         /\ \A new \in frame.seen : \/ Cardinality(Claims(new)) > 1
                                    \/ HasOne(Updated(pairs, fate), Carrying(new))
         /\ \A m \in attempt.merges : m.dominant = m.child =>
                HasSome(Updated(pairs, fate), Continuing(m.child))
         /\ \A s \in attempt.splits : s.dominant = s.parent =>
                HasSome(Updated(pairs, fate), Continuing(s.parent))
         /\ \A id \in SameId : HasSome(Updated(pairs, fate), Continuing(id))
  <1> DEFINE children == {m.child : m \in attempt.merges}
             matched == {d[2] : d \in pairs}
             A == Each(MergeParts)
             B == Each(SplitParts)
             C == Each(SameParts)
             D == Each(ReacquiredParts(pairs))
             E == Each(LeftParts(pairs, fate))
             F == Each(NewParts(pairs))
             AB == A \o B
             ABC == AB \o C
             ABCD == ABC \o D
             ABCDE == ABCD \o E
             All == ABCDE \o F
  <1>1. Updated(pairs, fate) = All
    <2>1. /\ IsFiniteSet(children) /\ children \subseteq Nat
          /\ IsFiniteSet({s.parent : s \in attempt.splits})
          /\ {s.parent : s \in attempt.splits} \subseteq Nat
          /\ IsFiniteSet(SameId) /\ SameId \subseteq Nat
          /\ IsFiniteSet({d[1] : d \in pairs}) /\ {d[1] : d \in pairs} \subseteq Nat
          /\ IsFiniteSet(UnmatchedTracks) /\ UnmatchedTracks \subseteq Nat
          /\ IsFiniteSet(UnmatchedDetections) /\ UnmatchedDetections \subseteq Nat
      BY PartsAreFinite
    <2> QED
      BY <2>1, UpdatedIs
  <1>2. /\ A \in Seq(Cells)
        /\ \A new \in children : HasOne(A, Carrying(new))
        /\ \A new \in Ids \ children : HasNone(A, Carrying(new))
        /\ \A m \in attempt.merges : m.dominant = m.child => HasSome(A, Continuing(m.child))
    BY MergePartsHold
  <1>3. /\ B \in Seq(Cells)
        /\ \A s \in attempt.splits : \A new \in s.children :
              (\A t \in attempt.splits : new \in t.children => t = s) => HasOne(B, Carrying(new))
        /\ \A new \in Ids : (\A s \in attempt.splits : new \notin s.children)
                => HasNone(B, Carrying(new))
        /\ \A s \in attempt.splits : s.dominant = s.parent => HasSome(B, Continuing(s.parent))
    BY SplitPartsHold
  <1>4. /\ C \in Seq(Cells)
        /\ \A new \in SameId : HasOne(C, Carrying(new)) /\ HasSome(C, Continuing(new))
        /\ \A new \in Ids \ SameId : HasNone(C, Carrying(new))
    BY SamePartsHold
  <1>5. /\ D \in Seq(Cells)
        /\ \A d \in pairs : HasOne(D, Carrying(d[2]))
        /\ \A new \in Ids \ matched : HasNone(D, Carrying(new))
    BY ReacquiredPartsHold
  <1>6. E \in Seq(Cells) /\ \A new : HasNone(E, Carrying(new))
    BY LeftPartsHold
  <1>7. /\ F \in Seq(Cells)
        /\ \A new \in UnmatchedDetections \ matched : HasOne(F, Carrying(new))
        /\ \A new \in Ids \ (UnmatchedDetections \ matched) : HasNone(F, Carrying(new))
    BY NewPartsHold
  <1>8. frame.seen \subseteq Ids /\ matched \subseteq UnmatchedDetections
    BY PartsAreFinite
  <1>a. \A new \in matched : \E d \in pairs : new = d[2]
    OBVIOUS
  <1> HIDE DEF A, B, C, D, E, F, matched
  <1>9. AB \in Seq(Cells)
    BY <1>2, <1>3, JoinedHolds
  <1> HIDE DEF AB
  <1>10. ABC \in Seq(Cells)
    BY <1>9, <1>4, JoinedHolds
  <1> HIDE DEF ABC
  <1>11. ABCD \in Seq(Cells)
    BY <1>10, <1>5, JoinedHolds
  <1> HIDE DEF ABCD
  <1>12. ABCDE \in Seq(Cells)
    BY <1>11, <1>6, JoinedHolds
  <1> HIDE DEF ABCDE
  <1>13. All \in Seq(Cells)
    BY <1>12, <1>7, JoinedHolds
  <1> HIDE DEF All
  <1> DEFINE None(s, new) == HasNone(s, Carrying(new))
             One(s, new) == HasOne(s, Carrying(new))
             Some(s, new) == HasSome(s, Continuing(new))
  <1>14. ASSUME NEW new
         PROVE  /\ None(A, new) /\ None(B, new) => None(AB, new)
                /\ One(A, new) /\ None(B, new) => One(AB, new)
                /\ None(A, new) /\ One(B, new) => One(AB, new)
                /\ Some(A, new) \/ Some(B, new) => Some(AB, new)
    BY <1>2, <1>3, JoinedHolds DEF AB
  <1>15. ASSUME NEW new
         PROVE  /\ None(AB, new) /\ None(C, new) => None(ABC, new)
                /\ One(AB, new) /\ None(C, new) => One(ABC, new)
                /\ None(AB, new) /\ One(C, new) => One(ABC, new)
                /\ Some(AB, new) \/ Some(C, new) => Some(ABC, new)
    BY <1>9, <1>4, JoinedHolds DEF ABC
  <1>16. ASSUME NEW new
         PROVE  /\ None(ABC, new) /\ None(D, new) => None(ABCD, new)
                /\ One(ABC, new) /\ None(D, new) => One(ABCD, new)
                /\ None(ABC, new) /\ One(D, new) => One(ABCD, new)
                /\ Some(ABC, new) => Some(ABCD, new)
    BY <1>10, <1>5, JoinedHolds DEF ABCD
  <1>17. ASSUME NEW new
         PROVE  /\ None(ABCD, new) => None(ABCDE, new)
                /\ One(ABCD, new) => One(ABCDE, new)
                /\ Some(ABCD, new) => Some(ABCDE, new)
    BY <1>11, <1>6, JoinedHolds DEF ABCDE
  <1>18. ASSUME NEW new
         PROVE  /\ One(ABCDE, new) /\ None(F, new) => One(All, new)
                /\ None(ABCDE, new) /\ One(F, new) => One(All, new)
                /\ Some(ABCDE, new) => Some(All, new)
    BY <1>12, <1>7, JoinedHolds DEF All
  <1>b. \A m \in attempt.merges, s \in attempt.splits : m # s
    <2> TAKE m \in attempt.merges, s \in attempt.splits
    <2>1. m = MergeInto(m.child)
      BY DEF Pairing, MergesAreSound
    <2>2. PICK p \in DOMAIN frame.before : s = SplitOf(p)
      BY DEF Pairing, SplitsAreSound
    <2>3. "child" \in DOMAIN m
      BY <2>1 DEF MergeInto
    <2>4. "child" \notin DOMAIN s
      BY <2>2 DEF SplitOf
    <2> QED
      BY <2>3, <2>4
  <1>19. ASSUME NEW new \in frame.seen, ~(Cardinality(Claims(new)) > 1)
         PROVE  One(All, new)
    <2>1. \A a, b \in Claims(new) : a = b
      <3> SUFFICES ASSUME NEW a \in Claims(new), NEW b \in Claims(new), a # b PROVE FALSE
        OBVIOUS
      <3>1. IsFiniteSet(Claims(new))
        <4>1. IsFiniteSet({m \in attempt.merges : m.child = new})
          BY FS_Subset DEF Pairing
        <4>2. IsFiniteSet({s \in attempt.splits : new \in s.children})
          BY FS_Subset DEF Pairing
        <4> QED
          BY <4>1, <4>2, FS_Union DEF Claims
      <3>2. IsFiniteSet({a} \cup {b}) /\ Cardinality({a} \cup {b}) = 2
        <4>1. IsFiniteSet({a}) /\ Cardinality({a}) = 1
          BY FS_Singleton
        <4>2. b \notin {a}
          OBVIOUS
        <4> QED
          BY <4>1, <4>2, FS_AddElement
      <3>3. Cardinality({a} \cup {b}) <= Cardinality(Claims(new)) /\ Cardinality(Claims(new)) \in Nat
        <4>1. {a} \cup {b} \in SUBSET Claims(new)
          OBVIOUS
        <4> QED
          BY <3>1, <4>1, FS_Subset, FS_CardinalityType
      <3> QED
        BY <1>19, <3>2, <3>3
    <2>2. new \in Ids
      BY <1>8
    <2>3. ASSUME NEW m \in attempt.merges, m.child = new PROVE One(All, new)
      <3>1. m \in Claims(new) /\ new \in children
        BY <2>3 DEF Claims
      <3>2. \A s \in attempt.splits : new \notin s.children
        BY <1>b, <2>1, <3>1 DEF Claims
      <3>3. new \notin SameId /\ new \notin UnmatchedDetections
        BY <3>1 DEF SameId, UnmatchedDetections, InEvents
      <3>4. One(A, new) /\ None(B, new) /\ None(C, new) /\ None(D, new) /\ None(F, new)
        BY <1>2, <1>3, <1>4, <1>5, <1>7, <1>8, <2>2, <3>1, <3>2, <3>3
      <3> HIDE DEF One, None, Some
      <3> QED
        BY <1>14, <1>15, <1>16, <1>17, <1>18, <3>4
    <2>4. ASSUME NEW s \in attempt.splits, new \in s.children, new \notin children PROVE One(All, new)
      <3>1. s \in Claims(new) /\ \A t \in attempt.splits : new \in t.children => t = s
        BY <2>1, <2>4 DEF Claims
      <3>2. new \notin SameId /\ new \notin UnmatchedDetections
        BY <2>4 DEF SameId, UnmatchedDetections, InEvents
      <3>3. One(B, new)
        BY <1>3, <2>4, <3>1
      <3>4. None(A, new) /\ None(C, new) /\ None(D, new) /\ None(F, new)
        BY <1>2, <1>4, <1>5, <1>7, <1>8, <2>2, <2>4, <3>2
      <3> HIDE DEF One, None, Some
      <3> QED
        BY <1>14, <1>15, <1>16, <1>17, <1>18, <3>3, <3>4
    <2>5. ASSUME new \notin children, \A s \in attempt.splits : new \notin s.children
          PROVE  One(All, new)
      <3>1. None(A, new) /\ None(B, new)
        BY <1>2, <1>3, <2>2, <2>5
      <3>2. CASE new \in SameId
        <4>1. new \notin UnmatchedDetections
          BY <3>2 DEF UnmatchedDetections
        <4>2. One(C, new) /\ None(D, new) /\ None(F, new)
          BY <1>4, <1>5, <1>7, <1>8, <2>2, <3>2, <4>1
        <4> HIDE DEF One, None, Some
        <4> QED
          BY <1>14, <1>15, <1>16, <1>17, <1>18, <3>1, <4>2
      <3>3. CASE new \notin SameId
        <4>1. new \in UnmatchedDetections
          BY <2>5, <3>3 DEF UnmatchedDetections, InEvents
        <4>2. None(C, new)
          BY <1>4, <2>2, <3>3
        <4>3. CASE new \in matched
          <5>1. One(D, new) /\ None(F, new)
            BY <1>5, <1>7, <1>a, <2>2, <4>3
          <5> HIDE DEF One, None, Some
          <5> QED
            BY <1>14, <1>15, <1>16, <1>17, <1>18, <3>1, <4>2, <5>1
        <4>4. CASE new \notin matched
          <5>1. None(D, new) /\ One(F, new)
            BY <1>5, <1>7, <2>2, <4>1, <4>4
          <5> HIDE DEF One, None, Some
          <5> QED
            BY <1>14, <1>15, <1>16, <1>17, <1>18, <3>1, <4>2, <5>1
        <4> QED
          BY <4>3, <4>4
      <3> QED
        BY <3>2, <3>3
    <2>6. new \in children => \E m \in attempt.merges : m.child = new
      OBVIOUS
    <2> QED
      BY <2>3, <2>4, <2>5, <2>6
  <1>20. ASSUME NEW m \in attempt.merges, m.dominant = m.child PROVE Some(All, m.child)
    <2>1. Some(A, m.child)
      BY <1>2, <1>20
    <2> HIDE DEF One, None, Some
    <2> QED
      BY <1>14, <1>15, <1>16, <1>17, <1>18, <2>1
  <1>21. ASSUME NEW s \in attempt.splits, s.dominant = s.parent PROVE Some(All, s.parent)
    <2>1. Some(B, s.parent)
      BY <1>3, <1>21
    <2> HIDE DEF One, None, Some
    <2> QED
      BY <1>14, <1>15, <1>16, <1>17, <1>18, <2>1
  <1>22. ASSUME NEW id \in SameId PROVE Some(All, id)
    <2>1. Some(C, id)
      BY <1>4
    <2> HIDE DEF One, None, Some
    <2> QED
      BY <1>15, <1>16, <1>17, <1>18, <2>1
  <1> QED
    BY <1>1, <1>13, <1>19, <1>20, <1>21, <1>22

\* A list with one cell of a kind, and with some.
LEMMA KindsOfCells ==
  ASSUME NEW out \in Seq(Cells)
  PROVE  /\ \A new : HasOne(out, Carrying(new)) =>
                Cardinality({p \in Live(out) : out[p].data = new}) = 1
         /\ \A id : HasSome(out, Continuing(id)) =>
                \E p \in Live(out) : out[p].id = id /\ out[p].track = Entry(id).track
  <1>1. \A p \in DOMAIN out : out[p] \in Cells
    OBVIOUS
  <1>2. ASSUME NEW new, HasOne(out, Carrying(new))
        PROVE  Cardinality({p \in Live(out) : out[p].data = new}) = 1
    <2>1. PICK p \in DOMAIN out : \A q \in DOMAIN out : out[q] \in Carrying(new) <=> q = p
      BY <1>2 DEF HasOne
    <2>2. \A q \in DOMAIN out :
            out[q] \in Carrying(new)
              <=> out[q].mode \notin {"dissipated", "predicted"} /\ out[q].data = new
      BY <1>1 DEF Carrying
    <2>3. {q \in Live(out) : out[q].data = new} = {p}
      BY <2>1, <2>2 DEF Live
    <2> QED
      BY <2>3, FS_Singleton
  <1>3. ASSUME NEW id, HasSome(out, Continuing(id))
        PROVE  \E p \in Live(out) : out[p].id = id /\ out[p].track = Entry(id).track
    BY <1>3 DEF HasSome, Continuing, Live
  <1> QED
    BY <1>2, <1>3

\* A storm that is seen again keeps its history.
LEMMA UpdatedFollows ==
  ASSUME NEW pairs, NEW fate, Pairing(pairs, fate),
         NEW id \in frame.seen \cap OldIds, OverlapsOld(id, id),
         \A m \in attempt.merges : id \in m.parents => m.child = id,
         \A s \in attempt.splits : (s.parent = id) <=> (id \in s.children)
  PROVE  HasSome(Updated(pairs, fate), Continuing(id))
  <1>1. TrackType /\ MergesAreSound /\ SplitsAreSound
    BY DEF Pairing
  <1>2. CASE \E m \in attempt.merges : m.child = id
    <2>1. PICK m \in attempt.merges : m.child = id
      BY <1>2
    <2>2. Parents(id) # {}
      BY <1>1, <2>1 DEF MergesAreSound
    <2>3. id \in m.parents
      <3>1. m.parents = Parents(id)
        BY <1>1, <2>1, MergeFacts
      <3>2. Others(id) # {}
        BY <2>2 DEF Parents
      <3> QED
        BY <3>1, <3>2 DEF Parents
    <2>4. m.dominant = m.child
      BY <1>1, <2>1, <2>3, MergeFacts
    <2> QED
      BY <2>1, <2>4, UpdatedCarries
  <1>3. CASE \E s \in attempt.splits : s.parent = id
    <2>1. PICK s \in attempt.splits : s.parent = id
      BY <1>3
    <2>2. s.dominant = s.parent
      BY <1>1, <2>1, SplitFacts
    <2> QED
      BY <2>1, <2>2, UpdatedCarries
  <1>4. CASE /\ \A m \in attempt.merges : m.child # id
             /\ \A s \in attempt.splits : s.parent # id
    <2>1. \A m \in attempt.merges : id \notin m.parents
      BY <1>4
    <2>2. \A s \in attempt.splits : id \notin s.children
      BY <1>4
    <2>3. id \in SameId
      <3>1. id \notin InEvents.old
        <4>1. id \notin UNION {m.parents : m \in attempt.merges}
          BY <2>1
        <4>2. id \notin {s.parent : s \in attempt.splits}
          BY <1>4
        <4> QED
          BY <4>1, <4>2 DEF InEvents
      <3>2. id \notin InEvents.new
        <4>1. id \notin UNION {s.children : s \in attempt.splits}
          BY <2>2
        <4>2. id \notin {m.child : m \in attempt.merges}
          BY <1>4
        <4> QED
          BY <4>1, <4>2 DEF InEvents
      <3> QED
        BY <3>1, <3>2 DEF SameId
    <2> QED
      BY <2>3, UpdatedCarries
  <1> QED
    BY <1>2, <1>3, <1>4

-----------------------------------------------------------------------------
(***************************************************************************)
(* The steps.                                                              *)
(***************************************************************************)
\* Nothing is tracked at first.
LEMMA InitTrackInv == CellInit => TrackInv
  <1> SUFFICES ASSUME CellInit PROVE TrackInv
    OBVIOUS
  <1> USE DEF CellInit, NoFrame, NoAttempt
  <1>1. TrackType
    BY FS_EmptySet DEF TrackType
  <1>2. MergesAreSound /\ SplitsAreSound
    BY DEF MergesAreSound, SplitsAreSound
  <1>3. IsFiniteSet(attempt.merges) /\ IsFiniteSet(attempt.splits)
    BY FS_EmptySet
  <1>4. TracksFollowStorms
    BY DEF TracksFollowStorms, SameStormSameTrack, EveryDetectionIsCarried
  <1> QED
    BY <1>1, <1>2, <1>3, <1>4 DEF TrackInv

\* What the events are depends on the scan alone.
LEMMA EventsOfTheScan ==
  ASSUME UNCHANGED frame
  PROVE  /\ OldIds' = OldIds /\ \A id : Entry(id)' = Entry(id)
         /\ \A id, new : OverlapsOld(new, id)' <=> OverlapsOld(new, id)
         /\ \A new : MergeInto(new)' = MergeInto(new) /\ Parents(new)' = Parents(new)
         /\ \A p : SplitOf(p)' = SplitOf(p) /\ Children(p)' = Children(p)
  <1>1. OldIds' = OldIds
    BY DEF OldIds
  <1>2. \A id : Copies(id)' = Copies(id)
    BY DEF Copies
  <1>3. \A id : Entry(id)' = Entry(id)
    BY <1>2 DEF Entry
  <1>4. \A p, new : Meets(new, p)' <=> Meets(new, p)
    BY DEF Meets
  <1>5. \A id, new : OverlapsOld(new, id)' <=> OverlapsOld(new, id)
    BY <1>2, <1>4 DEF OverlapsOld
  <1>6. ASSUME NEW new PROVE Others(new)' = Others(new)
    BY <1>1, <1>5 DEF Others
  <1>7. ASSUME NEW new PROVE Parents(new)' = Parents(new)
    BY <1>5, <1>6 DEF Parents
  <1>8. ASSUME NEW new PROVE MergeInto(new)' = MergeInto(new)
    BY <1>7 DEF MergeInto
  <1>9. ASSUME NEW p PROVE Children(p)' = Children(p)
    BY <1>4 DEF Children
  <1>10. ASSUME NEW p PROVE SplitOf(p)' = SplitOf(p)
    BY <1>9 DEF SplitOf
  <1> QED
    BY <1>1, <1>3, <1>5, <1>7, <1>8, <1>9, <1>10

\* The events of an attempt stay sound.
LEMMA EventsStaySound ==
  ASSUME UNCHANGED frame, attempt'.merges = attempt.merges, attempt'.splits = attempt.splits,
         MergesAreSound, SplitsAreSound
  PROVE  MergesAreSound' /\ SplitsAreSound'
  <1>1. MergesAreSound'
    BY EventsOfTheScan DEF MergesAreSound
  <1>2. SplitsAreSound'
    BY EventsOfTheScan DEF SplitsAreSound
  <1> QED
    BY <1>1, <1>2

\* An attempt without events satisfies the rest, until its list is made.
LEMMA NoEventsYet ==
  ASSUME TrackType', attempt'.merges = {}, attempt'.splits = {}, attempt'.pc # "saved"
  PROVE  TrackInv'
  <1>1. MergesAreSound' /\ SplitsAreSound'
    BY DEF MergesAreSound, SplitsAreSound
  <1>2. IsFiniteSet(attempt'.merges) /\ IsFiniteSet(attempt'.splits)
    BY FS_EmptySet
  <1>3. TracksFollowStorms'
    BY DEF TracksFollowStorms, SameStormSameTrack, EveryDetectionIsCarried
  <1> QED
    BY <1>1, <1>2, <1>3 DEF TrackInv

\* A scan begins from the published cells, or from a scan detected again.
LEMMA StartScanKeeps == TrackInv /\ StartScan => TrackInv'
  <1> SUFFICES ASSUME TrackInv, StartScan PROVE TrackInv'
    OBVIOUS
  <1>1. TrackType
    BY DEF TrackInv
  <1>2. PICK before \in Before, seen \in Scenes, single \in BOOLEAN :
          \E over \in IF single THEN {{}} ELSE Overlaps(before, seen) :
            frame' = [scan |-> frame.scan + 1, before |-> before, seen |-> seen,
                      over |-> over, single |-> single]
    BY DEF StartScan
  <1>3. PICK over : frame' = [scan |-> frame.scan + 1, before |-> before, seen |-> seen,
                              over |-> over, single |-> single]
    BY <1>2
  <1>4. attempt' = [NoAttempt EXCEPT !.pc = "detect"] /\ UNCHANGED tracks
    BY DEF StartScan
  <1>5. seen \subseteq Ids /\ IsFiniteSet(seen)
    BY TrackingAssumption
  <1>6. before \in Seq(Cells)
    <2>1. CASE tracks # <<>>
      BY <1>1, <2>1 DEF TrackType, Before
    <2>2. CASE tracks = <<>>
      <3>1. PICK ids \in Scenes :
              before = [i \in 1..Cardinality(ids) |->
                          Cell(InOrder(ids)[i], <<InOrder(ids)[i], frame.scan>>, 0, "bare")]
        BY <2>2 DEF Before
      <3>2. IsFiniteSet(ids) /\ ids \subseteq Ids /\ ids \subseteq Nat
        BY TrackingAssumption
      <3>3. Cardinality(ids) \in Nat /\ InOrder(ids) \in [1..Cardinality(ids) -> ids]
        BY <3>2, InOrderLists
      <3>4. frame.scan \in Nat
        BY <1>1 DEF TrackType
      <3>5. ASSUME NEW i \in 1..Cardinality(ids)
            PROVE  Cell(InOrder(ids)[i], <<InOrder(ids)[i], frame.scan>>, 0, "bare") \in Cells
        <4>1. InOrder(ids)[i] \in Ids
          BY <3>2, <3>3
        <4> QED
          BY <3>4, <4>1 DEF Cell, Cells, Modes
      <3>6. before \in [1..Cardinality(ids) -> Cells]
        BY <3>1, <3>5
      <3> QED
        BY <3>3, <3>6
    <2> QED
      BY <2>1, <2>2
  <1>7. TrackType'
    <2>1. /\ frame'.scan = frame.scan + 1 /\ frame'.before = before /\ frame'.seen = seen
          /\ frame'.over = over /\ frame'.single = single
          /\ frame' = [scan |-> frame'.scan, before |-> frame'.before, seen |-> frame'.seen,
                       over |-> frame'.over, single |-> frame'.single]
      BY <1>3
    <2>2. /\ attempt'.out \in Seq(Cells)
          /\ attempt' = [pc |-> attempt'.pc, merges |-> attempt'.merges, splits |-> attempt'.splits,
                         left |-> attempt'.left, out |-> attempt'.out]
      <3>1. attempt' = [pc |-> "detect", merges |-> {}, splits |-> {}, left |-> {}, out |-> <<>>]
        BY <1>4 DEF NoAttempt
      <3> QED
        BY <3>1
    <2> QED
      BY <1>1, <1>4, <1>5, <1>6, <2>1, <2>2 DEF TrackType
  <1> QED
    BY <1>4, <1>7, NoEventsYet DEF NoAttempt

\* A scan detected alone: every cell is new.
LEMMA SingleFrameKeeps == TrackInv /\ SingleFrame => TrackInv'
  <1> SUFFICES ASSUME TrackInv, SingleFrame PROVE TrackInv'
    OBVIOUS
  <1> DEFINE Fresh(id) == <<NewCell(id, "bare")>>
             parts == [id \in frame.seen |-> Fresh(id)]
             ids == frame.seen
  <1>1. TrackType /\ MergesAreSound /\ SplitsAreSound
        /\ IsFiniteSet(attempt.merges) /\ IsFiniteSet(attempt.splits)
    BY DEF TrackInv
  <1>2. attempt' = [attempt EXCEPT !.pc = "saved", !.out = ForEach(ids, Fresh)]
        /\ frame.single /\ UNCHANGED <<tracks, frame>>
    BY DEF SingleFrame
  <1>3. IsFiniteSet(ids) /\ ids \subseteq Ids /\ ids \subseteq Nat
    BY <1>1, TrackingAssumption DEF TrackType
  <1>4. ForEach(ids, Fresh) = Each(parts)
    <2>1. \A i \in 1..Cardinality(ids) : InOrder(ids)[i] \in ids
      BY <1>3, InOrderLists
    <2>2. DOMAIN parts = ids /\ \A x \in ids : parts[x] = Fresh(x)
      OBVIOUS
    <2> HIDE DEF ids, Fresh, parts
    <2> QED
      BY <2>1, <2>2 DEF ForEach, Each
  <1>5. ASSUME NEW id \in ids
        PROVE  /\ parts[id] \in Seq(Cells) /\ HasOne(parts[id], Carrying(id))
               /\ \A new \in Ids \ {id} : HasNone(parts[id], Carrying(new))
    <2> DEFINE c == NewCell(id, "bare")
    <2>1. c \in Cells /\ c \in Carrying(id) /\ \A new \in Ids \ {id} : c \notin Carrying(new)
      BY <1>1, <1>3, CellsMade
    <2>2. parts[id] = <<c>>
      OBVIOUS
    <2> HIDE DEF c, parts
    <2> QED
      BY <2>1, <2>2, OneEntry
  <1>6. DOMAIN parts = ids
    OBVIOUS
  <1> HIDE DEF parts, Fresh
  <1>7. Each(parts) \in Seq(Cells)
    BY <1>3, <1>5, <1>6, EachHolds
  <1>8. ASSUME NEW new \in ids PROVE HasOne(Each(parts), Carrying(new))
    <2>1. \A x \in ids \ {new} : HasNone(parts[x], Carrying(new))
      BY <1>3, <1>5
    <2>2. \A x \in DOMAIN parts : parts[x] \in Seq(Cells)
      BY <1>5, <1>6
    <2> QED
      BY <1>3, <1>5, <1>6, <2>1, <2>2, EachHolds
  <1>9. attempt' = [pc |-> "saved", merges |-> attempt.merges, splits |-> attempt.splits,
                    left |-> attempt.left, out |-> Each(parts)]
    BY <1>1, <1>2, <1>4 DEF TrackType
  <1>10. TrackType'
    <2> HIDE DEF ids
    <2>1. /\ attempt'.out \in Seq(Cells)
          /\ attempt' = [pc |-> attempt'.pc, merges |-> attempt'.merges, splits |-> attempt'.splits,
                         left |-> attempt'.left, out |-> attempt'.out]
      BY <1>7, <1>9
    <2> QED
      BY <1>1, <1>2, <2>1 DEF TrackType
  <1>11. EveryDetectionIsCarried'
    <2> DEFINE out == Each(parts)
    <2>1. \A new \in ids : Cardinality({p \in Live(out) : out[p].data = new}) = 1
      <3> HIDE DEF ids
      <3> QED
        BY <1>7, <1>8, KindsOfCells
    <2>2. attempt'.out = out /\ UNCHANGED frame
      <3> HIDE DEF out
      <3>1. attempt' = [pc |-> "saved", merges |-> attempt.merges, splits |-> attempt.splits,
                        left |-> attempt.left, out |-> out]
        BY <1>9 DEF out
      <3>2. UNCHANGED frame
        BY DEF SingleFrame
      <3> QED
        BY <3>1, <3>2
    <2> HIDE DEF out
    <2> QED
      BY <2>1, <2>2 DEF EveryDetectionIsCarried, Live
  <1>12. SameStormSameTrack'
    BY <1>2 DEF SameStormSameTrack
  <1>13. MergesAreSound' /\ SplitsAreSound'
    BY <1>1, <1>2, <1>9, EventsStaySound
  <1> QED
    BY <1>1, <1>9, <1>10, <1>11, <1>12, <1>13 DEF TrackInv, TracksFollowStorms

\* Confirmed events are events that were seen: the counters only choose among them.
LEMMA TrackLineageKeeps == TrackInv /\ TrackLineage => TrackInv'
  <1> SUFFICES ASSUME TrackInv, TrackLineage PROVE TrackInv'
    OBVIOUS
  <1>1. TrackType
    BY DEF TrackInv
  <1> DEFINE loaded == LoadedBuffer
             merges == Record(loaded.merges, loaded.scan, MergesSeen)
             merging == {MergeInto(new) : new \in Confirmed(merges, MergesSeen)}
             merged == UNION {m.parents : m \in merging}
             parents == {frame.before[p].id : p \in SplitsSeen(merged)}
             splits == Record(loaded.splits, loaded.scan, parents)
             First(id) == Min(Copies(id) \cap SplitsSeen(merged))
             splitting == {SplitOf(First(id)) : id \in Confirmed(splits, parents)}
             matched == merged \cup {s.parent : s \in splitting}
             news == frame.seen \ ({m.child : m \in merging} \cup UNION {s.children : s \in splitting})
  <1>2. /\ attempt' = [attempt EXCEPT !.pc = "tracked", !.merges = merging, !.splits = splitting,
                                      !.left = OldIds \ OneToOne(matched, news)]
        /\ UNCHANGED <<tracks, frame>>
    BY DEF TrackLineage
  <1>3. attempt' = [pc |-> "tracked", merges |-> merging, splits |-> splitting,
                    left |-> OldIds \ OneToOne(matched, news), out |-> attempt.out]
    <2> HIDE DEF merging, splitting, matched, news
    <2> QED
      BY <1>1, <1>2 DEF TrackType
  <1>4. attempt'.merges = merging /\ attempt'.splits = splitting /\ attempt'.pc = "tracked"
        /\ attempt'.out = attempt.out
        /\ attempt' = [pc |-> attempt'.pc, merges |-> attempt'.merges, splits |-> attempt'.splits,
                       left |-> attempt'.left, out |-> attempt'.out]
    <2> HIDE DEF merging, splitting, matched, news
    <2> QED
      BY <1>3
  <1>5. Confirmed(merges, MergesSeen) \subseteq MergesSeen /\ Confirmed(splits, parents) \subseteq parents
    BY DEF Confirmed
  <1>6. ASSUME NEW new \in MergesSeen PROVE new \in frame.seen /\ Parents(new) # {}
    <2>1. new \in frame.seen /\ (Cardinality(FoundBoxes(new)) > 1 \/ Cardinality(Parents(new)) > 1)
      BY DEF MergesSeen
    <2>2. Others(new) = {} => FoundBoxes(new) = {}
      BY DEF FoundBoxes
    <2>3. Others(new) # {} => Parents(new) # {}
      BY DEF Parents
    <2> QED
      BY <2>1, <2>2, <2>3, FS_EmptySet
  <1>7. ASSUME NEW id \in parents
        PROVE  First(id) \in DOMAIN frame.before /\ frame.before[First(id)].id = id
               /\ Children(First(id)) # {}
    <2> DEFINE S == Copies(id) \cap SplitsSeen(merged)
    <2>1. PICK p \in SplitsSeen(merged) : frame.before[p].id = id
      OBVIOUS
    <2>2. p \in S /\ S \subseteq DOMAIN frame.before
      BY <2>1 DEF Copies, SplitsSeen
    <2>3. DOMAIN frame.before \subseteq Nat
      BY <1>1, LenProperties DEF TrackType
    <2>4. First(id) \in S
      <3>1. S \subseteq Nat /\ S # {}
        BY <2>2, <2>3
      <3> HIDE DEF S
      <3>2. Min(S) \in S
        BY <3>1, LeastOfNumbers
      <3> QED
        BY <3>2 DEF S
    <2>5. ASSUME NEW q \in S
          PROVE  q \in DOMAIN frame.before /\ frame.before[q].id = id /\ Children(q) # {}
      BY FS_EmptySet DEF Copies, SplitsSeen
    <2> HIDE DEF S
    <2> QED
      BY <2>4, <2>5
  <1> HIDE DEF First, merges, splits, parents
  <1>8. MergesAreSound'
    <2>1. \A m \in merging : m.child \in frame.seen /\ m = MergeInto(m.child) /\ Parents(m.child) # {}
      BY <1>5, <1>6 DEF MergeInto
    <2> HIDE DEF merging
    <2> QED
      BY <1>2, <1>4, <2>1, EventsOfTheScan DEF MergesAreSound
  <1>9. SplitsAreSound'
    <2>1. \A id \in Confirmed(splits, parents) : SplitOf(First(id)).parent = id
      BY <1>5, <1>7 DEF SplitOf
    <2>2. \A s, t \in splitting : s.parent = t.parent => s = t
      BY <2>1
    <2>3. \A s \in splitting : \E p \in DOMAIN frame.before : s = SplitOf(p) /\ Children(p) # {}
      BY <1>5, <1>7
    <2> HIDE DEF splitting
    <2> QED
      BY <1>2, <1>4, <2>2, <2>3, EventsOfTheScan DEF SplitsAreSound
  <1>10. IsFiniteSet(merging)
    <2> DEFINE news2 == Confirmed(merges, MergesSeen)
               f == [new \in news2 |-> MergeInto(new)]
    <2>1. IsFiniteSet(news2)
      <3>1. news2 \in SUBSET frame.seen /\ IsFiniteSet(frame.seen)
        BY <1>1, <1>5, <1>6 DEF TrackType
      <3> HIDE DEF news2
      <3> QED
        BY <3>1, FS_Subset
    <2>2. f \in Surjection(news2, merging)
      BY DEF Surjection
    <2> HIDE DEF f, news2
    <2> QED
      BY <2>1, <2>2, FS_Surjection
  <1>11. IsFiniteSet(splitting)
    <2> DEFINE olds == Confirmed(splits, parents)
               f == [id \in olds |-> SplitOf(First(id))]
    <2>1. IsFiniteSet(olds)
      <3>1. olds \in SUBSET OldIds /\ IsFiniteSet(OldIds)
        BY <1>1, <1>5, <1>7, OldIdsAreFinite DEF OldIds
      <3> HIDE DEF olds
      <3> QED
        BY <3>1, FS_Subset
    <2>2. f \in Surjection(olds, splitting)
      BY DEF Surjection
    <2> HIDE DEF f, olds
    <2> QED
      BY <2>1, <2>2, FS_Surjection
  <1> HIDE DEF merging, splitting
  <1>12. TrackType'
    BY <1>1, <1>2, <1>4 DEF TrackType
  <1>13. TracksFollowStorms'
    BY <1>4 DEF TracksFollowStorms, SameStormSameTrack, EveryDetectionIsCarried
  <1> QED
    BY <1>4, <1>8, <1>9, <1>10, <1>11, <1>12, <1>13 DEF TrackInv

\* The list of the scan, for any assignment and fates.
LEMMA UpdateCellsKeeps == TrackInv /\ UpdateCells => TrackInv'
  <1> SUFFICES ASSUME TrackInv, UpdateCells PROVE TrackInv'
    OBVIOUS
  <1>1. TrackType /\ MergesAreSound /\ SplitsAreSound
        /\ IsFiniteSet(attempt.merges) /\ IsFiniteSet(attempt.splits)
    BY DEF TrackInv
  <1>2. PICK pairs \in Assignments :
          \E fate \in [UnmatchedTracks \ {d[1] : d \in pairs} ->
                          {"predicted", "dissipated", "dropped"}] :
            attempt' = [attempt EXCEPT !.pc = "saved", !.out = Updated(pairs, fate)]
    BY DEF UpdateCells
  <1>3. PICK fate \in [UnmatchedTracks \ {d[1] : d \in pairs} ->
                          {"predicted", "dissipated", "dropped"}] :
            attempt' = [attempt EXCEPT !.pc = "saved", !.out = Updated(pairs, fate)]
    BY <1>2
  <1>4. UNCHANGED <<tracks, frame>>
    BY DEF UpdateCells
  <1>5. Pairing(pairs, fate)
    BY <1>1 DEF Pairing
  <1> DEFINE out == Updated(pairs, fate)
  <1>6. /\ out \in Seq(Cells)
        /\ \A new \in frame.seen : Cardinality(Claims(new)) > 1 \/ HasOne(out, Carrying(new))
    BY <1>5, UpdatedCarries
  <1>7. ASSUME NEW id \in frame.seen \cap OldIds, OverlapsOld(id, id),
               ~\E m \in attempt.merges : id \in m.parents /\ m.child # id,
               ~\E s \in attempt.splits : (s.parent = id) # (id \in s.children)
        PROVE  \E p \in Live(out) : out[p].id = id /\ out[p].track = Entry(id).track
    <2>1. HasSome(out, Continuing(id))
      BY <1>5, <1>7, UpdatedFollows
    <2> HIDE DEF out
    <2> QED
      BY <1>6, <2>1, KindsOfCells
  <1> HIDE DEF out
  <1>8. attempt' = [pc |-> "saved", merges |-> attempt.merges, splits |-> attempt.splits,
                    left |-> attempt.left, out |-> out]
    BY <1>1, <1>3 DEF TrackType, out
  <1>9. \A new \in frame.seen :
          \/ Cardinality({p \in Live(out) : out[p].data = new}) = 1
          \/ Cardinality(Claims(new)) > 1
    BY <1>6, KindsOfCells
  <1>10. TrackType'
    BY <1>1, <1>4, <1>6, <1>8 DEF TrackType
  <1>11. EveryDetectionIsCarried'
    <2>1. \A new : Claims(new)' = Claims(new)
      BY <1>8 DEF Claims
    <2> QED
      BY <1>4, <1>8, <1>9, <2>1 DEF EveryDetectionIsCarried, Live
  <1>12. SameStormSameTrack'
    <2>1. OldIds' = OldIds /\ \A id : Entry(id)' = Entry(id) /\ (OverlapsOld(id, id)' <=> OverlapsOld(id, id))
      BY <1>4, EventsOfTheScan
    <2> SUFFICES ASSUME NEW id \in frame.seen \cap OldIds
                 PROVE  \/ ~OverlapsOld(id, id)
                        \/ \E m \in attempt.merges : id \in m.parents /\ m.child # id
                        \/ \E s \in attempt.splits : (s.parent = id) # (id \in s.children)
                        \/ \E p \in Live(out) : out[p].id = id /\ out[p].track = Entry(id).track
      BY <1>4, <1>8, <2>1 DEF SameStormSameTrack, Live
    <2> QED
      BY <1>7
  <1>13. MergesAreSound' /\ SplitsAreSound'
    BY <1>1, <1>4, <1>8, EventsStaySound
  <1> QED
    BY <1>1, <1>8, <1>10, <1>11, <1>12, <1>13 DEF TrackInv, TracksFollowStorms

\* The published cells are the list.
LEMMA PublishCellsKeeps == TrackInv /\ PublishCells => TrackInv'
  <1> SUFFICES ASSUME TrackInv, PublishCells PROVE TrackInv'
    OBVIOUS
  <1>1. TrackType
    BY DEF TrackInv
  <1>2. /\ tracks' = [p \in DOMAIN attempt.out |-> [attempt.out[p] EXCEPT !.data = 0]]
        /\ attempt' = NoAttempt /\ frame' = NoFrame(frame.scan)
    BY DEF PublishCells
  <1>3. tracks' \in Seq(Cells)
    <2>1. attempt.out \in Seq(Cells) /\ DOMAIN attempt.out = 1..Len(attempt.out)
          /\ Len(attempt.out) \in Nat
      BY <1>1, LenProperties DEF TrackType
    <2>2. ASSUME NEW p \in DOMAIN attempt.out PROVE [attempt.out[p] EXCEPT !.data = 0] \in Cells
      <3>1. attempt.out[p] \in Cells
        BY <2>1
      <3> QED
        BY <3>1 DEF Cells
    <2>3. tracks' \in [1..Len(attempt.out) -> Cells]
      BY <1>2, <2>1, <2>2
    <2> QED
      BY <2>1, <2>3
  <1>4. TrackType'
    BY <1>1, <1>2, <1>3, FS_EmptySet DEF TrackType, NoAttempt, NoFrame
  <1> QED
    BY <1>2, <1>4, NoEventsYet DEF NoAttempt

\* A failed attempt leaves the published cells alone.
LEMMA AttemptFailsKeeps == TrackInv /\ AttemptFails => TrackInv'
  <1> SUFFICES ASSUME TrackInv, AttemptFails PROVE TrackInv'
    OBVIOUS
  <1>1. TrackType
    BY DEF TrackInv
  <1>2. /\ attempt' \in {[NoAttempt EXCEPT !.pc = "detect"], NoAttempt}
        /\ frame' \in {frame, NoFrame(frame.scan)} /\ UNCHANGED tracks
    BY DEF AttemptFails
  <1>3. TrackType'
    <2>1. /\ attempt'.out \in Seq(Cells)
          /\ attempt' = [pc |-> attempt'.pc, merges |-> attempt'.merges, splits |-> attempt'.splits,
                         left |-> attempt'.left, out |-> attempt'.out]
      <3>1. PICK pc \in {"detect", "idle"} :
              attempt' = [pc |-> pc, merges |-> {}, splits |-> {}, left |-> {}, out |-> <<>>]
        BY <1>2 DEF NoAttempt
      <3> QED
        BY <3>1
    <2>2. CASE frame' = frame
      BY <1>1, <1>2, <2>1, <2>2 DEF TrackType
    <2>3. CASE frame' = NoFrame(frame.scan)
      <3>1. /\ frame' = [scan |-> frame'.scan, before |-> frame'.before, seen |-> frame'.seen,
                         over |-> frame'.over, single |-> frame'.single]
            /\ frame'.scan = frame.scan /\ frame'.before = <<>> /\ frame'.seen = {}
            /\ frame'.single = FALSE
        BY <2>3 DEF NoFrame
      <3>2. IsFiniteSet(frame'.seen) /\ frame'.before \in Seq(Cells)
        BY <3>1, FS_EmptySet
      <3> QED
        BY <1>1, <1>2, <2>1, <3>1, <3>2 DEF TrackType
    <2> QED
      BY <1>2, <2>2, <2>3
  <1> QED
    BY <1>2, <1>3, NoEventsYet DEF NoAttempt

\* Every step keeps the invariant.
LEMMA NextTrackInv == TrackInv /\ [CellNext]_cellVars => TrackInv'
  <1> SUFFICES ASSUME TrackInv, [CellNext]_cellVars PROVE TrackInv'
    OBVIOUS
  <1>1. CASE UNCHANGED cellVars
    <2>1. UNCHANGED <<tracks, frame, attempt>>
      BY <1>1 DEF cellVars
    <2>2. TrackType' /\ MergesAreSound' /\ SplitsAreSound'
          /\ IsFiniteSet(attempt'.merges) /\ IsFiniteSet(attempt'.splits)
      BY <2>1, EventsStaySound DEF TrackInv, TrackType
    <2>3. EveryDetectionIsCarried'
      BY <2>1 DEF TrackInv, TracksFollowStorms, EveryDetectionIsCarried, Claims, Live
    <2>4. SameStormSameTrack'
      BY <2>1, EventsOfTheScan DEF TrackInv, TracksFollowStorms, SameStormSameTrack, Live
    <2> QED
      BY <2>2, <2>3, <2>4 DEF TrackInv, TracksFollowStorms
  <1>2. CASE CellNext
    BY <1>2, StartScanKeeps, SingleFrameKeeps, TrackLineageKeeps, UpdateCellsKeeps,
       PublishCellsKeeps, AttemptFailsKeeps DEF CellNext
  <1> QED
    BY <1>1, <1>2

\* Cells keep the storms they follow: a storm seen again over its own footprint goes on
\* with its history, and every detection is in the published list once, for any scans,
\* overlaps, counters, assignments, failures and retries.
THEOREM StormsAreFollowed == CellSpec => []TracksFollowStorms
  <1>1. CellInit => TrackInv
    BY InitTrackInv
  <1>2. TrackInv /\ [CellNext]_cellVars => TrackInv'
    BY NextTrackInv
  <1>3. TrackInv => TracksFollowStorms
    BY DEF TrackInv
  <1> QED
    BY <1>1, <1>2, <1>3, PTL DEF CellSpec
=============================================================================
