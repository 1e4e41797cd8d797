---------------------------- MODULE IngestProofs ----------------------------
(***************************************************************************)
(* Proofs about the NEXRAD ingest and its renderer, for any number of      *)
(* sites, volumes, chunks, steps and faults: the volumes the pipeline has  *)
(* in hand, the runtime file that the stream of a volume appends to while  *)
(* its parses rewrite it, and the artifacts that are rendered while they   *)
(* are written.  Then the staging of an MRMS product, for any scans,       *)
(* files and failures.  Last, what NEXRAD makes of the data itself: the    *)
(* order of the volumes, the chunks it uses, and the elevations it finds   *)
(* in a record stream that is trimmed between two parses.                  *)
(***************************************************************************)
EXTENDS NexradPipeline, NexradStream, NexradArtifacts, MrmsIngest, NexradParsing,
        FiniteSetTheorems, SequenceTheorems, NaturalsInduction, WellFoundedInduction, TLAPS

-----------------------------------------------------------------------------
(***************************************************************************)
(* Lists and numbers.                                                      *)
(*                                                                         *)
(* The largest of some numbers: a set of numbers without one would have a  *)
(* smallest subset without one, which is smaller still without any of its  *)
(* elements.                                                               *)
(***************************************************************************)
\* A finite set of integers that is not empty has a greatest member.
LEMMA GreatestNumber ==
  ASSUME NEW S, IsFiniteSet(S), S \subseteq Int, S # {}
  PROVE  \E m \in S : \A x \in S : x <= m
  <1> DEFINE HasMax(U) == \E m \in U : \A x \in U : x <= m
             T == {U \in SUBSET S : U # {} /\ ~HasMax(U)}
  <1>1. ASSUME T # {} PROVE FALSE
    <2>1. T \subseteq FiniteSubsetsOf(S)
      BY FS_Subset DEF FiniteSubsetsOf
    <2>2. PICK U \in T : \A V \in T : ~(<<V, U>> \in StrictSubsetOrdering(S))
      BY <1>1, <2>1, FS_StrictSubsetOrderingWellFounded, WFMin
    <2>3. PICK u \in U : TRUE
      OBVIOUS
    <2> DEFINE V == U \ {u}
    <2>4. V \notin T
      BY <2>2, <2>3 DEF StrictSubsetOrdering
    <2>5. CASE V = {}
      <3>1. U = {u} /\ u \in Int
        BY <2>3, <2>5
      <3> QED
        BY <3>1
    <2>6. ASSUME NEW m \in V, \A x \in V : x <= m PROVE FALSE
      <3>1. m \in Int /\ u \in Int /\ U \subseteq Int
        BY <2>3, <2>6
      <3>2. (\A x \in U : x <= m) \/ (\A x \in U : x <= u)
        BY <2>6, <3>1
      <3> QED
        BY <2>3, <3>2
    <2> QED
      BY <2>4, <2>5, <2>6
  <1> QED BY <1>1

\* Every finite set of numbers has a maximum, and Max is it.
LEMMA MaxOfFinite ==
  ASSUME NEW S, IsFiniteSet(S), S \subseteq Int, S # {}
  PROVE  Max(S) \in S /\ \A x \in S : x <= Max(S)
  <1>1. PICK m \in S : \A x \in S : x <= m
    BY GreatestNumber
  <1>2. \E x \in S : \A y \in S : x >= y
    BY <1>1
  <1>3. Max(S) \in S /\ \A y \in S : Max(S) >= y
    BY <1>2 DEF Max
  <1> QED
    BY <1>3

\* Every set of natural numbers has a least element.
LEMMA LeastNumber ==
    ASSUME NEW T, T \subseteq Nat, T # {}
    PROVE  \E n \in T : \A m \in T : n <= m
  <1>1. PICK n \in T : \A m \in T : ~ (<<m, n>> \in OpToRel(<, Nat))
    BY NatLessThanWellFounded, WFMin
  <1>2. ASSUME NEW m \in T, m < n PROVE FALSE
    <2>1. <<m, n>> \in OpToRel(<, Nat)
      BY <1>2 DEF OpToRel
    <2> QED BY <1>1, <2>1
  <1> QED BY <1>2

\* A set of numbers with 0 and the successor of each of its numbers has them all.
LEMMA NumbersOneByOne ==
    ASSUME NEW S, 0 \in S, \A n \in Nat : n \in S => n + 1 \in S
    PROVE  Nat \subseteq S
  <1> DEFINE T == Nat \ S
  <1> SUFFICES ASSUME T # {} PROVE FALSE
    OBVIOUS
  <1>1. PICK n \in T : \A m \in T : n <= m
    BY LeastNumber
  <1>2. n - 1 \in Nat /\ n - 1 \in S
    BY <1>1
  <1> QED BY <1>2

\* Entry by entry, to the end of the list.
Selects(g, t, positions) ==
    /\ Selected(t, positions) = g[Len(t)]
    /\ g[0] = <<>>
    /\ \A n \in 0..Len(t) - 1 :
         g[n + 1] = IF n + 1 \in positions THEN Append(g[n], t[n + 1]) ELSE g[n]

\* A selection is computed entry by entry.
LEMMA SelectedSteps ==
    ASSUME NEW E, NEW t \in Seq(E), NEW positions
    PROVE  \E g : Selects(g, t, positions)
  <1> DEFINE Step(g, n) ==
               IF n = 0 THEN <<>>
               ELSE IF n \in positions THEN Append(g[n - 1], t[n]) ELSE g[n - 1]
             Solves(g, n) == g = [k \in 0..n |-> Step(g, k)]
             Solvable == {n \in Nat : \E g : Solves(g, n)}
  <1>0. Len(t) \in Nat
    BY LenProperties
  <1>1. 0 \in Solvable
    <2> DEFINE g == [k \in 0..0 |-> <<>>]
    <2>1. Solves(g, 0)
      <3>1. ASSUME NEW k \in 0..0 PROVE Step(g, k) = <<>>
        <4>1. k = 0
          OBVIOUS
        <4> HIDE DEF g
        <4> QED BY <4>1
      <3> HIDE DEF Step
      <3> QED BY <3>1
    <2> QED BY <2>1
  <1>2. ASSUME NEW n \in Nat, n \in Solvable PROVE n + 1 \in Solvable
    <2> SUFFICES \E h : Solves(h, n + 1)
      <3> HIDE DEF Solves
      <3>1. n + 1 \in Nat
        OBVIOUS
      <3> QED BY <3>1
    <2>2. PICK g : Solves(g, n)
      BY <1>2
    <2>3. \A k \in 0..n : g[k] = Step(g, k)
      BY <2>2
    <2>4. PICK h : h = [k \in 0..n + 1 |-> IF k <= n THEN g[k] ELSE Step(g, k)]
      OBVIOUS
    <2> HIDE DEF Solves
    <2>5. \A k \in 0..n : h[k] = g[k]
      BY <2>4
    <2>6. ASSUME NEW k \in 0..n + 1 PROVE h[k] = Step(h, k)
      <3>1. CASE k = 0
        <4>1. h[k] = g[k] /\ g[k] = Step(g, k) /\ Step(g, k) = <<>> /\ Step(h, k) = <<>>
          <5>1. k \in 0..n
            BY <3>1
          <5>2. Step(g, k) = <<>> /\ Step(h, k) = <<>>
            BY <3>1
          <5> HIDE DEF Step
          <5> QED BY <2>3, <2>5, <5>1, <5>2
        <4> QED BY <4>1
      <3>2. CASE k # 0
        <4>1. k - 1 \in 0..n /\ h[k - 1] = g[k - 1]
          BY <2>5, <3>2
        <4>2. h[k] = Step(g, k)
          <5> HIDE DEF Step
          <5> QED BY <2>3, <2>4
        <4> QED BY <3>2, <4>1, <4>2
      <3> QED BY <3>1, <3>2
    <2>7. Solves(h, n + 1)
      <3>1. h = [k \in 0..n + 1 |-> h[k]]
        BY <2>4
      <3> HIDE DEF Step
      <3>2. [k \in 0..n + 1 |-> h[k]] = [k \in 0..n + 1 |-> Step(h, k)]
        BY <2>6
      <3> QED BY <3>1, <3>2 DEF Solves
    <2> QED BY <2>7
  <1>3. PICK g : Solves(g, Len(t))
    <2> HIDE DEF Solves
    <2>1. Nat \subseteq Solvable
      <3> HIDE DEF Solvable
      <3> QED BY <1>1, <1>2, NumbersOneByOne
    <2> QED BY <1>0, <2>1
  <1>4. PICK f : f = CHOOSE h : Solves(h, Len(t))
    OBVIOUS
  <1>5. Solves(f, Len(t)) /\ Selected(t, positions) = f[Len(t)]
    BY <1>3, <1>4 DEF Selected
  <1>6. \A k \in 0..Len(t) : f[k] = Step(f, k)
    BY <1>5
  <1>7. f[0] = <<>>
    <2>1. 0 \in 0..Len(t) /\ Step(f, 0) = <<>>
      BY <1>0
    <2> HIDE DEF Step
    <2> QED BY <1>6, <2>1
  <1>8. ASSUME NEW n \in 0..Len(t) - 1
        PROVE  f[n + 1] = IF n + 1 \in positions THEN Append(f[n], t[n + 1]) ELSE f[n]
    <2>1. n + 1 \in 0..Len(t) /\ n + 1 # 0 /\ (n + 1) - 1 = n
      BY <1>0
    <2>2. Step(f, n + 1) = IF n + 1 \in positions THEN Append(f[n], t[n + 1]) ELSE f[n]
      BY <2>1
    <2> HIDE DEF Step
    <2> QED BY <1>6, <2>1, <2>2
  <1> QED BY <1>5, <1>7, <1>8 DEF Selects

\* A list whose last entry is x, and all others among others.
LastIs(u, x, others) ==
    u # <<>> /\ u[Len(u)] = x /\ \A i \in 1..Len(u) - 1 : u[i] \in others

\* A selection holds the entries at the positions, and no others; the last entry, if
\* it is kept, stays last.
Keeps(u, E, t, kept) ==
    /\ u \in Seq(E)
    /\ \A i \in DOMAIN u : \E j \in kept : u[i] = t[j]
    /\ \A j \in kept : \E i \in DOMAIN u : u[i] = t[j]

LEMMA SelectionIs ==
    ASSUME NEW E, NEW t \in Seq(E), NEW positions
    PROVE  /\ Keeps(Selected(t, positions), E, t, DOMAIN t \cap positions)
           /\ Len(t) \in DOMAIN t \cap positions =>
                 LastIs(Selected(t, positions), t[Len(t)],
                        {t[j] : j \in (DOMAIN t \cap positions) \ {Len(t)}})
  <1> DEFINE Good(u, n) ==
               /\ u \in Seq(E)
               /\ \A i \in DOMAIN u : \E j \in (1..n) \cap positions : u[i] = t[j]
               /\ \A j \in (1..n) \cap positions : \E i \in DOMAIN u : u[i] = t[j]
               /\ n \in (1..n) \cap positions =>
                    LastIs(u, t[n], {t[j] : j \in ((1..n) \cap positions) \ {n}})
  <1>0. Len(t) \in Nat /\ DOMAIN t = 1..Len(t) /\ \A n \in 1..Len(t) : t[n] \in E
    BY LenProperties, ElementOfSeq
  \* What is appended is the next entry, if it is wanted.
  <1>1. ASSUME NEW u, NEW n \in Nat, n + 1 <= Len(t), Good(u, n)
        PROVE  Good(IF n + 1 \in positions THEN Append(u, t[n + 1]) ELSE u, n + 1)
    <2>1. n + 1 \in 1..Len(t) /\ t[n + 1] \in E
      BY <1>0, <1>1
    <2>2. CASE n + 1 \notin positions
      <3>1. (1..n + 1) \cap positions = (1..n) \cap positions
        BY <2>2
      <3> QED BY <1>1, <2>2, <3>1
    <2>3. CASE n + 1 \in positions
      <3> DEFINE w == Append(u, t[n + 1])
      <3>1. /\ w \in Seq(E) /\ Len(u) \in Nat /\ DOMAIN u = 1..Len(u)
            /\ DOMAIN w = 1..Len(u) + 1 /\ w[Len(u) + 1] = t[n + 1]
            /\ \A i \in 1..Len(u) : w[i] = u[i]
        BY <1>1, <2>1, AppendProperties, LenProperties
      <3> HIDE DEF w
      <3>2. ASSUME NEW i \in DOMAIN w PROVE \E j \in (1..n + 1) \cap positions : w[i] = t[j]
        <4>1. CASE i = Len(u) + 1
          <5>1. n + 1 \in (1..n + 1) \cap positions
            BY <2>3
          <5> QED BY <3>1, <4>1, <5>1
        <4>2. CASE i # Len(u) + 1
          <5>1. i \in DOMAIN u /\ w[i] = u[i]
            BY <3>1, <4>2
          <5>2. PICK j \in (1..n) \cap positions : u[i] = t[j]
            BY <1>1, <5>1
          <5>3. j \in (1..n + 1) \cap positions
            OBVIOUS
          <5> QED BY <5>1, <5>2, <5>3
        <4> QED BY <4>1, <4>2
      <3>3. ASSUME NEW j \in (1..n + 1) \cap positions PROVE \E i \in DOMAIN w : w[i] = t[j]
        <4>1. CASE j = n + 1
          <5>1. Len(u) + 1 \in DOMAIN w
            BY <3>1
          <5> QED BY <3>1, <4>1, <5>1
        <4>2. CASE j # n + 1
          <5>1. j \in (1..n) \cap positions
            BY <4>2
          <5>2. PICK i \in DOMAIN u : u[i] = t[j]
            BY <1>1, <5>1
          <5>3. i \in DOMAIN w /\ w[i] = u[i]
            BY <3>1
          <5> QED BY <5>2, <5>3
        <4> QED BY <4>1, <4>2
      <3>4. LastIs(w, t[n + 1], {t[j] : j \in ((1..n + 1) \cap positions) \ {n + 1}})
        <4>1. Len(w) = Len(u) + 1 /\ w # <<>>
          BY <3>1, LenProperties
        <4>2. ASSUME NEW i \in 1..Len(u)
              PROVE  w[i] \in {t[j] : j \in ((1..n + 1) \cap positions) \ {n + 1}}
          <5>1. i \in DOMAIN u /\ w[i] = u[i]
            BY <3>1
          <5>2. PICK j \in (1..n) \cap positions : u[i] = t[j]
            BY <1>1, <5>1
          <5>3. j \in ((1..n + 1) \cap positions) \ {n + 1}
            OBVIOUS
          <5> QED BY <5>1, <5>2, <5>3
        <4> QED BY <3>1, <4>1, <4>2 DEF LastIs
      <3>5. Good(w, n + 1)
        BY <3>1, <3>2, <3>3, <3>4
      <3> QED BY <2>3, <3>5 DEF w
    <2> QED BY <2>2, <2>3
  <1>2. Good(<<>>, 0)
    <2>1. (1..0) \cap positions = {} /\ <<>> \in Seq(E) /\ DOMAIN <<>> = {}
      OBVIOUS
    <2> QED BY <2>1
  <1> HIDE DEF Good
  <1>g. PICK g : Selects(g, t, positions)
    BY SelectedSteps
  <1>3. /\ Selected(t, positions) = g[Len(t)] /\ g[0] = <<>>
        /\ \A n \in 0..Len(t) - 1 :
              g[n + 1] = IF n + 1 \in positions THEN Append(g[n], t[n + 1]) ELSE g[n]
    BY <1>g DEF Selects
  <1> DEFINE Right == {n \in Nat : n <= Len(t) => Good(g[n], n)}
  <1>4. 0 \in Right
    BY <1>2, <1>3
  <1>5. ASSUME NEW n \in Nat, n \in Right PROVE n + 1 \in Right
    <2> SUFFICES ASSUME n + 1 <= Len(t) PROVE Good(g[n + 1], n + 1)
      OBVIOUS
    <2>1. n \in 0..Len(t) - 1 /\ Good(g[n], n)
      BY <1>0, <1>5
    <2> QED BY <1>1, <1>3, <2>1
  <1>6. Nat \subseteq Right
    <2> HIDE DEF Right
    <2> QED BY <1>4, <1>5, NumbersOneByOne
  <1>7. Good(g[Len(t)], Len(t))
    BY <1>0, <1>6
  <1> QED BY <1>0, <1>3, <1>7 DEF Good, Keeps

LEMMA SelectionHolds ==
    ASSUME NEW E, NEW t \in Seq(E), NEW positions
    PROVE  /\ Selected(t, positions) \in Seq(E)
           /\ \A i \in DOMAIN Selected(t, positions) :
                 \E j \in DOMAIN t \cap positions : Selected(t, positions)[i] = t[j]
           /\ \A j \in DOMAIN t \cap positions :
                 \E i \in DOMAIN Selected(t, positions) : Selected(t, positions)[i] = t[j]
  <1>1. Keeps(Selected(t, positions), E, t, DOMAIN t \cap positions)
    BY SelectionIs
  <1> QED BY <1>1 DEF Keeps

\* A list without its middle: the first a entries and those from the b-th on.
Ends(t, a, b) ==
    [i \in 1..(Len(t) + 1 + a - b) |-> IF i <= a THEN t[i] ELSE t[i - a + b - 1]]

LEMMA SelectedEnds ==
    ASSUME NEW E, NEW t \in Seq(E), NEW positions, NEW a \in Nat, NEW b \in Nat,
           a < b, b <= Len(t) + 1, \A i \in DOMAIN t : i \in positions <=> i <= a \/ b <= i
    PROVE  Selected(t, positions) = Ends(t, a, b)
  <1>0. Len(t) \in Nat /\ DOMAIN t = 1..Len(t) /\ \A n \in 1..Len(t) : t[n] \in E
    BY LenProperties, ElementOfSeq
  <1>g. PICK g : Selects(g, t, positions)
    BY SelectedSteps
  <1>1. /\ Selected(t, positions) = g[Len(t)] /\ g[0] = <<>>
        /\ \A n \in 0..Len(t) - 1 :
              g[n + 1] = IF n + 1 \in positions THEN Append(g[n], t[n + 1]) ELSE g[n]
    BY <1>g DEF Selects
  <1> DEFINE Left(n) == IF n <= a THEN n ELSE IF n < b THEN a ELSE n + 1 + a - b
             At(i) == IF i <= a THEN t[i] ELSE t[i - a + b - 1]
             Made(n) == [i \in 1..Left(n) |-> At(i)]
  <1> DEFINE Right == {n \in Nat : n <= Len(t) => g[n] = Made(n)}
  <1>2. 0 \in Right
    <2>1. Left(0) = 0
      OBVIOUS
    <2>2. Made(0) = <<>>
      BY <2>1
    <2> QED BY <1>1, <2>2
  <1>3. ASSUME NEW n \in Nat, n \in Right PROVE n + 1 \in Right
    <2> SUFFICES ASSUME n + 1 <= Len(t) PROVE g[n + 1] = Made(n + 1)
      OBVIOUS
    <2>1. n \in 0..Len(t) - 1 /\ g[n] = Made(n) /\ n + 1 \in DOMAIN t /\ t[n + 1] \in E
      BY <1>0, <1>3
    <2>2. Left(n) \in Nat /\ \A i \in 1..Left(n) : At(i) \in E
      <3>1. ASSUME NEW i \in 1..Left(n) PROVE At(i) \in E
        <4>1. CASE i <= a
          BY <1>0, <2>1, <4>1
        <4>2. CASE i > a
          <5>1. i - a + b - 1 \in 1..Len(t)
            BY <1>0, <2>1, <4>2
          <5> QED BY <1>0, <4>2, <5>1
        <4> QED BY <4>1, <4>2
      <3>2. Left(n) \in Nat
        OBVIOUS
      <3> QED BY <3>1, <3>2
    <2>3. CASE n + 1 \notin positions
      <3>1. Left(n + 1) = Left(n)
        BY <1>0, <2>1, <2>3
      <3>2. Made(n + 1) = Made(n)
        BY <3>1
      <3> QED BY <1>1, <2>1, <2>3, <3>2
    <2>4. CASE n + 1 \in positions
      <3>1. Left(n + 1) = Left(n) + 1 /\ At(Left(n) + 1) = t[n + 1]
        BY <1>0, <2>1, <2>4
      <3> HIDE DEF At, Left
      <3>2. PICK u : u = Made(n)
        OBVIOUS
      <3>3. u \in Seq(E) /\ Len(u) = Left(n) /\ \A i \in 1..Left(n) : u[i] = At(i)
        BY <2>2, <3>2, SeqDef, LenProperties
      <3> DEFINE w == Append(u, t[n + 1])
      <3>4. /\ w \in Seq(E) /\ DOMAIN w = 1..Left(n) + 1
            /\ w[Left(n) + 1] = t[n + 1] /\ \A i \in 1..Left(n) : w[i] = u[i]
        <4>1. t[n + 1] \in E
          BY <2>1
        <4> HIDE DEF Made
        <4> QED BY <3>3, <4>1, AppendProperties, LenProperties
      <3> HIDE DEF w
      <3>5. \A i \in 1..Left(n) + 1 : w[i] = At(i)
        BY <2>2, <3>1, <3>3, <3>4
      <3>6. w = [i \in 1..Left(n) + 1 |-> w[i]]
        BY <3>4
      <3>7. w = Made(n + 1)
        BY <3>1, <3>5, <3>6
      <3> QED BY <1>1, <2>1, <2>4, <3>2, <3>7 DEF w
    <2> QED BY <2>3, <2>4
  <1>4. Nat \subseteq Right
    <2> HIDE DEF Right
    <2> QED BY <1>2, <1>3, NumbersOneByOne
  <1>5. g[Len(t)] = Made(Len(t))
    <2>1. Len(t) \in Right
      <3> HIDE DEF Right
      <3> QED BY <1>0, <1>4
    <2> QED BY <1>0, <2>1
  <1>6. Left(Len(t)) = Len(t) + 1 + a - b
    BY <1>0
  <1>7. Made(Len(t)) = Ends(t, a, b)
    BY <1>6 DEF Ends
  <1> QED BY <1>1, <1>5, <1>7

-----------------------------------------------------------------------------
(***************************************************************************)
(* The pending volumes (NexradPipeline).  A pending pass works from the    *)
(* list it made when it began, so what it takes for a volume without the   *)
(* mark may only be out of date; what makes it right is that nothing sets  *)
(* the mark but a scan, and no scan runs beside the pass.                  *)
(***************************************************************************)
PendingEntries == [site: Sites, volume: Nat, started: BOOLEAN]

PipelineType ==
    /\ upload \in [Sites -> Seq({"few", "enough", "all"})]
    /\ tracker \in Seq(PendingEntries) /\ todo \in Seq(PendingEntries)
    /\ siteTask \in [Sites -> [pc: {"done", "discover", "ingest", "complete"}, volume: Nat]]
    /\ lastSeen \in [Sites -> Nat]
    /\ mishaps \in Nat

\* An ingest begins when the first chunks are there, and they stay.
HasChunks(u, s, v) == v \in DOMAIN u[s] /\ u[s][v] # "few"
IngestsHaveChunks ==
    /\ \A i \in DOMAIN tracker :
          tracker[i].started => HasChunks(upload, tracker[i].site, tracker[i].volume)
    /\ \A s \in Sites : siteTask[s].pc = "ingest" => HasChunks(upload, s, siteTask[s].volume)

\* The tracker says one thing of a volume, and the list of a pending pass says the same.
SameVolume(p, q) == p.site = q.site /\ p.volume = q.volume
ListsAgree ==
    /\ \A i, j \in DOMAIN tracker : SameVolume(tracker[i], tracker[j]) => tracker[i] = tracker[j]
    /\ \A i \in DOMAIN todo, j \in DOMAIN tracker :
          SameVolume(todo[i], tracker[j]) => todo[i] = tracker[j]

\* A pending pass goes through its list while no site is being scanned.
OnePassAtATime ==
    /\ todo # <<>> => pass = "pending"
    /\ pass # "scan" => \A s \in Sites : siteTask[s].pc = "done"

\* No list has a volume that is newer than the newest one a scan found.
NewestIsSeen ==
    /\ \A s \in Sites : lastSeen[s] <= Len(upload[s])
    /\ \A i \in DOMAIN tracker : tracker[i].volume <= lastSeen[tracker[i].site]
    /\ \A i \in DOMAIN todo : todo[i].volume <= lastSeen[todo[i].site]
    /\ \A s \in Sites : siteTask[s].pc = "ingest" => siteTask[s].volume = lastSeen[s]

PipelineInv == PipelineType /\ IngestsHaveChunks /\ ListsAgree /\ OnePassAtATime /\ NewestIsSeen

\* What a step does with an entry of the tracker, and with the ingest of a site.
EntryKept(p) ==
    \/ \E j \in DOMAIN tracker' : tracker'[j] = p
    \/ p.volume \in local'[p.site]
    \/ /\ ~p.started
       /\ \/ \E j \in DOMAIN tracker' : tracker'[j].site = p.site /\ tracker'[j].volume = p.volume
          \/ lastSeen'[p.site] > p.volume

IngestKept(s) ==
    siteTask[s].pc = "ingest" =>
        \/ siteTask'[s] = siteTask[s]
        \/ siteTask[s].volume \in local'[s]
        \/ \E j \in DOMAIN tracker' : /\ tracker'[j].site = s /\ tracker'[j].started
                                      /\ tracker'[j].volume = siteTask[s].volume
        \/ SiteIngestFails(s)

StepKeeps ==
    \/ Restart
    \/ (\A i \in DOMAIN tracker : EntryKept(tracker[i])) /\ (\A s \in Sites : IngestKept(s))

\* A step that keeps the entries and the ingests accounts for the volumes.
LEMMA KeptIsAccountedFor ==
    ASSUME StepKeeps, NEW s \in Sites, NEW v, Tracked(s, v) \/ Ingesting(s, v)
    PROVE  AccountedFor(s, v)
  <1>1. CASE Restart
    BY <1>1 DEF AccountedFor
  <1>2. CASE (\A i \in DOMAIN tracker : EntryKept(tracker[i])) /\ IngestKept(s)
    <2>1. CASE Marked(s, v)
      <3>1. PICK i \in DOMAIN tracker :
               tracker[i].site = s /\ tracker[i].volume = v /\ tracker[i].started
        BY <2>1 DEF Marked
      <3>2. (\E j \in DOMAIN tracker' : tracker'[j] = tracker[i]) \/ v \in local'[s]
        BY <1>2, <3>1 DEF EntryKept
      <3>3. Marked(s, v)' \/ v \in local'[s]
        BY <3>1, <3>2 DEF Marked
      <3> QED BY <3>3 DEF AccountedFor
    <2>2. CASE ~Marked(s, v) /\ Ingesting(s, v)
      <3>1. \/ siteTask'[s] = siteTask[s] \/ v \in local'[s] \/ Marked(s, v)' \/ SiteIngestFails(s)
        BY <1>2, <2>2 DEF IngestKept, Ingesting, Marked
      <3>2. siteTask'[s] = siteTask[s] => Ingesting(s, v)'
        BY <2>2 DEF Ingesting
      <3> QED BY <2>2, <3>1, <3>2 DEF AccountedFor
    <2>3. CASE ~Marked(s, v) /\ ~Ingesting(s, v)
      <3>1. PICK i \in DOMAIN tracker : tracker[i].site = s /\ tracker[i].volume = v
        BY <2>3 DEF Tracked
      <3>2. \/ v \in local'[s] \/ lastSeen'[s] > v
            \/ \E j \in DOMAIN tracker' : tracker'[j].site = s /\ tracker'[j].volume = v
        BY <1>2, <3>1 DEF EntryKept
      <3>3. v \in local'[s] \/ lastSeen'[s] > v \/ Tracked(s, v)'
        BY <3>2 DEF Tracked
      <3> QED BY <2>3, <3>3 DEF AccountedFor
    <2> QED BY <2>1, <2>2, <2>3
  <1> QED BY <1>1, <1>2 DEF StepKeeps

\* Every entry of u is one of t.
Within(u, t) == \A i \in DOMAIN u : \E j \in DOMAIN t : u[i] = t[j]

\* What is taken out of the tracker is the volume.
LEMMA RemovedHolds ==
    ASSUME NEW t \in Seq(PendingEntries), NEW s, NEW v
    PROVE  /\ Removed(t, s, v) \in Seq(PendingEntries) /\ Within(Removed(t, s, v), t)
           /\ \A j \in DOMAIN t : t[j].site # s \/ t[j].volume # v =>
                 \E i \in DOMAIN Removed(t, s, v) : Removed(t, s, v)[i] = t[j]
  <1> DEFINE others == {i \in DOMAIN t : t[i].site # s \/ t[i].volume # v}
  <1>1. Removed(t, s, v) = Selected(t, others)
    BY DEF Removed
  <1>2. \A j \in DOMAIN t : (t[j].site # s \/ t[j].volume # v) <=> j \in DOMAIN t \cap others
    OBVIOUS
  <1> HIDE DEF others
  <1> QED BY <1>1, <1>2, SelectionHolds DEF Within

\* What a newer volume takes out of the tracker is another of its site, without the mark.
LEMMA WithoutStaleHolds ==
    ASSUME NEW t \in Seq(PendingEntries), NEW s, NEW v
    PROVE  /\ WithoutStale(t, s, v) \in Seq(PendingEntries) /\ Within(WithoutStale(t, s, v), t)
           /\ \A j \in DOMAIN t :
                 \/ \E i \in DOMAIN WithoutStale(t, s, v) : WithoutStale(t, s, v)[i] = t[j]
                 \/ t[j].site = s /\ t[j].volume # v /\ ~t[j].started
  <1> DEFINE rest == {i \in DOMAIN t : t[i].site # s \/ t[i].volume = v \/ t[i].started}
  <1>1. WithoutStale(t, s, v) = Selected(t, rest)
    BY DEF WithoutStale
  <1>2. \A j \in DOMAIN t :
           j \in DOMAIN t \cap rest \/ (t[j].site = s /\ t[j].volume # v /\ ~t[j].started)
    OBVIOUS
  <1>3. \A j \in DOMAIN t \cap rest : j \in DOMAIN t
    OBVIOUS
  <1> HIDE DEF rest
  <1> QED BY <1>1, <1>2, <1>3, SelectionHolds DEF Within

\* What is put into the tracker takes the place of what it said of the volume.
LEMMA UpsertedHolds ==
    ASSUME NEW t \in Seq(PendingEntries), NEW s \in Sites, NEW v \in Nat, NEW b \in BOOLEAN,
           NEW u, u = Upserted(t, s, v, b),
           NEW entry, entry = [site |-> s, volume |-> v, started |-> b]
    PROVE  /\ u \in Seq(PendingEntries)
           /\ \A i \in DOMAIN u :
                 \/ u[i] = entry
                 \/ (\E j \in DOMAIN t : u[i] = t[j]) /\ (u[i].site # s \/ u[i].volume # v)
           /\ \A j \in DOMAIN t : \/ t[j].site = s /\ t[j].volume = v
                                  \/ \E i \in DOMAIN u : u[i] = t[j]
           /\ \E i \in DOMAIN u : u[i] = entry
  <1>0. /\ entry \in PendingEntries /\ entry.site = s /\ entry.volume = v
        /\ Len(t) \in Nat /\ DOMAIN t = 1..Len(t) /\ \A i \in 1..Len(t) : t[i] \in PendingEntries
    BY LenProperties, ElementOfSeq DEF PendingEntries
  <1>1. CASE \E i \in DOMAIN t : t[i].site = s /\ t[i].volume = v
    <2>1. u = [i \in DOMAIN t |-> IF t[i].site = s /\ t[i].volume = v THEN entry ELSE t[i]]
      BY <1>1 DEF Upserted
    <2>2. u \in [1..Len(t) -> PendingEntries]
      BY <1>0, <2>1
    <2>3. u \in Seq(PendingEntries)
      BY <1>0, <2>2, SeqDef
    <2>4. /\ \A i \in DOMAIN u : u[i] = entry \/ (u[i] = t[i] /\ (u[i].site # s \/ u[i].volume # v))
          /\ DOMAIN u = DOMAIN t
          /\ \A j \in DOMAIN t : (t[j].site = s /\ t[j].volume = v) \/ u[j] = t[j]
      BY <1>0, <2>1
    <2>5. \E i \in DOMAIN u : u[i] = entry
      BY <1>1, <2>1
    <2> QED BY <2>3, <2>4, <2>5
  <1>2. CASE \A i \in DOMAIN t : t[i].site # s \/ t[i].volume # v
    <2>1. u = Append(t, entry)
      BY <1>2 DEF Upserted
    <2>2. /\ u \in Seq(PendingEntries) /\ DOMAIN u = 1..Len(t) + 1 /\ u[Len(t) + 1] = entry
          /\ \A i \in 1..Len(t) : u[i] = t[i]
      BY <1>0, <2>1, AppendProperties, LenProperties
    <2>3. \A i \in DOMAIN u : i = Len(t) + 1 \/ (i \in DOMAIN t /\ u[i] = t[i])
      BY <1>0, <2>2
    <2>4. \A j \in DOMAIN t : j \in DOMAIN u /\ u[j] = t[j]
      BY <1>0, <2>2
    <2>5. Len(t) + 1 \in DOMAIN u
      BY <1>0, <2>2
    <2> QED BY <1>2, <2>2, <2>3, <2>4, <2>5
  <1> QED BY <1>1, <1>2

\* Taking entries out of the lists disturbs nothing that is said of them.
LEMMA ShorterListsAgree ==
    ASSUME PipelineInv, Within(tracker', tracker), Within(todo', todo), UNCHANGED upload
    PROVE  /\ ListsAgree'
           /\ \A i \in DOMAIN tracker' :
                 tracker'[i].started => HasChunks(upload', tracker'[i].site, tracker'[i].volume)
  BY DEF PipelineInv, IngestsHaveChunks, ListsAgree, SameVolume, Within, HasChunks

\* Looking for the newest volume of a site forgets none but older ones without the mark.
LEMMA DiscoverKeeps ==
    ASSUME PipelineInv, NEW s \in Sites, Discover(s)
    PROVE  PipelineInv' /\ StepKeeps
  <1> DEFINE v == Len(upload[s])
             rest == WithoutStale(tracker, s, v)
  <1>1. /\ upload \in [Sites -> Seq({"few", "enough", "all"})]
        /\ tracker \in Seq(PendingEntries) /\ todo \in Seq(PendingEntries)
        /\ siteTask \in [Sites -> [pc: {"done", "discover", "ingest", "complete"}, volume: Nat]]
        /\ lastSeen \in [Sites -> Nat] /\ mishaps \in Nat
    BY DEF PipelineInv, PipelineType
  <1>2. v \in Nat /\ v \in DOMAIN upload[s]
    <2>1. upload[s] \in Seq({"few", "enough", "all"}) /\ upload[s] # <<>>
      BY <1>1 DEF Discover
    <2> QED BY <2>1, LenProperties, EmptySeq
  <1>3. pass = "scan" /\ todo = <<>>
    BY DEF Discover, PipelineInv, OnePassAtATime
  <1>4. /\ UNCHANGED <<upload, local, todo, pass, mishaps>> /\ siteTask[s].pc = "discover"
        /\ lastSeen' = [lastSeen EXCEPT ![s] = v]
    BY DEF Discover
  <1>14. v = Len(upload[s])
    OBVIOUS
  <1>6. \/ v \in local[s] /\ tracker' = Removed(rest, s, v) /\ siteTask' = [siteTask EXCEPT ![s] = NoTask]
        \/ upload[s][v] = "few" /\ tracker' = Upserted(rest, s, v, FALSE)
              /\ siteTask' = [siteTask EXCEPT ![s] = NoTask]
        \/ upload[s][v] # "few" /\ tracker' = rest
              /\ siteTask' = [siteTask EXCEPT ![s] = [pc |-> "ingest", volume |-> v]]
    BY DEF Discover, LocalComplete
  <1> HIDE DEF v
  <1>5. /\ rest \in Seq(PendingEntries) /\ Within(rest, tracker)
        /\ \A j \in DOMAIN tracker :
              \/ \E i \in DOMAIN rest : rest[i] = tracker[j]
              \/ tracker[j].site = s /\ tracker[j].volume # v /\ ~tracker[j].started
    <2>1. tracker \in Seq(PendingEntries)
      BY <1>1
    <2> QED BY <2>1, WithoutStaleHolds
  <1>13. /\ lastSeen' \in [Sites -> Nat] /\ lastSeen'[s] = v
         /\ \A r \in Sites : lastSeen[r] <= lastSeen'[r] /\ lastSeen'[r] <= Len(upload[r])
         /\ \A j \in DOMAIN tracker :
               /\ tracker[j].site \in Sites /\ tracker[j].volume \in Nat
               /\ tracker[j].volume <= lastSeen'[tracker[j].site]
    <2>1. lastSeen[s] <= v /\ \A r \in Sites : lastSeen[r] <= Len(upload[r])
      BY <1>14 DEF PipelineInv, NewestIsSeen
    <2>2. \A j \in DOMAIN tracker : tracker[j] \in PendingEntries
      BY <1>1, ElementOfSeq, LenProperties
    <2>3. \A j \in DOMAIN tracker : tracker[j].site \in Sites /\ tracker[j].volume \in Nat
      BY <2>2 DEF PendingEntries
    <2>4. \A j \in DOMAIN tracker : tracker[j].volume <= lastSeen[tracker[j].site]
      BY DEF PipelineInv, NewestIsSeen
    <2>5. \A r \in Sites : lastSeen'[r] = IF r = s THEN v ELSE lastSeen[r]
      BY <1>1, <1>4
    <2>6. lastSeen' \in [Sites -> Nat]
      BY <1>1, <1>2, <1>4
    <2>7. \A r \in Sites : lastSeen[r] <= lastSeen'[r] /\ lastSeen'[r] <= Len(upload[r])
      <3>1. lastSeen'[s] = v /\ \A r \in Sites : r # s => lastSeen'[r] = lastSeen[r]
        BY <2>5
      <3>2. v <= v
        BY <1>2
      <3>3. lastSeen[s] <= lastSeen'[s] /\ lastSeen'[s] <= Len(upload[s])
        BY <1>14, <2>1, <3>1, <3>2
      <3>4. ASSUME NEW r \in Sites, r # s
            PROVE  lastSeen[r] <= lastSeen'[r] /\ lastSeen'[r] <= Len(upload[r])
        <4>1. lastSeen'[r] = lastSeen[r] /\ lastSeen[r] \in Nat
          BY <1>1, <3>1, <3>4
        <4> QED BY <2>1, <4>1
      <3> QED BY <3>3, <3>4
    <2>8. \A j \in DOMAIN tracker : tracker[j].volume <= lastSeen'[tracker[j].site]
      BY <1>1, <2>3, <2>4, <2>6, <2>7
    <2> QED BY <2>3, <2>5, <2>6, <2>7, <2>8
  <1> HIDE DEF rest
  <1>7. Within(todo', todo)
    BY <1>4 DEF Within
  <1>8. /\ siteTask' \in [Sites -> [pc: {"done", "discover", "ingest", "complete"}, volume: Nat]]
        /\ \A r \in Sites : siteTask'[r].pc = "ingest" =>
              HasChunks(upload', r, siteTask'[r].volume) /\ siteTask'[r].volume = lastSeen'[r]
        /\ \A r \in Sites : IngestKept(r)
    <2>1. \A r \in Sites : siteTask[r].pc = "ingest" =>
             HasChunks(upload, r, siteTask[r].volume) /\ siteTask[r].volume = lastSeen[r]
      BY DEF PipelineInv, IngestsHaveChunks, NewestIsSeen
    <2>2. PICK turn \in [pc: {"done", "discover", "ingest", "complete"}, volume: Nat] :
             /\ siteTask' = [siteTask EXCEPT ![s] = turn]
             /\ turn.pc = "ingest" => turn.volume = v /\ upload[s][v] # "few"
      <3>1. [pc |-> "ingest", volume |-> v] \in [pc: {"done", "discover", "ingest", "complete"}, volume: Nat]
        BY <1>2
      <3>2. NoTask \in [pc: {"done", "discover", "ingest", "complete"}, volume: Nat] /\ NoTask.pc = "done"
        BY DEF NoTask
      <3> QED BY <1>6, <3>1, <3>2
    <2>3. \A r \in Sites : siteTask'[r] = IF r = s THEN turn ELSE siteTask[r]
      BY <1>1, <2>2
    <2>4. \A r \in Sites : lastSeen'[r] = IF r = s THEN v ELSE lastSeen[r]
      BY <1>1, <1>4
    <2>5. \A r \in Sites : IngestKept(r)
      BY <1>4, <2>3 DEF IngestKept
    <2>6. siteTask' \in [Sites -> [pc: {"done", "discover", "ingest", "complete"}, volume: Nat]]
      BY <1>1, <2>2
    <2> QED BY <1>2, <1>4, <2>1, <2>2, <2>3, <2>4, <2>5, <2>6 DEF HasChunks
  <1>9. OnePassAtATime'
    BY <1>3, <1>4 DEF OnePassAtATime
  <1>10. CASE v \in local[s] /\ tracker' = Removed(rest, s, v)
    <2>1. /\ tracker' \in Seq(PendingEntries) /\ Within(tracker', rest)
          /\ \A j \in DOMAIN rest : rest[j].site # s \/ rest[j].volume # v =>
                \E i \in DOMAIN tracker' : tracker'[i] = rest[j]
      BY <1>5, <1>10, RemovedHolds
    <2>2. Within(tracker', tracker)
      BY <1>5, <2>1 DEF Within
    <2>4. NewestIsSeen'
      BY <1>3, <1>4, <1>8, <1>13, <2>2 DEF NewestIsSeen, Within
    <2>3. PipelineInv'
      BY <1>1, <1>4, <1>7, <1>8, <1>9, <1>13, <2>1, <2>2, <2>4, ShorterListsAgree
         DEF PipelineInv, PipelineType, IngestsHaveChunks
    <2>5. ASSUME NEW i \in DOMAIN tracker
          PROVE  EntryKept(tracker[i])
      <3>1. CASE tracker[i].site = s /\ tracker[i].volume # v /\ ~tracker[i].started
        BY <1>13, <3>1, <1>2 DEF EntryKept
      <3>2. CASE \E j \in DOMAIN rest : rest[j] = tracker[i]
        <4>1. PICK j \in DOMAIN rest : rest[j] = tracker[i]
          BY <3>2
        <4>2. (\E k \in DOMAIN tracker' : tracker'[k] = tracker[i])
                 \/ (tracker[i].site = s /\ tracker[i].volume = v)
          BY <2>1, <4>1
        <4> QED BY <1>4, <1>10, <4>2 DEF EntryKept
      <3> QED BY <1>5, <3>1, <3>2
    <2> QED BY <1>8, <2>3, <2>5 DEF StepKeeps
  <1>11. CASE upload[s][v] = "few" /\ tracker' = Upserted(rest, s, v, FALSE)
    <2>choice. PICK b \in BOOLEAN : b = FALSE
      OBVIOUS
    <2>0. PICK entry : entry = [site |-> s, volume |-> v, started |-> b]
      OBVIOUS
    <2>1. /\ tracker' \in Seq(PendingEntries)
          /\ \A i \in DOMAIN tracker' :
                \/ tracker'[i] = entry
                \/ /\ \E j \in DOMAIN rest : tracker'[i] = rest[j]
                   /\ tracker'[i].site # s \/ tracker'[i].volume # v
          /\ \A j \in DOMAIN rest : \/ rest[j].site = s /\ rest[j].volume = v
                                    \/ \E i \in DOMAIN tracker' : tracker'[i] = rest[j]
          /\ \E i \in DOMAIN tracker' : tracker'[i] = entry
      <3>2. rest \in Seq(PendingEntries) /\ v \in Nat /\ tracker' = Upserted(rest, s, v, b)
        BY <2>choice, <1>2, <1>5, <1>11
      <3>3. tracker' \in Seq(PendingEntries)
        BY <2>0, <3>2, UpsertedHolds
      <3>4. \A i \in DOMAIN tracker' :
               \/ tracker'[i] = entry
               \/ /\ \E j \in DOMAIN rest : tracker'[i] = rest[j]
                  /\ tracker'[i].site # s \/ tracker'[i].volume # v
        BY <2>0, <3>2, UpsertedHolds
      <3>5. \A j \in DOMAIN rest : \/ rest[j].site = s /\ rest[j].volume = v
                                 \/ \E i \in DOMAIN tracker' : tracker'[i] = rest[j]
        BY <2>0, <3>2, UpsertedHolds
      <3>6. \E i \in DOMAIN tracker' : tracker'[i] = entry
        BY <2>0, <3>2, UpsertedHolds
      <3> QED BY <3>3, <3>4, <3>5, <3>6
    <2>2. entry.site = s /\ entry.volume = v /\ entry.started = FALSE
      BY <2>0, <2>choice
    <2>3. \A i \in DOMAIN tracker' :
             \/ tracker'[i] = entry
             \/ /\ \E j \in DOMAIN tracker : tracker'[i] = tracker[j]
                /\ tracker'[i].site # s \/ tracker'[i].volume # v
      BY <1>5, <2>1 DEF Within
    <2>4. ListsAgree'
      <3>1. \A i, j \in DOMAIN tracker : SameVolume(tracker[i], tracker[j]) => tracker[i] = tracker[j]
        BY DEF PipelineInv, ListsAgree
      <3>2. \A i, j \in DOMAIN tracker' :
               SameVolume(tracker'[i], tracker'[j]) => tracker'[i] = tracker'[j]
        BY <2>2, <2>3, <3>1 DEF SameVolume
      <3> QED BY <1>3, <1>4, <3>2 DEF ListsAgree, SameVolume
    <2>5. \A i \in DOMAIN tracker' :
             tracker'[i].started => HasChunks(upload', tracker'[i].site, tracker'[i].volume)
      BY <1>4, <2>2, <2>3 DEF PipelineInv, IngestsHaveChunks, HasChunks
    <2>9. NewestIsSeen'
      <3>1. \A i \in DOMAIN tracker' : tracker'[i].volume <= lastSeen'[tracker'[i].site]
        BY <1>2, <1>13, <2>2, <2>3
      <3> QED BY <1>3, <1>4, <1>8, <1>13, <3>1 DEF NewestIsSeen
    <2>6. PipelineInv'
      BY <1>1, <1>4, <1>8, <1>9, <1>13, <2>1, <2>4, <2>5, <2>9
         DEF PipelineInv, PipelineType, IngestsHaveChunks
    <2>7. \A i \in DOMAIN tracker : tracker[i].started => tracker[i].site # s \/ tracker[i].volume # v
      BY <1>11 DEF PipelineInv, IngestsHaveChunks, HasChunks
    <2>8. ASSUME NEW i \in DOMAIN tracker
          PROVE  EntryKept(tracker[i])
      <3>1. CASE tracker[i].site = s /\ tracker[i].volume = v
        <4>1. ~tracker[i].started
          BY <2>7, <3>1
        <4>2. \E j \in DOMAIN tracker' : tracker'[j].site = s /\ tracker'[j].volume = v
          BY <2>1, <2>2
        <4> QED BY <3>1, <4>1, <4>2 DEF EntryKept
      <3>2. CASE tracker[i].site = s /\ tracker[i].volume # v /\ ~tracker[i].started
        BY <1>2, <1>13, <3>2 DEF EntryKept
      <3>3. CASE \E j \in DOMAIN rest :
                    rest[j] = tracker[i] /\ (tracker[i].site # s \/ tracker[i].volume # v)
        <4>1. PICK j \in DOMAIN rest :
                 rest[j] = tracker[i] /\ (rest[j].site # s \/ rest[j].volume # v)
          BY <3>3
        <4>2. \E k \in DOMAIN tracker' : tracker'[k] = tracker[i]
          BY <2>1, <4>1
        <4> QED BY <4>2 DEF EntryKept
      <3> QED BY <1>5, <3>1, <3>2, <3>3
    <2> QED BY <1>8, <2>6, <2>8 DEF StepKeeps
  <1>12. CASE tracker' = rest
    <2>2. NewestIsSeen'
      BY <1>3, <1>4, <1>5, <1>8, <1>12, <1>13 DEF NewestIsSeen, Within
    <2>1. PipelineInv'
      BY <1>1, <1>4, <1>5, <1>7, <1>8, <1>9, <1>12, <1>13, <2>2, ShorterListsAgree
         DEF PipelineInv, PipelineType, IngestsHaveChunks
    <2>3. ASSUME NEW i \in DOMAIN tracker
          PROVE  EntryKept(tracker[i])
      <3>1. CASE tracker[i].site = s /\ tracker[i].volume # v /\ ~tracker[i].started
        BY <1>2, <1>13, <3>1 DEF EntryKept
      <3>2. CASE \E j \in DOMAIN rest : rest[j] = tracker[i]
        BY <1>12, <3>2 DEF EntryKept
      <3> QED BY <1>5, <3>1, <3>2
    <2> QED BY <1>8, <2>1, <2>3 DEF StepKeeps
  <1> QED BY <1>6, <1>10, <1>11, <1>12

\* The end of an ingest takes its volume from the tracker only once it is on disk, and
\* marks it there otherwise.
LEMMA SiteIngestedKeeps ==
    ASSUME PipelineInv, NEW s \in Sites, SiteIngested(s)
    PROVE  PipelineInv' /\ StepKeeps
  <1> DEFINE v == siteTask[s].volume
  <1>1. /\ upload \in [Sites -> Seq({"few", "enough", "all"})]
        /\ tracker \in Seq(PendingEntries) /\ todo \in Seq(PendingEntries)
        /\ siteTask \in [Sites -> [pc: {"done", "discover", "ingest", "complete"}, volume: Nat]]
        /\ lastSeen \in [Sites -> Nat] /\ mishaps \in Nat
    BY DEF PipelineInv, PipelineType
  <1>2. pass = "scan" /\ todo = <<>> /\ siteTask[s].pc = "ingest"
    BY DEF SiteIngested, PipelineInv, OnePassAtATime
  <1>3. UNCHANGED <<upload, todo, pass, lastSeen, mishaps>>
    BY DEF SiteIngested
  <1>4. v \in Nat /\ HasChunks(upload, s, v) /\ v = lastSeen[s]
    BY <1>1, <1>2 DEF PipelineInv, IngestsHaveChunks, NewestIsSeen
  <1>10. siteTask[s].volume = v
    OBVIOUS
  <1>5. \/ v \in local'[s] /\ tracker' = Removed(tracker, s, v)
              /\ siteTask' = [siteTask EXCEPT ![s].pc = "complete"]
        \/ tracker' = Upserted(tracker, s, v, TRUE) /\ siteTask' = [siteTask EXCEPT ![s] = NoTask]
    BY DEF SiteIngested
  <1>6. /\ siteTask' \in [Sites -> [pc: {"done", "discover", "ingest", "complete"}, volume: Nat]]
        /\ \A r \in Sites : siteTask'[r].pc = "ingest" =>
              HasChunks(upload', r, siteTask'[r].volume) /\ siteTask'[r].volume = lastSeen'[r]
        /\ \A r \in Sites : r # s => IngestKept(r)
    <2>1. \A r \in Sites : siteTask[r].pc = "ingest" =>
             HasChunks(upload, r, siteTask[r].volume) /\ siteTask[r].volume = lastSeen[r]
      BY DEF PipelineInv, IngestsHaveChunks, NewestIsSeen
    <2>2. PICK turn \in [pc: {"done", "discover", "ingest", "complete"}, volume: Nat] :
             siteTask' = [siteTask EXCEPT ![s] = turn] /\ turn.pc # "ingest"
      <3>1. [siteTask[s] EXCEPT !.pc = "complete"]
               \in [pc: {"done", "discover", "ingest", "complete"}, volume: Nat]
            /\ [siteTask[s] EXCEPT !.pc = "complete"].pc = "complete"
        BY <1>1
      <3>2. NoTask \in [pc: {"done", "discover", "ingest", "complete"}, volume: Nat] /\ NoTask.pc = "done"
        BY DEF NoTask
      <3> QED BY <1>5, <3>1, <3>2
    <2>3. \A r \in Sites : siteTask'[r] = IF r = s THEN turn ELSE siteTask[r]
      BY <1>1, <2>2
    <2>4. \A r \in Sites : r # s => IngestKept(r)
      BY <2>3 DEF IngestKept
    <2> QED BY <1>1, <1>3, <2>1, <2>2, <2>3, <2>4
  <1> HIDE DEF v
  <1>7. OnePassAtATime'
    BY <1>2, <1>3 DEF OnePassAtATime
  <1>8. CASE v \in local'[s] /\ tracker' = Removed(tracker, s, v)
    <2>1. /\ tracker' \in Seq(PendingEntries) /\ Within(tracker', tracker)
          /\ \A j \in DOMAIN tracker : tracker[j].site # s \/ tracker[j].volume # v =>
                \E i \in DOMAIN tracker' : tracker'[i] = tracker[j]
      BY <1>1, <1>8, RemovedHolds
    <2>2. Within(todo', todo)
      BY <1>3 DEF Within
    <2>4. NewestIsSeen'
      <3>1. NewestIsSeen
        BY DEF PipelineInv
      <3> QED BY <1>3, <1>6, <2>1, <3>1 DEF NewestIsSeen, Within
    <2>3. PipelineInv'
      BY <1>1, <1>3, <1>6, <1>7, <2>1, <2>2, <2>4, ShorterListsAgree
         DEF PipelineInv, PipelineType, IngestsHaveChunks
    <2>5. ASSUME NEW i \in DOMAIN tracker
          PROVE  EntryKept(tracker[i])
      BY <1>8, <2>1 DEF EntryKept
    <2>6. IngestKept(s)
      BY <1>8, <1>10 DEF IngestKept
    <2> QED BY <1>6, <2>3, <2>5, <2>6 DEF StepKeeps
  <1>9. CASE tracker' = Upserted(tracker, s, v, TRUE)
    <2>choice. PICK b \in BOOLEAN : b = TRUE
      OBVIOUS
    <2>0. PICK entry : entry = [site |-> s, volume |-> v, started |-> b]
      OBVIOUS
    <2>1. /\ tracker' \in Seq(PendingEntries)
          /\ \A i \in DOMAIN tracker' :
                \/ tracker'[i] = entry
                \/ /\ \E j \in DOMAIN tracker : tracker'[i] = tracker[j]
                   /\ tracker'[i].site # s \/ tracker'[i].volume # v
          /\ \A j \in DOMAIN tracker : \/ tracker[j].site = s /\ tracker[j].volume = v
                                       \/ \E i \in DOMAIN tracker' : tracker'[i] = tracker[j]
          /\ \E i \in DOMAIN tracker' : tracker'[i] = entry
      <3>2. tracker \in Seq(PendingEntries) /\ v \in Nat /\ tracker' = Upserted(tracker, s, v, b)
        BY <2>choice, <1>1, <1>4, <1>9
      <3>3. tracker' \in Seq(PendingEntries)
        BY <2>0, <3>2, UpsertedHolds
      <3>4. \A i \in DOMAIN tracker' :
               \/ tracker'[i] = entry
               \/ /\ \E j \in DOMAIN tracker : tracker'[i] = tracker[j]
                  /\ tracker'[i].site # s \/ tracker'[i].volume # v
        BY <2>0, <3>2, UpsertedHolds
      <3>5. \A j \in DOMAIN tracker : \/ tracker[j].site = s /\ tracker[j].volume = v
                                 \/ \E i \in DOMAIN tracker' : tracker'[i] = tracker[j]
        BY <2>0, <3>2, UpsertedHolds
      <3>6. \E i \in DOMAIN tracker' : tracker'[i] = entry
        BY <2>0, <3>2, UpsertedHolds
      <3> QED BY <3>3, <3>4, <3>5, <3>6
    <2>2. ASSUME NEW p \in PendingEntries, p.site = s, p.volume = v, p.started PROVE p = entry
      <3>1. p.started \in BOOLEAN /\ p = [site |-> p.site, volume |-> p.volume, started |-> p.started]
        BY DEF PendingEntries
      <3>2. p.started = b
        BY <2>choice, <2>2, <3>1, Zenon
      <3> QED BY <2>0, <2>2, <3>1, <3>2
    <2>3. entry.site = s /\ entry.volume = v
      BY <2>0
    <2>4. ListsAgree'
      <3>1. \A i, j \in DOMAIN tracker : SameVolume(tracker[i], tracker[j]) => tracker[i] = tracker[j]
        BY DEF PipelineInv, ListsAgree
      <3>2. \A i, j \in DOMAIN tracker' :
               SameVolume(tracker'[i], tracker'[j]) => tracker'[i] = tracker'[j]
        <4> SUFFICES ASSUME NEW i \in DOMAIN tracker', NEW j \in DOMAIN tracker',
                            tracker'[i].site = tracker'[j].site,
                            tracker'[i].volume = tracker'[j].volume
                     PROVE  tracker'[i] = tracker'[j]
          BY DEF SameVolume
        <4>1. ASSUME NEW k \in DOMAIN tracker', tracker'[k] # entry
              PROVE  /\ \E l \in DOMAIN tracker : tracker'[k] = tracker[l]
                     /\ tracker'[k].site # entry.site \/ tracker'[k].volume # entry.volume
          BY <2>1, <2>3, <4>1
        <4>2. CASE tracker'[i] = entry \/ tracker'[j] = entry
          BY <4>1, <4>2
        <4>3. CASE tracker'[i] # entry /\ tracker'[j] # entry
          <5>1. PICK k \in DOMAIN tracker : tracker'[i] = tracker[k]
            BY <4>1, <4>3
          <5>2. PICK l \in DOMAIN tracker : tracker'[j] = tracker[l]
            BY <4>1, <4>3
          <5> QED BY <3>1, <5>1, <5>2 DEF SameVolume
        <4> QED BY <4>2, <4>3
      <3> QED BY <1>2, <1>3, <3>2 DEF ListsAgree, SameVolume
    <2>5. \A i \in DOMAIN tracker' :
             tracker'[i].started => HasChunks(upload', tracker'[i].site, tracker'[i].volume)
      BY <1>3, <1>4, <2>1, <2>3 DEF PipelineInv, IngestsHaveChunks, HasChunks
    <2>9. NewestIsSeen'
      <3>1. NewestIsSeen
        BY DEF PipelineInv
      <3>2. \A i \in DOMAIN tracker' : tracker'[i].volume <= lastSeen'[tracker'[i].site]
        <4>1. \A j \in DOMAIN tracker : tracker[j].volume <= lastSeen[tracker[j].site]
          BY <3>1 DEF NewestIsSeen
        <4>2. entry.volume <= lastSeen[entry.site]
          BY <1>1, <1>4, <2>3
        <4>3. ASSUME NEW i \in DOMAIN tracker'
              PROVE  tracker'[i].volume <= lastSeen[tracker'[i].site]
          <5>1. CASE tracker'[i] = entry
            BY <4>2, <5>1
          <5>2. CASE \E j \in DOMAIN tracker : tracker'[i] = tracker[j]
            BY <4>1, <5>2
          <5> QED BY <2>1, <5>1, <5>2
        <4> QED BY <1>3, <4>3
      <3> QED BY <1>3, <1>6, <3>1, <3>2 DEF NewestIsSeen
    <2>6. PipelineInv'
      BY <1>1, <1>3, <1>6, <1>7, <2>1, <2>4, <2>5, <2>9
         DEF PipelineInv, PipelineType, IngestsHaveChunks
    <2>7. \A i \in DOMAIN tracker : tracker[i] \in PendingEntries
      BY <1>1, ElementOfSeq, LenProperties
    <2>8. ASSUME NEW i \in DOMAIN tracker
          PROVE  EntryKept(tracker[i])
      <3>1. CASE tracker[i].site = s /\ tracker[i].volume = v /\ tracker[i].started
        BY <2>1, <2>2, <2>7, <3>1 DEF EntryKept
      <3>2. CASE ~ (tracker[i].site = s /\ tracker[i].volume = v)
        BY <2>1, <3>2 DEF EntryKept
      <3>3. CASE tracker[i].site = s /\ tracker[i].volume = v /\ ~tracker[i].started
        BY <2>1, <2>3, <3>3 DEF EntryKept
      <3> QED BY <3>1, <3>2, <3>3
    <2>10. IngestKept(s)
      <3>1. entry.started
        BY <2>choice, <2>0
      <3> QED BY <1>10, <2>1, <2>3, <3>1 DEF IngestKept
    <2> QED BY <1>6, <2>6, <2>8, <2>10 DEF StepKeeps
  <1> QED BY <1>5, <1>8, <1>9

\* A pending pass takes a volume from the tracker when it is on disk, or when a newer one
\* is there and it has no mark, which is as true now as when the list was made.
LEMMA CheckPendingKeeps ==
    ASSUME PipelineInv, CheckPending
    PROVE  PipelineInv' /\ StepKeeps
  <1> DEFINE p == Head(todo)
  <1>1. /\ upload \in [Sites -> Seq({"few", "enough", "all"})]
        /\ tracker \in Seq(PendingEntries) /\ todo \in Seq(PendingEntries)
        /\ siteTask \in [Sites -> [pc: {"done", "discover", "ingest", "complete"}, volume: Nat]]
        /\ lastSeen \in [Sites -> Nat] /\ mishaps \in Nat
    BY DEF PipelineInv, PipelineType
  <1>2. pass = "pending" /\ todo # <<>> /\ todo' = Tail(todo)
        /\ UNCHANGED <<upload, pass, siteTask, lastSeen, mishaps>>
    BY DEF CheckPending
  <1>3. /\ p = todo[1] /\ 1 \in DOMAIN todo /\ todo' \in Seq(PendingEntries)
        /\ Within(todo', todo)
    <2>1. Len(todo) \in Nat /\ Len(todo) >= 1 /\ DOMAIN todo = 1..Len(todo)
      BY <1>1, <1>2, LenProperties, EmptySeq
    <2>2. todo' \in Seq(PendingEntries) /\ Len(todo') = Len(todo) - 1
          /\ \A i \in 1..Len(todo') : todo'[i] = todo[i + 1]
      BY <1>1, <1>2, HeadTailProperties
    <2>3. DOMAIN todo' = 1..Len(todo')
      BY <2>2, LenProperties
    <2>4. p = todo[1]
      BY <1>1, <1>2, HeadTailProperties
    <2>5. \A i \in DOMAIN todo' : i + 1 \in DOMAIN todo
      BY <2>1, <2>2, <2>3
    <2> QED BY <2>1, <2>2, <2>3, <2>4, <2>5 DEF Within
  <1>4. \/ tracker' = tracker
        \/ /\ tracker' = Removed(tracker, p.site, p.volume)
           /\ \/ ~p.started /\ lastSeen[p.site] # p.volume
              \/ p.volume \in local'[p.site]
    BY DEF CheckPending, Superseded, LocalComplete
  <1>9. /\ p.site \in Sites /\ p.volume \in Nat /\ p.volume <= lastSeen[p.site]
        /\ \A r \in Sites : IngestKept(r)
    <2>1. p \in PendingEntries
      BY <1>1, <1>3, ElementOfSeq, LenProperties
    <2>2. p.volume <= lastSeen[p.site]
      BY <1>3 DEF PipelineInv, NewestIsSeen
    <2> QED BY <1>2, <2>1, <2>2 DEF PendingEntries, IngestKept
  <1>5. \A j \in DOMAIN tracker :
           p.site = tracker[j].site /\ p.volume = tracker[j].volume => p = tracker[j]
    BY <1>3 DEF PipelineInv, ListsAgree, SameVolume
  <1> HIDE DEF p
  <1>6. OnePassAtATime' /\ \A r \in Sites : siteTask'[r].pc = "ingest" => HasChunks(upload', r, siteTask'[r].volume)
    BY <1>2 DEF PipelineInv, OnePassAtATime, IngestsHaveChunks, HasChunks
  <1>10. Within(tracker', tracker) => NewestIsSeen'
    <2>1. NewestIsSeen
      BY DEF PipelineInv
    <2> QED BY <1>2, <1>3, <2>1 DEF NewestIsSeen, Within
  <1>7. CASE tracker' = tracker
    <2>1. Within(tracker', tracker)
      BY <1>7 DEF Within
    <2>2. PipelineInv'
      BY <1>1, <1>2, <1>3, <1>6, <1>7, <1>10, <2>1, ShorterListsAgree
         DEF PipelineInv, PipelineType, IngestsHaveChunks
    <2>3. \A i \in DOMAIN tracker : EntryKept(tracker[i])
      BY <1>7 DEF EntryKept
    <2> QED BY <1>9, <2>2, <2>3 DEF StepKeeps
  <1>8. CASE tracker' = Removed(tracker, p.site, p.volume) /\ 
                 ((~p.started /\ lastSeen[p.site] # p.volume) \/ p.volume \in local'[p.site])
    <2>1. /\ tracker' \in Seq(PendingEntries) /\ Within(tracker', tracker)
          /\ \A j \in DOMAIN tracker : tracker[j].site # p.site \/ tracker[j].volume # p.volume =>
                \E i \in DOMAIN tracker' : tracker'[i] = tracker[j]
      BY <1>1, <1>8, RemovedHolds
    <2>2. PipelineInv'
      BY <1>1, <1>2, <1>3, <1>6, <1>10, <2>1, ShorterListsAgree
         DEF PipelineInv, PipelineType, IngestsHaveChunks
    <2>3. ASSUME NEW i \in DOMAIN tracker
          PROVE  EntryKept(tracker[i])
      <3>1. CASE tracker[i].site = p.site /\ tracker[i].volume = p.volume
        <4>1. p = tracker[i]
          BY <1>5, <3>1
        <4>2. lastSeen[p.site] # p.volume => lastSeen'[p.site] > p.volume
          BY <1>1, <1>2, <1>9
        <4> QED BY <1>8, <4>1, <4>2 DEF EntryKept
      <3>2. CASE tracker[i].site # p.site \/ tracker[i].volume # p.volume
        BY <2>1, <3>2 DEF EntryKept
      <3> QED BY <3>1, <3>2
    <2> QED BY <1>9, <2>2, <2>3 DEF StepKeeps
  <1> QED BY <1>4, <1>7, <1>8

\* The other steps leave the tracker as it is, or start again with an empty one; they end no
\* ingest but one that is cut off.
LEMMA OtherPipelineStepsKeep ==
    ASSUME PipelineInv,
           \/ \E allowed \in SUBSET Sites : StartScan(allowed)
           \/ SkipScan \/ FinishScan \/ StartPending \/ FinishPending \/ PendingFails \/ Restart
           \/ \E s \in Sites :
                \/ NothingDiscovered(s) \/ SiteIngestFails(s) \/ StartsVolume(s)
                \/ \E v \in DOMAIN upload[s] : Uploaded(s, v)
           \/ UNCHANGED pipelineVars
    PROVE  PipelineInv' /\ StepKeeps
  <1>1. /\ upload \in [Sites -> Seq({"few", "enough", "all"})]
        /\ tracker \in Seq(PendingEntries) /\ todo \in Seq(PendingEntries)
        /\ siteTask \in [Sites -> [pc: {"done", "discover", "ingest", "complete"}, volume: Nat]]
        /\ lastSeen \in [Sites -> Nat] /\ mishaps \in Nat
    BY DEF PipelineInv, PipelineType
  <1>2. /\ \A i \in DOMAIN tracker :
              tracker[i].started => HasChunks(upload, tracker[i].site, tracker[i].volume)
        /\ \A s \in Sites : siteTask[s].pc = "ingest" => HasChunks(upload, s, siteTask[s].volume)
        /\ ListsAgree /\ OnePassAtATime /\ NewestIsSeen
    BY DEF PipelineInv, IngestsHaveChunks
  <1>3. <<>> \in Seq(PendingEntries) /\ DOMAIN <<>> = {}
    OBVIOUS
  \* What is uploaded is not taken back.
  <1>4. /\ upload' \in [Sites -> Seq({"few", "enough", "all"})]
        /\ \A s \in Sites, v \in Nat : HasChunks(upload, s, v) => HasChunks(upload', s, v)
        /\ \A s \in Sites : Len(upload[s]) \in Nat /\ Len(upload'[s]) \in Nat
                              /\ Len(upload[s]) <= Len(upload'[s])
    <2>0. \A s \in Sites : upload[s] \in Seq({"few", "enough", "all"}) /\ Len(upload[s]) \in Nat
      BY <1>1, LenProperties
    <2>1. CASE UNCHANGED upload
      BY <1>1, <2>0, <2>1 DEF HasChunks
    <2>2. CASE \E s \in Sites : StartsVolume(s)
      <3>1. PICK s \in Sites : upload' = [upload EXCEPT ![s] = Append(@, "few")]
        BY <2>2 DEF StartsVolume
      <3>2. /\ Append(upload[s], "few") \in Seq({"few", "enough", "all"})
            /\ \A v \in DOMAIN upload[s] : /\ v \in DOMAIN Append(upload[s], "few")
                                           /\ Append(upload[s], "few")[v] = upload[s][v]
            /\ Len(Append(upload[s], "few")) = Len(upload[s]) + 1
        <4>1. upload[s] \in Seq({"few", "enough", "all"})
          BY <1>1
        <4>2. Len(upload[s]) \in Nat /\ DOMAIN upload[s] = 1..Len(upload[s])
          BY <4>1, LenProperties
        <4>3. /\ Append(upload[s], "few") \in Seq({"few", "enough", "all"})
              /\ Len(Append(upload[s], "few")) = Len(upload[s]) + 1
              /\ \A v \in 1..Len(upload[s]) : Append(upload[s], "few")[v] = upload[s][v]
          BY <4>1, AppendProperties
        <4>4. DOMAIN Append(upload[s], "few") = 1..Len(upload[s]) + 1
          BY <4>3, LenProperties
        <4> QED BY <4>2, <4>3, <4>4
      <3>3. \A r \in Sites : upload'[r] = IF r = s THEN Append(upload[s], "few") ELSE upload[r]
        BY <1>1, <3>1
      <3>4. \A r \in Sites : Len(upload'[r]) \in Nat /\ Len(upload[r]) <= Len(upload'[r])
        <4>1. \A r \in Sites : r # s => upload'[r] = upload[r]
          BY <3>3
        <4>2. Len(upload'[s]) = Len(upload[s]) + 1
          BY <3>2, <3>3
        <4>3. Len(upload[s]) \in Nat
          BY <2>0
        <4>4. Len(upload'[s]) \in Nat /\ Len(upload[s]) <= Len(upload'[s])
          BY <4>2, <4>3
        <4>5. ASSUME NEW r \in Sites, r # s
              PROVE  Len(upload'[r]) \in Nat /\ Len(upload[r]) <= Len(upload'[r])
          <5>1. upload'[r] = upload[r] /\ Len(upload[r]) \in Nat
            BY <2>0, <4>1, <4>5
          <5> QED BY <5>1
        <4> QED BY <4>4, <4>5
      <3> QED BY <1>1, <2>0, <3>1, <3>2, <3>4 DEF HasChunks
    <2>3. CASE \E s \in Sites : \E v \in DOMAIN upload[s] : Uploaded(s, v)
      <3>1. PICK s \in Sites : \E v \in DOMAIN upload[s] : Uploaded(s, v)
        BY <2>3
      <3>2. PICK v \in DOMAIN upload[s] :
               upload' = [upload EXCEPT ![s][v] = IF @ = "few" THEN "enough" ELSE "all"]
        BY <3>1 DEF Uploaded
      <3>3. /\ upload[s] \in Seq({"few", "enough", "all"})
            /\ Len(upload[s]) \in Nat /\ DOMAIN upload[s] = 1..Len(upload[s])
        BY <1>1, LenProperties
      <3> DEFINE w == [upload[s] EXCEPT ![v] = IF @ = "few" THEN "enough" ELSE "all"]
      <3>4. w \in [1..Len(upload[s]) -> {"few", "enough", "all"}]
        <4>1. \A k \in 1..Len(upload[s]) : upload[s][k] \in {"few", "enough", "all"}
          BY <3>3, ElementOfSeq
        <4>2. DOMAIN w = 1..Len(upload[s])
          BY <3>3
        <4>3. \A k \in DOMAIN w : w[k] = IF k = v THEN (IF upload[s][v] = "few" THEN "enough" ELSE "all")
                                         ELSE upload[s][k]
          BY <3>3
        <4>4. w = [k \in DOMAIN w |-> w[k]]
          OBVIOUS
        <4> HIDE DEF w
        <4> QED BY <4>1, <4>2, <4>3, <4>4
      <3>5. w \in Seq({"few", "enough", "all"})
        BY <3>3, <3>4, SeqDef
      <3>6. DOMAIN w = DOMAIN upload[s] /\ \A k \in DOMAIN w : upload[s][k] # "few" => w[k] # "few"
        BY <3>3
      <3>7. upload' = [upload EXCEPT ![s] = w]
        BY <3>2
      <3>8. Len(w) = Len(upload[s])
        BY <3>3, <3>5, <3>6, LenProperties
      <3> HIDE DEF w
      <3>9. \A r \in Sites : Len(upload'[r]) = Len(upload[r])
        BY <1>1, <3>7, <3>8
      <3> QED BY <1>1, <2>0, <3>5, <3>6, <3>7, <3>9 DEF HasChunks
    <2> QED BY <2>1, <2>2, <2>3 DEF StartScan, SkipScan, FinishScan, StartPending, FinishPending,
               PendingFails, Restart, NothingDiscovered, SiteIngestFails, pipelineVars
  <1>11. IF Restart THEN lastSeen' = [s \in Sites |-> 0] ELSE UNCHANGED <<tracker, lastSeen>>
    BY DEF StartScan, SkipScan, FinishScan, StartPending, FinishPending, PendingFails, Restart,
           NothingDiscovered, SiteIngestFails, StartsVolume, Uploaded, pipelineVars
  <1>5. /\ siteTask' \in [Sites -> [pc: {"done", "discover", "ingest", "complete"}, volume: Nat]]
        /\ \A s \in Sites : siteTask'[s].pc = "ingest" => siteTask'[s] = siteTask[s]
        /\ mishaps' \in Nat
    <2>1. NoTask \in [pc: {"done", "discover", "ingest", "complete"}, volume: Nat] /\ NoTask.pc = "done"
      BY DEF NoTask
    <2>2. mishaps' = mishaps \/ mishaps' = mishaps + 1
      BY DEF StartScan, SkipScan, FinishScan, StartPending, FinishPending, PendingFails, Restart,
          NothingDiscovered, SiteIngestFails, StartsVolume, Uploaded, pipelineVars, Mishap
    <2>3. CASE \E allowed \in SUBSET Sites : StartScan(allowed)
      <3>1. PICK allowed \in SUBSET Sites :
               siteTask' = [s \in Sites |-> IF s \in allowed THEN [pc |-> "discover", volume |-> 0]
                                            ELSE NoTask]
        BY <2>3 DEF StartScan
      <3>2. [pc |-> "discover", volume |-> 0]
               \in [pc: {"done", "discover", "ingest", "complete"}, volume: Nat]
        OBVIOUS
      <3> QED BY <1>1, <2>1, <2>2, <3>1, <3>2
    <2>4. CASE FinishScan \/ Restart
      <3>1. siteTask' = [s \in Sites |-> NoTask]
        BY <2>4 DEF FinishScan, Restart
      <3> QED BY <1>1, <2>1, <2>2, <3>1
    <2>5. CASE \E s \in Sites : NothingDiscovered(s) \/ SiteIngestFails(s)
      <3>1. PICK s \in Sites : siteTask' = [siteTask EXCEPT ![s] = NoTask]
        BY <2>5 DEF NothingDiscovered, SiteIngestFails
      <3> QED BY <1>1, <2>1, <2>2, <3>1
    <2>6. CASE UNCHANGED siteTask
      BY <1>1, <2>2, <2>6
    <2> QED BY <2>3, <2>4, <2>5, <2>6 DEF SkipScan, StartPending, FinishPending, PendingFails,
               StartsVolume, Uploaded, pipelineVars
  <1>6. OnePassAtATime'
    <2>1. (todo # <<>> => pass = "pending") /\ (pass # "scan" => \A s \in Sites : siteTask[s].pc = "done")
      BY <1>2 DEF OnePassAtATime
    <2>2. CASE \E allowed \in SUBSET Sites : StartScan(allowed)
      <3>1. pass' = "scan" /\ pass = "top" /\ todo' = todo
        BY <2>2 DEF StartScan
      <3> QED BY <2>1, <3>1 DEF OnePassAtATime
    <2>3. CASE FinishScan \/ Restart
      <3>1. siteTask' = [s \in Sites |-> NoTask]
        BY <2>3 DEF FinishScan, Restart
      <3>2. todo' = <<>>
        BY <2>1, <2>3 DEF FinishScan, Restart
      <3> QED BY <3>1, <3>2 DEF OnePassAtATime, NoTask
    <2>4. CASE \E s \in Sites : NothingDiscovered(s) \/ SiteIngestFails(s)
      <3>1. PICK s \in Sites : siteTask[s].pc # "done" /\ UNCHANGED <<pass, todo>>
        BY <2>4 DEF NothingDiscovered, SiteIngestFails
      <3> QED BY <2>1, <3>1 DEF OnePassAtATime
    <2>5. CASE SkipScan \/ StartPending \/ FinishPending
      BY <2>1, <2>5 DEF SkipScan, StartPending, FinishPending, OnePassAtATime
    <2>6. CASE PendingFails
      BY <2>1, <2>6 DEF PendingFails, OnePassAtATime
    <2>7. CASE UNCHANGED <<pass, todo, siteTask>>
      BY <2>1, <2>7 DEF OnePassAtATime
    <2> QED BY <2>2, <2>3, <2>4, <2>5, <2>6, <2>7 DEF StartsVolume, Uploaded, pipelineVars
  <1>7. /\ tracker' = tracker \/ (tracker' = <<>> /\ mishaps' # mishaps)
        /\ todo' \in Seq(PendingEntries)
        /\ todo' = tracker' \/ Within(todo', todo)
    <2>1. CASE StartPending
      BY <1>1, <2>1 DEF StartPending
    <2>2. CASE Restart
      BY <1>1, <1>3, <2>2 DEF Restart, Mishap
    <2>3. CASE PendingFails
      <3>1. todo # <<>> /\ todo' \in {Tail(todo), <<>>} /\ tracker' = tracker
        BY <2>3 DEF PendingFails
      <3>2. Len(todo) \in Nat /\ DOMAIN todo = 1..Len(todo) /\ Len(todo) >= 1
        BY <1>1, <3>1, LenProperties, EmptySeq
      <3>3. Tail(todo) \in Seq(PendingEntries) /\ Len(Tail(todo)) = Len(todo) - 1
            /\ \A i \in 1..Len(Tail(todo)) : Tail(todo)[i] = todo[i + 1]
        BY <1>1, <3>1, HeadTailProperties
      <3>4. DOMAIN Tail(todo) = 1..Len(todo) - 1
        BY <3>3, LenProperties
      <3>5. Within(Tail(todo), todo)
        <4>1. \A i \in DOMAIN Tail(todo) : i + 1 \in DOMAIN todo
          BY <3>2, <3>4
        <4> QED BY <3>3, <3>4, <4>1 DEF Within
      <3>6. Within(<<>>, todo)
        BY <1>3 DEF Within
      <3> QED BY <1>3, <3>1, <3>3, <3>5, <3>6
    <2>4. CASE UNCHANGED <<tracker, todo>>
      BY <1>1, <2>4 DEF Within
    <2> QED BY <2>1, <2>2, <2>3, <2>4 DEF StartScan, SkipScan, FinishScan, FinishPending,
               NothingDiscovered, SiteIngestFails, StartsVolume, Uploaded, pipelineVars
  <1>8. tracker' \in Seq(PendingEntries) /\ Within(tracker', tracker)
    BY <1>1, <1>3, <1>7 DEF Within
  <1>9. ListsAgree'
    <2>1. \A i, j \in DOMAIN tracker : SameVolume(tracker[i], tracker[j]) => tracker[i] = tracker[j]
      BY <1>2 DEF ListsAgree
    <2>2. \A i \in DOMAIN todo, j \in DOMAIN tracker :
             SameVolume(todo[i], tracker[j]) => todo[i] = tracker[j]
      BY <1>2 DEF ListsAgree
    <2>3. \A i, j \in DOMAIN tracker' :
             SameVolume(tracker'[i], tracker'[j]) => tracker'[i] = tracker'[j]
      BY <1>8, <2>1 DEF Within, SameVolume
    <2>4. CASE todo' = tracker'
      BY <2>3, <2>4 DEF ListsAgree, SameVolume
    <2>5. CASE Within(todo', todo)
      BY <1>8, <2>2, <2>3, <2>5 DEF ListsAgree, Within, SameVolume
    <2> QED BY <1>7, <2>4, <2>5
  <1>12. ~Restart => \A s \in Sites : IngestKept(s)
    <2>1. CASE \E allowed \in SUBSET Sites : StartScan(allowed)
      <3>1. \A s \in Sites : siteTask[s].pc = "done"
        BY <1>2, <2>1 DEF StartScan, OnePassAtATime
      <3> QED BY <3>1 DEF IngestKept
    <2>2. CASE FinishScan
      BY <2>2 DEF FinishScan, IngestKept
    <2>3. CASE \E s \in Sites : NothingDiscovered(s) \/ SiteIngestFails(s)
      <3>1. PICK s \in Sites : NothingDiscovered(s) \/ SiteIngestFails(s)
        BY <2>3
      <3>2. siteTask' = [siteTask EXCEPT ![s] = NoTask]
            /\ (siteTask[s].pc = "discover" \/ SiteIngestFails(s))
        BY <3>1 DEF NothingDiscovered, SiteIngestFails
      <3>3. \A r \in Sites : r # s => siteTask'[r] = siteTask[r]
        BY <1>1, <3>2
      <3> QED BY <3>2, <3>3 DEF IngestKept
    <2>4. CASE UNCHANGED siteTask
      BY <2>4 DEF IngestKept
    <2> QED BY <2>1, <2>2, <2>3, <2>4 DEF SkipScan, StartPending, FinishPending, PendingFails,
               StartsVolume, Uploaded, pipelineVars
  <1>13. StepKeeps
    <2>1. ~Restart => \A i \in DOMAIN tracker : EntryKept(tracker[i])
      BY <1>11 DEF EntryKept
    <2> QED BY <1>12, <2>1 DEF StepKeeps
  <1>14. NewestIsSeen' /\ lastSeen' \in [Sites -> Nat]
    <2>1. CASE Restart
      <3>1. /\ tracker' = <<>> /\ todo' = <<>> /\ siteTask' = [s \in Sites |-> NoTask]
            /\ lastSeen' = [s \in Sites |-> 0]
        BY <2>1 DEF Restart
      <3> QED BY <1>3, <1>4, <3>1 DEF NewestIsSeen, NoTask
    <2>2. CASE ~Restart
      <3>1. UNCHANGED <<tracker, lastSeen>>
        BY <1>11, <2>2
      <3>2. \A s \in Sites : lastSeen[s] \in Nat /\ lastSeen[s] <= Len(upload'[s])
        BY <1>1, <1>2, <1>4 DEF NewestIsSeen
      <3>3. \A i \in DOMAIN todo' : todo'[i].volume <= lastSeen[todo'[i].site]
        BY <1>2, <1>7, <3>1 DEF NewestIsSeen, Within
      <3>4. \A s \in Sites : siteTask'[s].pc = "ingest" => siteTask'[s].volume = lastSeen[s]
        BY <1>2, <1>5 DEF NewestIsSeen
      <3> QED BY <1>1, <1>2, <3>1, <3>2, <3>3, <3>4 DEF NewestIsSeen
    <2> QED BY <2>1, <2>2
  <1>10. IngestsHaveChunks'
    <2>1. \A i \in DOMAIN tracker' : /\ tracker'[i].site \in Sites /\ tracker'[i].volume \in Nat
                                     /\ \E j \in DOMAIN tracker : tracker'[i] = tracker[j]
      <3>1. \A i \in DOMAIN tracker' : tracker'[i] \in PendingEntries
        BY <1>8, ElementOfSeq, LenProperties
      <3> QED BY <1>8, <3>1 DEF Within, PendingEntries
    <2>2. \A i \in DOMAIN tracker' :
             tracker'[i].started => HasChunks(upload', tracker'[i].site, tracker'[i].volume)
      BY <1>2, <1>4, <2>1
    <2>3. \A s \in Sites : siteTask'[s].pc = "ingest" => HasChunks(upload', s, siteTask'[s].volume)
      BY <1>1, <1>2, <1>4, <1>5
    <2> QED BY <2>2, <2>3 DEF IngestsHaveChunks
  <1> QED BY <1>4, <1>5, <1>6, <1>7, <1>8, <1>9, <1>10, <1>13, <1>14 DEF PipelineInv, PipelineType

\* The pipeline starts with empty lists.
LEMMA InitPipelineInv == PipelineInit => PipelineInv
  <1> SUFFICES ASSUME PipelineInit PROVE PipelineInv
    OBVIOUS
  <1>1. \A s \in Sites : Len(upload[s]) = 0 /\ lastSeen[s] = 0
    BY DEF PipelineInit
  <1> QED BY <1>1 DEF PipelineInit, PipelineInv, PipelineType, IngestsHaveChunks, ListsAgree,
                      OnePassAtATime, NewestIsSeen, NoTask

\* Every step keeps the invariant, the entries and the ingests.
LEMMA NextPipelineInv ==
    ASSUME PipelineInv, [PipelineNext]_pipelineVars
    PROVE  PipelineInv' /\ StepKeeps
  <1>1. CASE \E s \in Sites : Discover(s)
    BY <1>1, DiscoverKeeps
  <1>2. CASE \E s \in Sites : SiteIngested(s)
    BY <1>2, SiteIngestedKeeps
  <1>3. CASE CheckPending
    BY <1>3, CheckPendingKeeps
  <1> DEFINE Other ==
        \/ \E allowed \in SUBSET Sites : StartScan(allowed)
        \/ SkipScan \/ FinishScan \/ StartPending \/ FinishPending \/ PendingFails \/ Restart
        \/ \E s \in Sites :
             \/ NothingDiscovered(s) \/ SiteIngestFails(s) \/ StartsVolume(s)
             \/ \E v \in DOMAIN upload[s] : Uploaded(s, v)
        \/ UNCHANGED pipelineVars
  <1>4. CASE Other
    BY <1>4, OtherPipelineStepsKeep
  <1> QED BY <1>1, <1>2, <1>3, <1>4 DEF PipelineNext, LoopStep, SiteStep

\* However scans and pending passes follow one another and whatever fails in them, a marked
\* volume leaves the tracker only when its elevations are on disk, a scan's ingest that is not
\* cut off ends with its volume on disk or marked, and a volume without the mark goes from
\* the tracker only when it is on disk or a newer one was found (scan_for_new_volumes_once,
\* check_pending_once).
THEOREM VolumesInHandAreAccountedFor == PipelineSpec => InHandIsAccountedFor
  <1> DEFINE Kept == \A s \in Sites : \A v \in DOMAIN upload[s] :
                        Tracked(s, v) \/ Ingesting(s, v) => AccountedFor(s, v)
  <1>1. PipelineInv /\ [PipelineNext]_pipelineVars => PipelineInv' /\ Kept
    BY NextPipelineInv, KeptIsAccountedFor
  <1>2. InHandIsAccountedFor <=> [][Kept]_pipelineVars
    BY DEF InHandIsAccountedFor
  <1> HIDE DEF Kept
  <1>3. PipelineSpec => [][Kept]_pipelineVars
    BY <1>1, InitPipelineInv, PTL DEF PipelineSpec
  <1> QED BY <1>2, <1>3

-----------------------------------------------------------------------------
(***************************************************************************)
(* The stream of a volume (NexradStream).  Unless a parse is abandoned, a  *)
(* rewrite torn or an ingest cut short, the runtime file, with what a      *)
(* rewrite under way has still to write back, is the header and an         *)
(* unbroken run of chunks that begins with the first of a group; what was  *)
(* cut off in front of it has been exported.                               *)
(***************************************************************************)
Undisturbed == ~Had(Unguarded)

\* The first and the last chunk of the group of one.
FirstOf(c) == Min(ChunksOf(GroupOf[c]))
LastOf(c) == Max(ChunksOf(GroupOf[c]))

\* The file has the header and the chunks from the k-th to the n-th.
HoldsRun(f, k, n) ==
    /\ k \in 1..(n + 1)
    /\ k \in Chunks => IsFirst(k)
    /\ f = [i \in 1..(n - k + 2) |-> IF i = 1 THEN Header ELSE k + i - 2]

\* Of its elevation there is an artifact at least as late.
Exported(angle, at) == \E x \in exported : x.angle = angle /\ x.at >= at

ExportedBefore(k) ==
    \A c \in Chunks : c < k => Exported(AngleOf[GroupOf[c]], LastOf(c))
SeenIsExported(seen) == \A s \in seen : s.at \in Chunks /\ Exported(s.angle, s.at)

\* Everything up to the n-th chunk is in the file, or exported.
FileIsSound(f, n) ==
    \E k \in 1..(n + 1) : HoldsRun(f, k, n) /\ ExportedBefore(k)

\* The file as it is when the rewrite of a parse has ended.
Mended(job) == IF job.stage = "rewriting" THEN file \o job.rest ELSE file

FaultKinds ==
    {"gap", "boundary", "cancel", "crash", "timeout", "torn", "broken", "error", "pruned"}
Pcs == {"idle", "fetch", "parse", "split"}
JobFields == {"awaited", "stage", "view", "seen", "groups", "rest", "at", "size"}

StreamType ==
    /\ remote \in MinChunks..Len(GroupOf)
    /\ faults \in Seq(FaultKinds)
    /\ DOMAIN task = DOMAIN Idle /\ task.pc \in Pcs

\* No artifact is torn.
ExportsAreWhole == exported \subseteq [angle: Angles, at: Chunks, whole: {TRUE}]

\* Between two ingests the state says what the file holds.
StateIsSound ==
    task.pc = "idle" /\ ~done =>
        \/ file = NoFile /\ saved = NoState
        \/ \E n \in 1..remote :
             FileIsSound(file, n) /\ saved.keys = 1..n /\ SeenIsExported(saved.seen)

\* An ingest has fetched the first n chunks, in order, and writes at the end of
\* the file when it is its turn.
Fetched(n) ==
    /\ task.keys = 1..n
    /\ \E m \in 1..remote : n <= m /\ task.todo = [i \in 1..(m - n) |-> n + i]
    /\ IF n = 0 THEN task.pc = "fetch" /\ task.pos = 0 /\ file = <<>>
       ELSE task.pos \in Nat \ {0}
    /\ task.pc = "fetch" /\ n # 0 => FileIsSound(file, n)
    /\ \A job \in jobs : FileIsSound(Mended(job), n)

IngestIsSound ==
    task.pc # "idle" =>
        /\ task.pc # "split" /\ task.after = <<>>
        /\ task.pc = "fetch" => Offset = Len(file)
        /\ SeenIsExported(task.seen)
        /\ \E n \in 0..remote : Fetched(n)

\* A parse by its stage; whoever is next to write finds the end of the file.
StageIsSound(job) ==
    \/ job.stage = "queued" /\ job.size = Untrimmed /\ Offset = Len(file)
    \/ job.stage = "read" /\ job.size = Untrimmed /\ job.view = file /\ Offset = Len(file)
    \/ /\ job.stage = "written" /\ job.size = Untrimmed /\ job.view = file /\ Offset = Len(file)
       /\ \A g \in VisibleGroups(file) : Exported(g.angle, g.at)
    \/ /\ job.stage = "rewriting" /\ job.size = Untrimmed
       /\ file \in Seq(Int) /\ job.rest \in Seq(Int) /\ job.at = Len(file)
    \/ job.stage = "done" /\ job.size = Untrimmed /\ Offset = Len(file)
    \/ job.stage = "done" /\ job.size # Untrimmed /\ job.size = Len(file)

JobIsSound(job) ==
    /\ DOMAIN job = JobFields /\ job.awaited = TRUE /\ job.seen = task.seen
    /\ job.stage \notin {"rewriting", "done"} => job.at = 0
    /\ \A g \in job.groups : g.at \in Chunks /\ Exported(g.angle, g.at)
    /\ StageIsSound(job)

\* The only parse is the one the ingest waits for.
ParseIsOwned ==
    /\ task.pc # "parse" => jobs = {}
    /\ task.pc = "parse" => \E job \in jobs : jobs = {job} /\ JobIsSound(job)

\* A complete volume is left alone.
DoneIsComplete ==
    done => task.pc = "idle" /\ \A a \in Angles : \E x \in exported : x.angle = a

StreamIsSound ==
    ExportsAreWhole /\ StateIsSound /\ IngestIsSound /\ ParseIsOwned /\ DoneIsComplete

StreamInv == StreamType /\ (Undisturbed => StreamIsSound)

LEMMA MaxIs ==
    ASSUME NEW S, S \subseteq Int, NEW m \in S, \A x \in S : x <= m
    PROVE  Max(S) = m
  <1>1. \A x \in S : m >= x
    OBVIOUS
  <1>2. PICK n : n = Max(S)
    OBVIOUS
  <1>3. n \in S /\ \A y \in S : n >= y
    BY <1>1, <1>2 DEF Max
  <1>4. n \in Int /\ m \in Int /\ n >= m /\ m >= n
    BY <1>1, <1>3
  <1> QED BY <1>2, <1>4

LEMMA MinIs ==
    ASSUME NEW S, S \subseteq Int, NEW m \in S, \A x \in S : m <= x
    PROVE  Min(S) = m
  <1>1. PICK n : n = Min(S)
    OBVIOUS
  <1>2. n \in S /\ \A y \in S : n =< y
    BY <1>1 DEF Min
  <1>3. n \in Int /\ m \in Int /\ n <= m /\ m <= n
    BY <1>2
  <1> QED BY <1>1, <1>3

\* The chunks of a group are those from its first to its last.
LEMMA GroupIsARun ==
    ASSUME NEW c \in Chunks
    PROVE  /\ Chunks = 1..Len(GroupOf) /\ Len(GroupOf) \in Nat
           /\ GroupOf[c] \in DOMAIN AngleOf /\ AngleOf[GroupOf[c]] \in Angles
           /\ FirstOf(c) \in 1..c /\ LastOf(c) \in c..Len(GroupOf)
           /\ ChunksOf(GroupOf[c]) = FirstOf(c)..LastOf(c)
  <1>1. GroupOf \in Seq(DOMAIN AngleOf)
    BY GroupsAreRuns
  <1>2. /\ Chunks = 1..Len(GroupOf) /\ Len(GroupOf) \in Nat
        /\ GroupOf[c] \in DOMAIN AngleOf
    BY <1>1, LenProperties, ElementOfSeq DEF Chunks
  <1>0. PICK S : S = ChunksOf(GroupOf[c])
    OBVIOUS
  <1>3. /\ S \subseteq 1..Len(GroupOf) /\ c \in S /\ S \subseteq Nat /\ S \subseteq Int
        /\ \A d \in S : d \in Chunks /\ GroupOf[d] = GroupOf[c]
    BY <1>0, <1>2 DEF ChunksOf
  <1>4. PICK last : last = LastOf(c) /\ last \in S /\ \A d \in S : d <= last
    <2>1. IsFiniteSet(1..Len(GroupOf))
      BY <1>2, FS_Interval
    <2>2. IsFiniteSet(S)
      BY <1>3, <2>1, FS_Subset
    <2> QED BY <1>0, <1>3, <2>2, MaxOfFinite DEF LastOf
  <1>5. PICK first : first = FirstOf(c) /\ first \in S /\ \A d \in S : first <= d
    <2>1. PICK m \in S : \A d \in S : m <= d
      BY <1>3, LeastNumber
    <2>2. Min(S) = m
      BY <1>3, <2>1, MinIs
    <2> QED BY <1>0, <2>1, <2>2 DEF FirstOf
  <1>6. ASSUME NEW d \in first..last PROVE d \in S
    <2>1. d \in Chunks /\ first <= d /\ d <= last
      BY <1>2, <1>3, <1>4, <1>5
    <2>2. first \in Chunks /\ last \in Chunks /\ GroupOf[first] = GroupOf[c] /\ GroupOf[last] = GroupOf[c]
      BY <1>3, <1>4, <1>5
    <2>3. GroupOf[d] = GroupOf[c]
      BY <2>1, <2>2, GroupsAreRuns DEF Chunks
    <2> QED BY <1>0, <2>1, <2>3 DEF ChunksOf
  <1>7. first \in 1..c /\ last \in c..Len(GroupOf)
    BY <1>2, <1>3, <1>4, <1>5
  <1>8. S = first..last
    <2>1. \A d \in S : d \in first..last
      BY <1>3, <1>4, <1>5
    <2> QED BY <1>6, <2>1
  <1>9. AngleOf[GroupOf[c]] \in Angles
    BY <1>2 DEF Angles
  <1> QED BY <1>0, <1>2, <1>4, <1>5, <1>7, <1>8, <1>9

\* Two groups do not overlap, and one begins behind the last chunk of another.
LEMMA GroupsFollow ==
    ASSUME NEW c \in Chunks, NEW d \in Chunks
    PROVE  /\ GroupOf[d] = GroupOf[c] <=> FirstOf(c) <= d /\ d <= LastOf(c)
           /\ GroupOf[d] = GroupOf[c] => FirstOf(d) = FirstOf(c) /\ LastOf(d) = LastOf(c)
           /\ IsFirst(d) <=> d = FirstOf(d)
           /\ IsLast(d) <=> d = LastOf(d)
           /\ IsFirst(1)
           /\ IsFirst(FirstOf(c)) /\ IsLast(LastOf(c))
           /\ IsFirst(d) /\ d <= c => d <= FirstOf(c)
           /\ IsLast(c) /\ d = c + 1 => IsFirst(d)
           /\ c <= d /\ d <= LastOf(c) => GroupOf[d] = GroupOf[c]
  <1>1. /\ Chunks = 1..Len(GroupOf) /\ Len(GroupOf) \in Nat
        /\ \A e \in Chunks : /\ FirstOf(e) \in 1..e /\ LastOf(e) \in e..Len(GroupOf)
                             /\ ChunksOf(GroupOf[e]) = FirstOf(e)..LastOf(e)
    BY GroupIsARun
  <1>2. \A e, h \in Chunks : GroupOf[h] = GroupOf[e] <=> FirstOf(e) <= h /\ h <= LastOf(e)
    <2> TAKE e, h \in Chunks
    <2>1. GroupOf[h] = GroupOf[e] <=> h \in ChunksOf(GroupOf[e])
      BY DEF ChunksOf
    <2>2. PICK m, l \in Nat : m = FirstOf(e) /\ l = LastOf(e)
      BY <1>1
    <2>3. ChunksOf(GroupOf[e]) = m..l /\ h \in Nat
      BY <1>1, <2>2
    <2> QED BY <2>1, <2>2, <2>3
  <1>3. \A e \in Chunks : (IsFirst(e) <=> e = FirstOf(e)) /\ (IsLast(e) <=> e = LastOf(e))
    BY DEF IsFirst, IsLast, FirstOf, LastOf
  <1>4. \A e, h \in Chunks : GroupOf[h] = GroupOf[e] => FirstOf(h) = FirstOf(e) /\ LastOf(h) = LastOf(e)
    BY DEF FirstOf, LastOf
  <1>5. IsFirst(1)
    <2>1. 1 \in Chunks
      BY <1>1
    <2>2. FirstOf(1) \in 1..1
      BY <1>1, <2>1
    <2> QED BY <1>3, <2>1, <2>2
  <1>6. IsFirst(FirstOf(c)) /\ IsLast(LastOf(c))
    <2>1. PICK m : m = FirstOf(c)
      OBVIOUS
    <2>2. PICK l : l = LastOf(c)
      OBVIOUS
    <2>3. m \in Chunks /\ l \in Chunks /\ m <= l
      BY <1>1, <2>1, <2>2, SMTT(30)
    <2>4. GroupOf[m] = GroupOf[c] /\ GroupOf[l] = GroupOf[c]
      <3>1. m \in Nat /\ l \in Nat
        BY <1>1, <2>3
      <3>2. FirstOf(c) <= m /\ m <= LastOf(c) /\ FirstOf(c) <= l /\ l <= LastOf(c)
        BY <2>1, <2>2, <2>3, <3>1
      <3> QED BY <1>2, <2>3, <3>2
    <2>5. FirstOf(m) = m /\ LastOf(l) = l
      BY <1>4, <2>1, <2>2, <2>3, <2>4
    <2> QED BY <1>3, <2>1, <2>2, <2>3, <2>5
  <1>7. IsFirst(d) /\ d <= c => d <= FirstOf(c)
    <2> SUFFICES ASSUME IsFirst(d), d <= c, ~(d <= FirstOf(c)) PROVE FALSE
      OBVIOUS
    <2>1. FirstOf(c) <= d /\ d <= LastOf(c)
      BY <1>1, SMTT(30)
    <2>2. GroupOf[d] = GroupOf[c]
      BY <1>2, <2>1
    <2>3. d = FirstOf(d) /\ FirstOf(d) = FirstOf(c)
      BY <1>3, <1>4, <2>2
    <2> QED BY <1>1, <2>3
  <1>8. IsLast(c) /\ d = c + 1 => IsFirst(d)
    <2> SUFFICES ASSUME IsLast(c), d = c + 1, ~IsFirst(d) PROVE FALSE
      OBVIOUS
    <2>1. FirstOf(d) # d /\ LastOf(c) = c
      BY <1>3
    <2>2. FirstOf(d) <= c /\ c <= LastOf(d)
      BY <1>1, <2>1
    <2>3. GroupOf[c] = GroupOf[d]
      BY <1>2, <2>2
    <2>4. LastOf(d) = c /\ LastOf(d) \in d..Len(GroupOf)
      BY <1>1, <1>4, <2>1, <2>3
    <2> QED BY <1>1, <2>4
  <1>9. c <= d /\ d <= LastOf(c) => GroupOf[d] = GroupOf[c]
    BY <1>1, <1>2
  <1> QED BY <1>2, <1>3, <1>4, <1>5, <1>6, <1>7, <1>8, <1>9

\* Nothing of such a file is damaged.
LEMMA RunIsClean ==
    ASSUME NEW f, NEW n \in 0..Len(GroupOf), NEW k, HoldsRun(f, k, n)
    PROVE  /\ f \in Seq(Int) /\ Len(f) = n - k + 2 /\ DOMAIN f = 1..(n - k + 2)
           /\ n - k + 2 \in Nat \ {0} /\ f[1] = Header /\ f # <<>> /\ CleanLen(f) = Len(f)
           /\ k \in 1..(n + 1) /\ Chunks = 1..Len(GroupOf) /\ Len(GroupOf) \in Nat
           /\ \A i \in 2..(n - k + 2) : f[i] = k + i - 2 /\ f[i] \in Chunks /\ f[i] \in k..n
  <1>1. GroupOf \in Seq(DOMAIN AngleOf)
    BY GroupsAreRuns
  <1>2. Chunks = 1..Len(GroupOf) /\ Len(GroupOf) \in Nat
    BY <1>1, LenProperties DEF Chunks
  <1>3. k \in 1..(n + 1) /\ f = [i \in 1..(n - k + 2) |-> IF i = 1 THEN Header ELSE k + i - 2]
    BY DEF HoldsRun
  <1>4. n - k + 2 \in Nat \ {0}
    BY <1>2, <1>3
  <1>5. \A i \in 1..(n - k + 2) : f[i] \in Int /\ f[i] # Garbage
    BY <1>2, <1>3 DEF Header, Garbage
  <1>6. f \in Seq(Int) /\ Len(f) = n - k + 2 /\ DOMAIN f = 1..(n - k + 2)
    <2>1. f \in [1..(n - k + 2) -> Int]
      BY <1>3, <1>5
    <2>2. f \in Seq(Int)
      BY <1>4, <2>1, SeqDef
    <2> QED BY <1>4, <2>1, <2>2, LenProperties
  <1>7. f[1] = Header /\ f # <<>>
    BY <1>3, <1>4, <1>6, SMTT(30)
  <1>8. CleanLen(f) = Len(f)
    <2>1. {m \in 1..Len(f) : \A i \in 1..m : f[i] # Garbage} = 1..Len(f)
      BY <1>4, <1>5, <1>6
    <2>2. Max(1..Len(f)) = Len(f)
      <3>1. 1..Len(f) \subseteq Int /\ Len(f) \in 1..Len(f) /\ \A x \in 1..Len(f) : x <= Len(f)
        BY <1>4, <1>6
      <3> QED BY <3>1, MaxIs
    <2> QED BY <1>7, <2>1, <2>2 DEF CleanLen
  <1>9. \A i \in 2..(n - k + 2) : f[i] = k + i - 2 /\ f[i] \in Chunks /\ f[i] \in k..n
    BY <1>2, <1>3, <1>4
  <1> QED BY <1>2, <1>3, <1>4, <1>6, <1>7, <1>8, <1>9

\* A parse of it sees each finished group whole.
LEMMA GroupsOfRun ==
    ASSUME NEW f, NEW n \in 0..Len(GroupOf), NEW k, HoldsRun(f, k, n),
           NEW j \in 2..(n - k + 2)
    PROVE  /\ f[j] = k + j - 2 /\ f[j] \in Chunks /\ f[j] \in k..n
           /\ Begin(f, j) = FirstOf(f[j]) - k + 2 /\ Begin(f, j) \in 2..j
           /\ GroupAt(f, j).angle = AngleOf[GroupOf[f[j]]] /\ GroupAt(f, j).at = f[j]
           /\ GroupAt(f, j).range = Begin(f, j)..j
           /\ IsLast(f[j]) => GroupAt(f, j).whole = TRUE
  <1> DEFINE c == k + j - 2
  <1>0. /\ n - k + 2 \in Nat \ {0} /\ k \in 1..(n + 1) /\ Chunks = 1..Len(GroupOf) /\ Len(GroupOf) \in Nat
        /\ \A i \in 2..(n - k + 2) : f[i] = k + i - 2 /\ f[i] \in Chunks /\ f[i] \in k..n
    BY RunIsClean
  <1>1. c \in Chunks /\ c \in k..n /\ f[j] = c
    BY <1>0
  <1> HIDE DEF c
  <1>2. IsFirst(k)
    <2>1. k \in Chunks
      BY <1>0, <1>1
    <2> QED BY <2>1 DEF HoldsRun
  <1>3. PICK first : first = FirstOf(c)
    OBVIOUS
  <1>4. first \in k..c /\ first \in Chunks /\ IsFirst(first)
    <2>1. k \in Chunks /\ k <= c
      BY <1>0, <1>1
    <2>2. k <= first /\ IsFirst(first)
      BY <1>1, <1>2, <1>3, <2>1, GroupsFollow
    <2>3. first \in 1..c
      BY <1>1, <1>3, GroupIsARun
    <2> QED BY <1>0, <1>1, <2>2, <2>3
  <1>5. \A i \in 2..(n - k + 2) : StartsAt(f, i) <=> IsFirst(f[i])
    <2> SUFFICES ASSUME NEW i \in 2..(n - k + 2) PROVE StartsAt(f, i) <=> IsFirst(f[i])
      OBVIOUS
    <2>1. CASE i = 2
      <3>1. f[i] = k
        BY <1>0, <2>1
      <3> QED BY <1>2, <2>1, <3>1 DEF StartsAt
    <2>2. CASE i # 2
      <3>1. i - 1 \in 2..(n - k + 2)
        BY <1>0, <2>2
      <3>2. f[i] \in Chunks /\ f[i - 1] \in Chunks /\ f[i] = f[i - 1] + 1 /\ i > 1
        BY <1>0, <3>1
      <3>3. IsLast(f[i - 1]) => IsFirst(f[i])
        BY <3>2, GroupsFollow
      <3> QED BY <2>2, <3>2, <3>3 DEF StartsAt
    <2> QED BY <2>1, <2>2
  <1>6. Begin(f, j) = first - k + 2
    <2> DEFINE S == {i \in 2..j : StartsAt(f, i)}
               b == first - k + 2
    <2>1. b \in 2..j /\ b \in 2..(n - k + 2) /\ f[b] = first
      BY <1>0, <1>1, <1>4
    <2>2. b \in S
      BY <1>4, <1>5, <2>1
    <2>3. ASSUME NEW i \in S PROVE i <= b
      <3>1. i \in 2..(n - k + 2) /\ i <= j /\ i \in 2..j
        BY <1>0
      <3>2. IsFirst(f[i]) /\ f[i] \in Chunks /\ f[i] <= c /\ f[i] = k + i - 2
        BY <1>0, <1>1, <1>5, <3>1
      <3>3. f[i] <= first
        BY <1>1, <1>3, <3>2, GroupsFollow
      <3> QED BY <1>0, <1>4, <3>1, <3>2, <3>3
    <2>4. S \subseteq Int
      OBVIOUS
    <2> HIDE DEF b
    <2>5. Max(S) = b
      BY <2>2, <2>3, <2>4, MaxIs
    <2> QED BY <2>5 DEF Begin, b
  <1>7. Begin(f, j) \in 2..j
    BY <1>0, <1>1, <1>4, <1>6
  <1>8. f[Begin(f, j)] = first
    <2>1. Begin(f, j) \in 2..(n - k + 2)
      BY <1>0, <1>7
    <2> QED BY <1>0, <1>4, <1>6, <2>1
  <1>9. GroupOf[first] = GroupOf[c]
    <2>1. first <= LastOf(c)
      <3>1. LastOf(c) \in c..Len(GroupOf)
        BY <1>1, GroupIsARun
      <3> QED BY <1>0, <1>1, <1>4, <3>1
    <2> QED BY <1>1, <1>3, <1>4, <2>1, GroupsFollow
  <1>10. IsLast(c) => {f[i] : i \in Begin(f, j)..j} = ChunksOf(GroupOf[f[j]])
    <2> SUFFICES ASSUME IsLast(c) PROVE {f[i] : i \in Begin(f, j)..j} = ChunksOf(GroupOf[c])
      BY <1>1
    <2>1. ChunksOf(GroupOf[c]) = first..c
      BY <1>1, <1>3, GroupIsARun, GroupsFollow
    <2>2. \A i \in Begin(f, j)..j : f[i] = k + i - 2
      BY <1>0, <1>7
    <2>3. \A i \in Begin(f, j)..j : f[i] \in first..c
      BY <1>0, <1>1, <1>4, <1>6, <2>2
    <2>4. ASSUME NEW d \in first..c PROVE d \in {f[i] : i \in Begin(f, j)..j}
      <3>1. d - k + 2 \in Begin(f, j)..j
        BY <1>0, <1>1, <1>4, <1>6
      <3>2. f[d - k + 2] = d
        BY <1>0, <1>4, <2>2, <3>1
      <3> QED BY <3>1, <3>2
    <2> QED BY <2>1, <2>3, <2>4
  <1> QED BY <1>1, <1>3, <1>6, <1>7, <1>8, <1>9, <1>10 DEF GroupAt, c

\* The groups a parse sees in it are those that end in it.
LEMMA VisibleInRun ==
    ASSUME NEW f, NEW n \in 0..Len(GroupOf), NEW k, HoldsRun(f, k, n)
    PROVE  /\ \A g \in VisibleGroups(f) :
                /\ g.angle \in Angles /\ g.at \in Chunks /\ g.whole = TRUE
           /\ \A c \in Chunks : k <= c /\ LastOf(c) <= n =>
                \E g \in VisibleGroups(f) : g.angle = AngleOf[GroupOf[c]] /\ g.at = LastOf(c)
           /\ \A i \in 1..(n - k + 2) :
                i \in UNION {g.range : g \in VisibleGroups(f)} <=>
                   i > 1 /\ LastOf(k + i - 2) <= n
  <1>0. /\ n - k + 2 \in Nat \ {0} /\ k \in 1..(n + 1) /\ Chunks = 1..Len(GroupOf) /\ Len(GroupOf) \in Nat
        /\ CleanLen(f) = n - k + 2
    BY RunIsClean
  <1>1. VisibleGroups(f) = {GroupAt(f, j) : j \in {i \in 2..(n - k + 2) : IsLast(f[i])}}
    BY <1>0 DEF VisibleGroups
  <1>2. ASSUME NEW j \in 2..(n - k + 2)
        PROVE  /\ f[j] = k + j - 2 /\ f[j] \in Chunks /\ f[j] \in k..n
               /\ Begin(f, j) = FirstOf(f[j]) - k + 2 /\ Begin(f, j) \in 2..j
               /\ GroupAt(f, j).angle = AngleOf[GroupOf[f[j]]] /\ GroupAt(f, j).at = f[j]
               /\ GroupAt(f, j).range = Begin(f, j)..j
               /\ IsLast(f[j]) => GroupAt(f, j).whole = TRUE
    BY GroupsOfRun
  <1>3. ASSUME NEW g \in VisibleGroups(f)
        PROVE  g.angle \in Angles /\ g.at \in Chunks /\ g.whole = TRUE
    <2>1. PICK j \in 2..(n - k + 2) : IsLast(f[j]) /\ g = GroupAt(f, j)
      BY <1>1
    <2>2. PICK c : c = k + j - 2
      OBVIOUS
    <2>3. c \in Chunks /\ f[j] = c /\ g.angle = AngleOf[GroupOf[c]] /\ g.at = c /\ (IsLast(c) => g.whole = TRUE)
      BY <1>2, <2>1, <2>2
    <2>4. AngleOf[GroupOf[c]] \in Angles
      BY <2>3, GroupIsARun
    <2> QED BY <2>1, <2>3, <2>4
  \* The last chunk of a group that ends in the file stands for it.
  <1>4. ASSUME NEW c \in Chunks, k <= c, LastOf(c) <= n
        PROVE  \E j \in 2..(n - k + 2) :
                 /\ GroupAt(f, j) \in VisibleGroups(f)
                 /\ GroupAt(f, j).angle = AngleOf[GroupOf[c]] /\ GroupAt(f, j).at = LastOf(c)
                 /\ GroupAt(f, j).range = (FirstOf(c) - k + 2)..(LastOf(c) - k + 2)
    <2>1. PICK l : l = LastOf(c)
      OBVIOUS
    <2>2. l \in c..Len(GroupOf) /\ l <= n
      BY <1>4, <2>1, GroupIsARun
    <2>3. l \in Chunks /\ c \in Nat
      BY <1>0, <2>2
    <2>4. GroupOf[l] = GroupOf[c] /\ IsLast(l)
      BY <2>1, <2>2, <2>3, GroupsFollow
    <2>5. FirstOf(l) = FirstOf(c)
      BY <2>3, <2>4, GroupsFollow
    <2>6. PICK j : j = l - k + 2
      OBVIOUS
    <2>7. j \in 2..(n - k + 2) /\ l = k + j - 2
      BY <1>0, <1>4, <2>2, <2>3, <2>6
    <2>8. /\ f[j] = l /\ GroupAt(f, j).angle = AngleOf[GroupOf[l]] /\ GroupAt(f, j).at = l
          /\ GroupAt(f, j).range = (FirstOf(l) - k + 2)..j
      BY <1>2, <2>7
    <2>9. GroupAt(f, j) \in VisibleGroups(f)
      BY <1>1, <2>4, <2>7, <2>8
    <2> QED BY <2>1, <2>4, <2>5, <2>6, <2>7, <2>8, <2>9
  <1>5. ASSUME NEW c \in Chunks, k <= c, LastOf(c) <= n
        PROVE  \E g \in VisibleGroups(f) : g.angle = AngleOf[GroupOf[c]] /\ g.at = LastOf(c)
    BY <1>4, <1>5
  <1>6. ASSUME NEW i \in 1..(n - k + 2), i > 1, LastOf(k + i - 2) <= n
        PROVE  i \in UNION {g.range : g \in VisibleGroups(f)}
    <2>1. PICK c : c = k + i - 2
      OBVIOUS
    <2>2. i \in 2..(n - k + 2) /\ c \in Nat /\ k <= c /\ i = c - k + 2
      BY <1>0, <1>6, <2>1
    <2>3. c \in Chunks /\ LastOf(c) <= n
      BY <1>2, <1>6, <2>1, <2>2
    <2>4. PICK j \in 2..(n - k + 2) :
            /\ GroupAt(f, j) \in VisibleGroups(f)
            /\ GroupAt(f, j).range = (FirstOf(c) - k + 2)..(LastOf(c) - k + 2)
      BY <1>4, <2>2, <2>3
    <2>5. FirstOf(c) \in 1..c /\ LastOf(c) \in c..Len(GroupOf)
      BY <2>3, GroupIsARun
    <2>6. i \in (FirstOf(c) - k + 2)..(LastOf(c) - k + 2)
      BY <1>0, <2>2, <2>5
    <2> QED BY <2>4, <2>6
  <1>7. ASSUME NEW i \in 1..(n - k + 2), i \in UNION {g.range : g \in VisibleGroups(f)}
        PROVE  i > 1 /\ LastOf(k + i - 2) <= n
    <2>1. PICK j \in 2..(n - k + 2) : IsLast(f[j]) /\ i \in GroupAt(f, j).range
      BY <1>1, <1>7
    <2>2. PICK l : l = k + j - 2
      OBVIOUS
    <2>3. /\ l \in Chunks /\ l \in k..n /\ f[j] = l
          /\ Begin(f, j) = FirstOf(l) - k + 2 /\ Begin(f, j) \in 2..j
          /\ GroupAt(f, j).range = Begin(f, j)..j
      BY <1>2, <2>2
    <2>4. i \in Begin(f, j)..j
      BY <2>1, <2>3
    <2>5. i \in 2..j /\ i \in 2..(n - k + 2)
      BY <1>0, <2>3, <2>4
    <2>6. PICK c : c = k + i - 2
      OBVIOUS
    <2>7. c \in Chunks
      BY <1>2, <2>5, <2>6
    <2>8. FirstOf(l) \in 1..l
      BY <2>3, GroupIsARun
    <2>9. FirstOf(l) <= c /\ c <= l /\ LastOf(l) = l
      <3>1. LastOf(l) = l
        BY <2>1, <2>3, GroupsFollow
      <3>2. Begin(f, j) <= i /\ i <= j /\ Begin(f, j) = FirstOf(l) - k + 2 /\ l = k + j - 2
        BY <1>0, <2>2, <2>3, <2>4, <2>5
      <3>3. FirstOf(l) \in Int /\ k \in Int /\ i \in Int /\ j \in Int
        BY <1>0, <2>1, <2>5, <2>8
      <3> QED BY <2>6, <3>1, <3>2, <3>3
    <2>10. GroupOf[c] = GroupOf[l]
      BY <2>3, <2>7, <2>9, GroupsFollow
    <2>11. LastOf(c) = l
      BY <2>3, <2>7, <2>9, <2>10, GroupsFollow
    <2> QED BY <1>0, <2>3, <2>5, <2>6, <2>11
  <1> QED BY <1>3, <1>5, <1>6, <1>7

\* One group of them: the one that a chunk of the run ends.
LEMMA RunIsVisible ==
    ASSUME NEW f, NEW n \in 0..Len(GroupOf), NEW k, HoldsRun(f, k, n),
           NEW c \in Chunks, k <= c, LastOf(c) <= n
    PROVE  \E g \in VisibleGroups(f) : g.angle = AngleOf[GroupOf[c]] /\ g.at = LastOf(c)
  <1>1. \A d \in Chunks : k <= d /\ LastOf(d) <= n =>
           \E g \in VisibleGroups(f) : g.angle = AngleOf[GroupOf[d]] /\ g.at = LastOf(d)
    BY VisibleInRun
  <1> QED BY <1>1

\* What is trimmed is again such a file, and what is gone were whole groups.
LEMMA TrimmedRun ==
    ASSUME NEW f, NEW n \in 0..Len(GroupOf), NEW k, HoldsRun(f, k, n), NEW exporting
    PROVE  \E m \in k..(n + 1) :
             /\ HoldsRun(Trimmed(f, exporting), m, n)
             /\ \A c \in Chunks : k <= c /\ c < m => LastOf(c) <= n
  <1>0. /\ f \in Seq(Int) /\ Len(f) = n - k + 2 /\ DOMAIN f = 1..(n - k + 2)
        /\ n - k + 2 \in Nat \ {0} /\ f[1] = Header /\ CleanLen(f) = Len(f)
        /\ k \in 1..(n + 1) /\ Chunks = 1..Len(GroupOf) /\ Len(GroupOf) \in Nat
        /\ \A i \in 2..(n - k + 2) : f[i] = k + i - 2 /\ f[i] \in Chunks /\ f[i] \in k..n
    BY RunIsClean
  \* The first chunk of the group that is still to end, or the one to come.
  <1>1. \E m \in k..(n + 1) :
           /\ m \in Chunks => IsFirst(m)
           /\ \A c \in Chunks : k <= c /\ c <= n => (c < m <=> LastOf(c) <= n)
    <2>1. CASE k = n + 1
      <3>1. n + 1 \in k..(n + 1) /\ (n + 1 \in Chunks => IsFirst(n + 1))
        BY <1>0, <2>1 DEF HoldsRun
      <3>2. \A c \in Chunks : ~(k <= c /\ c <= n)
        BY <1>0, <2>1
      <3> QED BY <3>1, <3>2
    <2>2. CASE k # n + 1 /\ IsLast(n)
      <3>1. n \in Chunks /\ n \in Nat /\ n + 1 \in k..(n + 1)
        BY <1>0, <2>2
      <3>2. n + 1 \in Chunks => IsFirst(n + 1)
        BY <2>2, <3>1, GroupsFollow
      <3>3. ASSUME NEW c \in Chunks, c <= n PROVE LastOf(c) <= n
        <4>1. LastOf(c) \in c..Len(GroupOf)
          BY GroupIsARun
        <4>2. CASE LastOf(c) > n
          <5>1. GroupOf[n] = GroupOf[c]
            BY <1>0, <3>1, <3>3, <4>1, <4>2, GroupsFollow
          <5>2. LastOf(n) = LastOf(c) /\ LastOf(n) = n
            BY <2>2, <3>1, <5>1, GroupsFollow
          <5> QED BY <3>1, <5>2
        <4> QED BY <1>0, <3>1, <4>1, <4>2
      <3>4. \A c \in Chunks : c <= n => c < n + 1
        BY <1>0, <3>1
      <3> QED BY <3>1, <3>2, <3>3, <3>4
    <2>3. CASE k # n + 1 /\ ~IsLast(n)
      <3>1. n \in Chunks /\ n \in Nat /\ k \in Chunks /\ k <= n /\ IsFirst(k)
        <4>1. n \in Chunks /\ n \in Nat /\ k \in Chunks /\ k <= n
          BY <1>0, <2>3
        <4> QED BY <4>1 DEF HoldsRun
      <3>2. PICK m : m = FirstOf(n)
        OBVIOUS
      <3>3. m \in 1..n /\ k <= m /\ IsFirst(m) /\ LastOf(n) \in n..Len(GroupOf) /\ LastOf(n) # n
        BY <2>3, <3>1, <3>2, GroupIsARun, GroupsFollow
      <3>4. ASSUME NEW c \in Chunks, c <= n, c < m PROVE LastOf(c) <= n
        <4>1. LastOf(c) \in c..Len(GroupOf) /\ c \in Nat
          BY <1>0, GroupIsARun
        <4>2. CASE LastOf(c) > n
          <5>1. GroupOf[n] = GroupOf[c]
            BY <3>1, <3>4, <4>1, <4>2, GroupsFollow
          <5>2. FirstOf(c) = m /\ FirstOf(c) \in 1..c
            BY <3>1, <3>2, <5>1, GroupIsARun, GroupsFollow
          <5> QED BY <3>3, <3>4, <4>1, <5>2
        <4> QED BY <1>0, <3>1, <4>1, <4>2
      <3>5. ASSUME NEW c \in Chunks, c <= n, ~(c < m) PROVE ~(LastOf(c) <= n)
        <4>1. c \in Nat /\ FirstOf(n) <= c /\ c <= LastOf(n)
          BY <1>0, <3>1, <3>2, <3>3, <3>5
        <4>2. GroupOf[c] = GroupOf[n]
          BY <3>1, <4>1, GroupsFollow
        <4>3. LastOf(c) = LastOf(n)
          BY <3>1, <4>2, GroupsFollow
        <4> QED BY <3>1, <3>3, <4>3
      <3>6. m \in k..(n + 1)
        BY <1>0, <3>1, <3>3
      <3> QED BY <3>3, <3>4, <3>5, <3>6
    <2> QED BY <2>1, <2>2, <2>3
  <1>2. PICK m \in k..(n + 1) :
           /\ m \in Chunks => IsFirst(m)
           /\ \A c \in Chunks : k <= c /\ c <= n => (c < m <=> LastOf(c) <= n)
    BY <1>1
  <1>3. PICK b : b = m - k + 2
    OBVIOUS
  <1>4. b \in Nat /\ 1 < b /\ b <= Len(f) + 1 /\ m \in Nat
    BY <1>0, <1>2, <1>3
  <1>5. PICK gone : gone = UNION {g.range : g \in VisibleGroups(f)}
    OBVIOUS
  <1>6. PICK kept : kept = {i \in DOMAIN f : i \notin gone /\ (i <= CleanLen(f) \/ ~exporting)}
    OBVIOUS
  <1>7. Trimmed(f, exporting) = Selected(f, kept)
    BY <1>5, <1>6 DEF Trimmed
  <1>8. ASSUME NEW i \in DOMAIN f PROVE i \in kept <=> i <= 1 \/ b <= i
    <2>1. i \in 1..(n - k + 2) /\ i <= CleanLen(f)
      BY <1>0
    <2>2. i \in gone <=> i > 1 /\ LastOf(k + i - 2) <= n
      BY <1>5, <2>1, VisibleInRun
    <2>3. i \in kept <=> i \notin gone
      BY <1>6, <2>1
    <2>4. CASE i <= 1
      BY <2>1, <2>2, <2>3, <2>4
    <2>5. CASE ~(i <= 1)
      <3>1. i \in 2..(n - k + 2) /\ i > 1
        BY <1>0, <2>1, <2>5
      <3>2. PICK c : c = k + i - 2
        OBVIOUS
      <3>3. c \in Chunks /\ k <= c /\ c <= n /\ c \in Nat
        BY <1>0, <3>1, <3>2
      <3>4. c < m <=> LastOf(c) <= n
        BY <1>2, <3>3
      <3>5. c < m <=> ~(b <= i)
        BY <1>0, <1>3, <1>4, <2>1, <3>2, <3>3
      <3> QED BY <2>2, <2>3, <2>5, <3>1, <3>2, <3>4, <3>5
    <2> QED BY <2>4, <2>5
  <1>9. Selected(f, kept) = Ends(f, 1, b)
    <2>1. 1 \in Nat /\ b \in Nat /\ 1 < b /\ b <= Len(f) + 1 /\ f \in Seq(Int)
      BY <1>0, <1>4
    <2>2. \A i \in DOMAIN f : i \in kept <=> i <= 1 \/ b <= i
      BY <1>8
    <2> QED BY <2>1, <2>2, SelectedEnds
  <1>10. Len(f) + 1 + 1 - b = n - m + 2
    BY <1>0, <1>3, <1>4
  <1>11. ASSUME NEW i \in 1..(n - m + 2)
         PROVE  (IF i <= 1 THEN f[i] ELSE f[i - 1 + b - 1]) = (IF i = 1 THEN Header ELSE m + i - 2)
    <2>1. CASE i = 1
      BY <1>0, <2>1
    <2>2. CASE i # 1
      <3>1. i - 1 + b - 1 \in 2..(n - k + 2) /\ ~(i <= 1)
        BY <1>0, <1>2, <1>3, <1>4, <2>2
      <3>2. f[i - 1 + b - 1] = k + (i - 1 + b - 1) - 2
        BY <1>0, <3>1
      <3>3. k + (i - 1 + b - 1) - 2 = m + i - 2
        BY <1>0, <1>3, <1>4
      <3> QED BY <2>2, <3>1, <3>2, <3>3
    <2> QED BY <2>1, <2>2
  <1>12. Trimmed(f, exporting) = [i \in 1..(n - m + 2) |-> IF i = 1 THEN Header ELSE m + i - 2]
    BY <1>7, <1>9, <1>10, <1>11 DEF Ends
  <1>13. HoldsRun(Trimmed(f, exporting), m, n)
    <2>1. m \in 1..(n + 1)
      BY <1>0, <1>2
    <2> QED BY <1>2, <1>12, <2>1 DEF HoldsRun
  <1>14. \A c \in Chunks : k <= c /\ c < m => LastOf(c) <= n
    <2> SUFFICES ASSUME NEW c \in Chunks, k <= c, c < m PROVE LastOf(c) <= n
      OBVIOUS
    <2>1. c <= n
      BY <1>0, <1>2, <1>4
    <2> QED BY <1>2, <2>1
  <1> QED BY <1>13, <1>14

\* Of what is exported of an elevation the newest stays.
LEMMA ExportsAreKept ==
    ASSUME ExportsAreWhole, NEW S, exported' = WithExports(S),
           \A g \in S : g.angle \in Angles /\ g.at \in Chunks /\ g.whole = TRUE
    PROVE  /\ ExportsAreWhole'
           /\ \A angle, at : at \in Chunks /\ Exported(angle, at) => Exported(angle, at)'
           /\ \A g \in S : Exported(g.angle, g.at)'
  <1> DEFINE new == {[angle |-> g.angle, at |-> g.at, whole |-> g.whole] : g \in S}
             old == {x \in exported : \A y \in new : <<x.angle, x.at>> # <<y.angle, y.at>>}
  <1>1. GroupOf \in Seq(DOMAIN AngleOf)
    BY GroupsAreRuns
  <1>2. Chunks = 1..Len(GroupOf) /\ Len(GroupOf) \in Nat
    BY <1>1, LenProperties DEF Chunks
  <1>3. PICK all : all = old \cup new
    OBVIOUS
  <1>4. exported' = Newest(all)
    BY <1>3 DEF WithExports
  <1>5. all \subseteq [angle: Angles, at: Chunks, whole: {TRUE}]
    <2>1. ASSUME NEW g \in S
          PROVE  [angle |-> g.angle, at |-> g.at, whole |-> g.whole]
                   \in [angle: Angles, at: Chunks, whole: {TRUE}]
      <3>1. PICK b : b = g.whole
        OBVIOUS
      <3>2. b \in {TRUE}
        <4>1. g.whole = TRUE
          OBVIOUS
        <4> QED BY <3>1, <4>1, Zenon
      <3> QED BY <3>1, <3>2
    <2>2. new \subseteq [angle: Angles, at: Chunks, whole: {TRUE}]
      BY <2>1
    <2>3. old \subseteq [angle: Angles, at: Chunks, whole: {TRUE}]
      BY DEF ExportsAreWhole
    <2> HIDE DEF new, old
    <2> QED BY <1>3, <2>2, <2>3
  <1>6. \A x \in exported : \E y \in all : y.angle = x.angle /\ y.at = x.at
    BY <1>3
  <1>7. ASSUME NEW g \in S PROVE \E y \in all : y.angle = g.angle /\ y.at = g.at
    <2>1. PICK b : b = g.whole
      OBVIOUS
    <2>2. PICK y : y = [angle |-> g.angle, at |-> g.at, whole |-> b]
      OBVIOUS
    <2>3. y \in new
      BY <2>1, <2>2
    <2>4. y.angle = g.angle /\ y.at = g.at
      BY <2>2
    <2> HIDE DEF new, old
    <2> QED BY <1>3, <2>3, <2>4
  <1> HIDE DEF new, old
  <1>8. ASSUME NEW x \in all PROVE Exported(x.angle, x.at)'
    <2> DEFINE T == {y.at : y \in {z \in all : z.angle = x.angle}}
    <2>1. T \subseteq 1..Len(GroupOf) /\ x.at \in T
      BY <1>2, <1>5
    <2>2. IsFiniteSet(T)
      <3>1. IsFiniteSet(1..Len(GroupOf))
        BY <1>2, FS_Interval
      <3> QED BY <2>1, <3>1, FS_Subset
    <2>3. T \subseteq Int /\ T # {}
      BY <1>2, <2>1
    <2>4. PICK m \in T : \A t \in T : t <= m
      <3> HIDE DEF T
      <3> QED BY <2>2, <2>3, MaxOfFinite
    <2>5. PICK y \in all : y.angle = x.angle /\ y.at = m
      BY <2>4
    <2>6. {z \in all : z.angle = y.angle /\ z.at > y.at} = {}
      <3> SUFFICES ASSUME NEW z \in all, z.angle = y.angle, z.at > y.at PROVE FALSE
        OBVIOUS
      <3>1. z.at \in T
        BY <2>5
      <3>2. z.at <= m /\ z.at \in Int /\ m \in Int
        BY <2>3, <2>4, <3>1
      <3> QED BY <2>5, <3>2
    <2>7. y \in Newest(all)
      <3>1. Cardinality({z \in all : z.angle = y.angle /\ z.at > y.at}) = 0
        BY <2>6, FS_EmptySet
      <3> QED BY <3>1 DEF Newest
    <2>8. y.at >= x.at
      BY <2>1, <2>3, <2>4, <2>5
    <2> QED BY <1>4, <2>5, <2>7, <2>8 DEF Exported
  <1>9. ExportsAreWhole'
    BY <1>4, <1>5 DEF ExportsAreWhole, Newest
  <1>10. ASSUME NEW angle, NEW at, at \in Chunks, Exported(angle, at) PROVE Exported(angle, at)'
    <2>1. PICK x \in exported : x.angle = angle /\ x.at >= at
      BY <1>10 DEF Exported
    <2>2. PICK y \in all : y.angle = angle /\ y.at = x.at
      BY <1>6, <2>1
    <2>3. PICK w \in exported' : w.angle = angle /\ w.at >= y.at
      BY <1>8, <2>2 DEF Exported
    <2>4. w.at \in Int /\ y.at \in Int /\ at \in Int
      <3>1. w.at \in Chunks
        BY <1>9 DEF ExportsAreWhole
      <3>2. y.at \in Chunks
        BY <1>5
      <3> QED BY <1>2, <1>10, <3>1, <3>2
    <2>5. w.at >= at
      BY <2>1, <2>2, <2>3, <2>4
    <2> QED BY <2>3, <2>5 DEF Exported
  <1>11. \A g \in S : Exported(g.angle, g.at)'
    BY <1>7, <1>8
  <1> QED BY <1>9, <1>10, <1>11

\* What was held of the exports before is held of them afterwards.
LEMMA ExportsGrow ==
    ASSUME \A angle, at : at \in Chunks /\ Exported(angle, at) => Exported(angle, at)',
           NEW k, NEW seen
    PROVE  /\ ExportedBefore(k) => ExportedBefore(k)'
           /\ SeenIsExported(seen) => SeenIsExported(seen)'
  <1>1. \A c \in Chunks : LastOf(c) \in Chunks
    <2> TAKE c \in Chunks
    <2>1. LastOf(c) \in c..Len(GroupOf) /\ Chunks = 1..Len(GroupOf) /\ Len(GroupOf) \in Nat
      BY GroupIsARun
    <2> QED BY <2>1
  <1> QED BY <1>1 DEF ExportedBefore, SeenIsExported

\* What is exported stays so, and with it what the files and the states need.
LEMMA FilesStaySound ==
    ASSUME \A angle, at : at \in Chunks /\ Exported(angle, at) => Exported(angle, at)',
           NEW f, NEW n, FileIsSound(f, n)
    PROVE  FileIsSound(f, n)'
  <1>1. PICK k \in 1..(n + 1) : HoldsRun(f, k, n) /\ ExportedBefore(k)
    BY DEF FileIsSound
  <1>2. ExportedBefore(k)'
    BY <1>1, ExportsGrow
  <1> QED BY <1>1, <1>2 DEF FileIsSound

\* A fault of a kind that disturbs is remembered.
LEMMA FaultIsHad ==
    ASSUME StreamType, NEW kind \in FaultKinds, Fault(kind)
    PROVE  /\ faults' \in Seq(FaultKinds)
           /\ Undisturbed' => Undisturbed /\ kind \notin Unguarded
  <1>1. faults \in Seq(FaultKinds) /\ faults' = Append(faults, kind)
    BY DEF StreamType, Fault
  <1>2. /\ faults' \in Seq(FaultKinds) /\ Len(faults) \in Nat
        /\ DOMAIN faults = 1..Len(faults) /\ DOMAIN faults' = 1..Len(faults) + 1
        /\ faults'[Len(faults) + 1] = kind /\ \A i \in 1..Len(faults) : faults'[i] = faults[i]
    BY <1>1, AppendProperties, LenProperties
  <1>3. Len(faults) + 1 \in DOMAIN faults'
    BY <1>2
  <1>4. \A i \in DOMAIN faults : i \in DOMAIN faults' /\ faults'[i] = faults[i]
    BY <1>2
  <1> QED BY <1>2, <1>3, <1>4 DEF Undisturbed, Had

\* The chunks still to fetch when those up to the n-th are known.
LEMMA TodoIsTheRest ==
    ASSUME remote \in Nat, NEW n \in 0..remote
    PROVE  Todo(1..remote, 1..n) = [i \in 1..(remote - n) |-> n + i]
  <1> DEFINE t == [c \in 1..remote |-> c]
             rest == (1..remote) \ (1..n)
  <1>1. t \in Seq(Nat) /\ Len(t) = remote /\ DOMAIN t = 1..remote
    <2>1. t \in [1..remote -> Nat]
      OBVIOUS
    <2>2. t \in Seq(Nat)
      BY <2>1, SeqDef
    <2> HIDE DEF t
    <2> QED BY <2>1, <2>2, LenProperties
  <1>2. \A i \in DOMAIN t : i \in rest <=> i <= 0 \/ n + 1 <= i
    BY <1>1
  <1>3. 0 \in Nat /\ n + 1 \in Nat /\ 0 < n + 1 /\ n + 1 <= Len(t) + 1
    BY <1>1
  <1>4. Selected(t, rest) = Ends(t, 0, n + 1)
    <2> HIDE DEF t, rest
    <2> QED BY <1>1, <1>2, <1>3, SelectedEnds
  <1>5. Len(t) + 1 + 0 - (n + 1) = remote - n
    BY <1>1
  <1>6. \A i \in 1..(remote - n) : (IF i <= 0 THEN t[i] ELSE t[i - 0 + (n + 1) - 1]) = n + i
    OBVIOUS
  <1>7. Ends(t, 0, n + 1) = [i \in 1..(remote - n) |-> n + i]
    <2> HIDE DEF t
    <2> QED BY <1>5, <1>6 DEF Ends
  <1> QED BY <1>4, <1>7 DEF Todo

\* A chunk more at the end of the file.
LEMMA RunGrows ==
    ASSUME NEW f, NEW n \in 0..Len(GroupOf), NEW k, HoldsRun(f, k, n), n + 1 <= Len(GroupOf)
    PROVE  HoldsRun(f \o <<n + 1>>, k, n + 1)
  <1>1. /\ f \in Seq(Int) /\ Len(f) = n - k + 2 /\ n - k + 2 \in Nat /\ k \in 1..(n + 1)
        /\ Len(GroupOf) \in Nat
    BY RunIsClean
  <1>2. f = [i \in 1..(n - k + 2) |-> IF i = 1 THEN Header ELSE k + i - 2]
    BY DEF HoldsRun
  <1>3. PICK h : h = <<n + 1>>
    OBVIOUS
  <1>4. h \in Seq(Int) /\ Len(h) = 1 /\ h[1] = n + 1
    BY <1>1, <1>3
  <1>5. PICK w : w = f \o h
    OBVIOUS
  <1>6. /\ w \in Seq(Int) /\ Len(w) = n - k + 3
        /\ \A i \in 1..(n - k + 2) : w[i] = f[i]
        /\ w[n - k + 3] = n + 1
    <2>1. Len(w) = Len(f) + Len(h) /\ w \in Seq(Int)
          /\ \A i \in 1..(Len(f) + Len(h)) : w[i] = IF i <= Len(f) THEN f[i] ELSE h[i - Len(f)]
      BY <1>1, <1>4, <1>5, ConcatProperties
    <2>2. n - k + 3 \in 1..(Len(f) + Len(h)) /\ ~(n - k + 3 <= Len(f)) /\ n - k + 3 - Len(f) = 1
      BY <1>1, <1>4
    <2>3. \A i \in 1..(n - k + 2) : i \in 1..(Len(f) + Len(h)) /\ i <= Len(f)
      BY <1>1, <1>4
    <2>4. Len(w) = n - k + 3
      BY <1>1, <1>4, <2>1
    <2> QED BY <1>4, <2>1, <2>2, <2>3, <2>4
  <1>7. \A i \in 1..(n + 1 - k + 2) : w[i] = IF i = 1 THEN Header ELSE k + i - 2
    <2> SUFFICES ASSUME NEW i \in 1..(n + 1 - k + 2)
                 PROVE  w[i] = IF i = 1 THEN Header ELSE k + i - 2
      OBVIOUS
    <2>1. CASE i = n - k + 3
      <3>1. i # 1 /\ k + i - 2 = n + 1
        BY <1>1, <2>1
      <3> QED BY <1>6, <2>1, <3>1
    <2>2. CASE i # n - k + 3
      <3>1. i \in 1..(n - k + 2)
        BY <1>1, <2>2
      <3> QED BY <1>2, <1>6, <3>1
    <2> QED BY <2>1, <2>2
  <1>8. w = [i \in 1..(n + 1 - k + 2) |-> IF i = 1 THEN Header ELSE k + i - 2]
    <2>1. DOMAIN w = 1..(n + 1 - k + 2) /\ w = [i \in DOMAIN w |-> w[i]]
      <3>1. DOMAIN w = 1..Len(w) /\ w = [i \in 1..Len(w) |-> w[i]]
        BY <1>6, LenProperties, SeqDef
      <3>2. Len(w) = n + 1 - k + 2
        BY <1>1, <1>6
      <3> QED BY <3>1, <3>2
    <2> QED BY <1>7, <2>1
  <1>9. k \in 1..(n + 1 + 1) /\ (k \in Chunks => IsFirst(k))
    BY <1>1 DEF HoldsRun
  <1> QED BY <1>3, <1>5, <1>8, <1>9 DEF HoldsRun

\* A file that holds chunks is there.
LEMMA RunIsAFile ==
    ASSUME NEW f, NEW n \in 0..Len(GroupOf), NEW k, HoldsRun(f, k, n)
    PROVE  f # NoFile /\ f # <<>> /\ Len(f) \in Nat \ {0}
  <1>1. f[1] = Header /\ f # <<>> /\ Len(f) = n - k + 2 /\ n - k + 2 \in Nat \ {0}
    BY RunIsClean
  <1>2. NoFile[1] = -2
    BY DEF NoFile
  <1> QED BY <1>1, <1>2 DEF Header

\* Behind the last item a write is an extension.
LEMMA PutAtEnd ==
    ASSUME NEW f \in Seq(Int), NEW items \in Seq(Int), NEW g \in Put(f, Len(f), items)
    PROVE  g = f \o items
  <1> DEFINE end == Len(f) + Len(items)
  <1>1. Len(f) \in Nat /\ Len(items) \in Nat /\ end \in Int
    BY LenProperties
  <1>2. Max({Len(f), end}) = end
    <2>1. \A x \in {Len(f), end} : x <= end
      BY <1>1
    <2> HIDE DEF end
    <2> QED BY <1>1, <2>1, MaxIs
  <1>3. ~(end < Len(f))
    BY <1>1
  <1>4. g = [i \in 1..end |-> IF i \in (Len(f) + 1)..end THEN items[i - Len(f)]
                             ELSE IF i <= Len(f) THEN f[i] ELSE Garbage]
    <2> HIDE DEF end
    <2>1. end = Len(f) + Len(items)
      BY DEF end
    <2> QED BY <1>2, <1>3, <2>1 DEF Put
  <1>5. PICK w : w = f \o items
    OBVIOUS
  <1>6. /\ w \in Seq(Int) /\ Len(w) = end
        /\ \A i \in 1..end : w[i] = IF i <= Len(f) THEN f[i] ELSE items[i - Len(f)]
    BY <1>5, ConcatProperties
  <1>7. w = [i \in 1..end |-> w[i]]
    BY <1>6, LenProperties, SeqDef
  <1>8. \A i \in 1..end : w[i] = IF i \in (Len(f) + 1)..end THEN items[i - Len(f)]
                               ELSE IF i <= Len(f) THEN f[i] ELSE Garbage
    <2> TAKE i \in 1..end
    <2>1. i \in (Len(f) + 1)..end <=> ~(i <= Len(f))
      BY <1>1
    <2> HIDE DEF end
    <2> QED BY <1>6, <2>1
  <1> HIDE DEF end
  <1> QED BY <1>4, <1>5, <1>7, <1>8

LEMMA InitStream ==
    ASSUME StreamInit
    PROVE  StreamInv
  <1>1. GroupOf \in Seq(DOMAIN AngleOf)
    BY GroupsAreRuns
  <1>2. remote \in MinChunks..Len(GroupOf)
    <2>1. Len(GroupOf) \in Nat
      BY <1>1, LenProperties
    <2> QED BY <2>1, StreamAssumption DEF StreamInit
  <1>3. task = Idle /\ file = NoFile /\ saved = NoState /\ jobs = {} /\ exported = {} /\ faults = <<>>
    BY DEF StreamInit
  <1>4. task.pc = "idle" /\ DOMAIN task = DOMAIN Idle
    BY <1>3 DEF Idle
  <1>5. StreamType
    BY <1>2, <1>3, <1>4 DEF StreamType, Pcs
  <1> QED BY <1>3, <1>4, <1>5
          DEF StreamInv, StreamIsSound, ExportsAreWhole, StateIsSound, IngestIsSound,
              ParseIsOwned, DoneIsComplete, StreamInit

\* What the invariant says of any stream, with the ranges of its numbers.
LEMMA StreamFacts ==
    ASSUME StreamInv
    PROVE  /\ remote \in Nat \ {0} /\ remote <= Len(GroupOf) /\ Chunks = 1..Len(GroupOf)
           /\ Len(GroupOf) \in Nat
           /\ faults \in Seq(FaultKinds)
           /\ DOMAIN task = {"pc", "todo", "keys", "seen", "stamps", "append", "pos", "since",
                             "dirty", "after"}
           /\ task.pc \in Pcs
  <1>1. GroupOf \in Seq(DOMAIN AngleOf)
    BY GroupsAreRuns
  <1>2. Chunks = 1..Len(GroupOf) /\ Len(GroupOf) \in Nat
    BY <1>1, LenProperties DEF Chunks
  <1>3. remote \in MinChunks..Len(GroupOf) /\ MinChunks \in 1..Len(GroupOf)
    BY StreamAssumption DEF StreamInv, StreamType
  <1>4. DOMAIN Idle = {"pc", "todo", "keys", "seen", "stamps", "append", "pos", "since",
                       "dirty", "after"}
    BY DEF Idle
  <1> QED BY <1>2, <1>3, <1>4 DEF StreamInv, StreamType

\* The chunks that are there have a last one to be fetched or fetched.
LEMMA FetchedFacts ==
    ASSUME StreamInv, NEW n \in 0..remote, Fetched(n)
    PROVE  /\ n \in 0..Len(GroupOf)
           /\ task.todo = <<>> => n \in 1..remote
           /\ task.pc # "fetch" => n \in 1..remote
  <1>1. remote \in Nat \ {0} /\ remote <= Len(GroupOf) /\ Len(GroupOf) \in Nat
    BY StreamFacts
  <1>2. PICK m \in 1..remote : n <= m /\ task.todo = [i \in 1..(m - n) |-> n + i]
    BY DEF Fetched
  <1>3. n < m => 1 \in DOMAIN task.todo
    BY <1>2
  <1>4. task.pc # "fetch" => n # 0
    BY DEF Fetched
  <1> QED BY <1>1, <1>2, <1>3, <1>4

LEMMA UploadKeeps ==
    ASSUME StreamInv, Upload
    PROVE  StreamInv'
  <1>1. remote \in Nat \ {0} /\ Len(GroupOf) \in Nat /\ remote' = remote + 1 /\ remote < Len(GroupOf)
    BY StreamFacts DEF Upload
  <1>2. UNCHANGED <<file, saved, task, jobs, exported, done, faults>>
    BY DEF Upload
  <1>3. StreamType'
    <2>1. remote' \in MinChunks..Len(GroupOf)
      BY <1>1, StreamAssumption DEF StreamInv, StreamType
    <2> QED BY <1>2, <2>1 DEF StreamInv, StreamType
  <1>4. /\ \A angle, at : Exported(angle, at)' <=> Exported(angle, at)
        /\ Undisturbed' <=> Undisturbed
    BY <1>2 DEF Exported, Undisturbed, Had
  <1>5. \A f, n : FileIsSound(f, n)' <=> FileIsSound(f, n)
    BY <1>4 DEF FileIsSound, ExportedBefore
  <1>6. (1..remote) \subseteq 1..remote' /\ (0..remote) \subseteq 0..remote'
    BY <1>1
  <1>7. ASSUME Undisturbed
        PROVE  StreamIsSound'
    <2>1. StreamIsSound
      BY <1>7 DEF StreamInv
    <2>2. ExportsAreWhole' /\ DoneIsComplete'
      BY <1>2, <2>1 DEF StreamIsSound, ExportsAreWhole, DoneIsComplete
    <2>3. ParseIsOwned'
      BY <1>2, <1>4, <2>1 DEF StreamIsSound, ParseIsOwned, JobIsSound, StageIsSound, Offset
    <2>4. StateIsSound'
      BY <1>2, <1>4, <1>6, <2>1
         DEF StreamIsSound, StateIsSound, SeenIsExported, FileIsSound, ExportedBefore
    <2>5. \A n \in 0..remote : Fetched(n) => Fetched(n)'
      BY <1>2, <1>4, <1>6 DEF Fetched, FileIsSound, ExportedBefore, Mended
    <2>6. IngestIsSound'
      BY <1>2, <1>4, <1>6, <2>1, <2>5 DEF StreamIsSound, IngestIsSound, SeenIsExported, Offset
    <2> QED BY <2>2, <2>3, <2>4, <2>6 DEF StreamIsSound
  <1> QED BY <1>3, <1>4, <1>7 DEF StreamInv

\* Nothing of the disk changes but the runtime file goes.
LEMMA PruneKeeps ==
    ASSUME StreamInv, PrunedByAnother
    PROVE  StreamInv'
  <1>1. /\ task.pc = "idle" /\ Fault("pruned") /\ file' = NoFile /\ saved' = NoState
        /\ jobs' = Unlinked /\ UNCHANGED <<remote, task, exported, done>>
    BY DEF PrunedByAnother
  <1>2. faults' \in Seq(FaultKinds) /\ (Undisturbed' => Undisturbed)
    BY <1>1, FaultIsHad DEF StreamInv, FaultKinds
  <1>3. StreamType'
    BY <1>1, <1>2 DEF StreamInv, StreamType
  <1>4. ASSUME Undisturbed'
        PROVE  StreamIsSound'
    <2>1. ExportsAreWhole /\ ParseIsOwned /\ DoneIsComplete
      BY <1>2, <1>4 DEF StreamInv, StreamIsSound
    <2>2. jobs' = {}
      BY <1>1, <2>1 DEF ParseIsOwned, Unlinked
    <2> QED BY <1>1, <2>1, <2>2 DEF StreamIsSound, ExportsAreWhole, StateIsSound, IngestIsSound,
                                    ParseIsOwned, DoneIsComplete
  <1> QED BY <1>3, <1>4 DEF StreamInv

\* What takes the guarantee away is remembered.
LEMMA DisturbanceKeeps ==
    ASSUME StreamInv,
           \/ ParseTimesOut \/ IngestCancelled \/ ServiceCrash \/ SkipEmpty \/ AppendBoundary
           \/ \E job \in jobs : RewriteFails(job)
    PROVE  StreamInv'
  <1>1. PICK kind \in {"cancel", "crash", "timeout", "gap", "boundary", "torn"} : Fault(kind)
    BY DEF ParseTimesOut, IngestCancelled, ServiceCrash, SkipEmpty, AppendBoundary, RewriteFails
  <1>2. faults' \in Seq(FaultKinds) /\ ~Undisturbed'
    BY <1>1, FaultIsHad DEF StreamInv, FaultKinds, Unguarded
  <1>3. remote' = remote
    BY DEF ParseTimesOut, IngestCancelled, ServiceCrash, SkipEmpty, AppendBoundary, RewriteFails
  <1>4. DOMAIN task' = DOMAIN Idle /\ task'.pc \in Pcs
    <2>1. CASE ParseTimesOut
      BY <2>1, StreamFacts DEF ParseTimesOut, AfterParse, Idle, Pcs
    <2>2. CASE IngestCancelled \/ ServiceCrash
      BY <2>2 DEF IngestCancelled, ServiceCrash, Idle, Pcs
    <2>3. CASE SkipEmpty
      BY <2>3, StreamFacts DEF SkipEmpty, Idle, Pcs
    <2>4. CASE AppendBoundary
      BY <2>4, StreamFacts DEF AppendBoundary, Idle, Pcs
    <2>5. CASE \E job \in jobs : RewriteFails(job)
      BY <2>5, StreamFacts DEF RewriteFails, Idle
    <2> QED BY <2>1, <2>2, <2>3, <2>4, <2>5
  <1> QED BY <1>2, <1>3, <1>4 DEF StreamInv, StreamType

\* A file is begun anew only after such a fault.
LEMMA StartOverKeeps ==
    ASSUME StreamInv, StartOver
    PROVE  StreamInv'
  <1>1. task.pc = "split" /\ UNCHANGED <<remote, faults>>
    BY DEF StartOver
  <1>2. DOMAIN task' = DOMAIN Idle /\ task'.pc \in Pcs
    BY StreamFacts DEF StartOver, Idle, Pcs
  <1>3. ~Undisturbed
    BY <1>1 DEF StreamInv, StreamIsSound, IngestIsSound
  <1>4. ~Undisturbed'
    BY <1>1, <1>3 DEF Undisturbed, Had
  <1> QED BY <1>1, <1>2, <1>4 DEF StreamInv, StreamType

\* An ingest resumes where the state says the file ends.
LEMMA StartIngestKeeps ==
    ASSUME StreamInv, StartIngest
    PROVE  StreamInv'
  <1> DEFINE state == IF file = NoFile THEN NoState ELSE saved
             content == IF file = NoFile THEN <<>> ELSE file
  <1>1. PICK listed :
           /\ IF listed = 1..remote THEN UNCHANGED faults ELSE Fault("gap")
           /\ file' = content
           /\ task' = [Idle EXCEPT !.pc = "fetch", !.todo = Todo(listed, state.keys),
                                   !.keys = state.keys, !.seen = state.seen,
                                   !.stamps = state.stamps,
                                   !.append = content # <<>>, !.pos = Len(content)]
    BY DEF StartIngest
  <1>2. task.pc = "idle" /\ ~done /\ UNCHANGED <<remote, saved, jobs, exported, done>>
    BY DEF StartIngest
  <1>3. /\ faults' \in Seq(FaultKinds)
        /\ Undisturbed' => Undisturbed /\ listed = 1..remote
    <2>1. CASE listed = 1..remote
      BY <1>1, <2>1, StreamFacts DEF Undisturbed, Had
    <2>2. CASE listed # 1..remote
      BY <1>1, <2>2, FaultIsHad DEF StreamInv, FaultKinds, Unguarded
    <2> QED BY <2>1, <2>2
  <1>4. /\ DOMAIN task' = DOMAIN Idle /\ task'.pc = "fetch" /\ task'.keys = state.keys
        /\ task'.todo = Todo(listed, state.keys) /\ task'.seen = state.seen /\ task'.pos = Len(content)
        /\ task'.after = <<>>
    <2> HIDE DEF state, content
    <2> QED BY <1>1 DEF Idle
  <1>5. StreamType'
    BY <1>2, <1>3, <1>4 DEF StreamInv, StreamType, Pcs
  <1>6. ASSUME Undisturbed'
        PROVE  StreamIsSound'
    <2>1. StreamIsSound
      BY <1>3, <1>6 DEF StreamInv
    <2>2. jobs = {} /\ jobs' = {}
      BY <1>2, <2>1 DEF StreamIsSound, ParseIsOwned
    <2>3. ExportsAreWhole' /\ StateIsSound' /\ ParseIsOwned' /\ DoneIsComplete'
      BY <1>2, <1>4, <2>1, <2>2
         DEF StreamIsSound, ExportsAreWhole, StateIsSound, ParseIsOwned, DoneIsComplete
    <2>4. remote \in Nat \ {0} /\ remote <= Len(GroupOf) /\ Len(GroupOf) \in Nat
      BY StreamFacts
    <2>5. \E n \in 0..remote :
             /\ state.keys = 1..n
             /\ IF n = 0 THEN content = <<>> ELSE FileIsSound(content, n)
             /\ SeenIsExported(state.seen)
      <3>1. CASE file = NoFile
        <4>1. state.keys = {} /\ state.seen = {} /\ content = <<>>
          BY <1>1, <3>1 DEF NoState
        <4>2. {} = 1..0 /\ 0 \in 0..remote
          BY <2>4
        <4> QED BY <4>1, <4>2 DEF SeenIsExported
      <3>2. CASE file # NoFile
        <4>1. PICK n \in 1..remote :
                FileIsSound(file, n) /\ saved.keys = 1..n /\ SeenIsExported(saved.seen)
          BY <1>2, <2>1, <3>2 DEF StreamIsSound, StateIsSound
        <4>2. n \in 0..remote /\ n # 0
          BY <2>4
        <4> QED BY <1>1, <3>2, <4>1, <4>2
      <3> QED BY <3>1, <3>2
    <2>6. PICK n \in 0..remote :
             /\ state.keys = 1..n
             /\ IF n = 0 THEN content = <<>> ELSE FileIsSound(content, n)
             /\ SeenIsExported(state.seen)
      BY <2>5
    <2>7. task'.todo = [i \in 1..(remote - n) |-> n + i]
      BY <1>3, <1>4, <1>6, <2>4, <2>6, TodoIsTheRest
    <2>8. PICK f : f = content
      OBVIOUS
    <2>9. n # 0 => FileIsSound(f, n)' /\ Len(f) \in Nat \ {0}
      <3> HAVE n # 0
      <3>1. FileIsSound(f, n)
        BY <2>6, <2>8
      <3>2. PICK k : HoldsRun(f, k, n)
        BY <3>1 DEF FileIsSound
      <3>3. n \in 0..Len(GroupOf)
        BY <2>4
      <3>4. FileIsSound(f, n)'
        BY <1>2, <3>1 DEF FileIsSound, ExportedBefore, Exported
      <3> QED BY <3>2, <3>3, <3>4, RunIsAFile
    <2>10. SeenIsExported(task.seen)'
      BY <1>2, <1>4, <2>6 DEF SeenIsExported, Exported
    <2>11. file' = f /\ task'.pos = Len(f) /\ (n = 0 => f = <<>>)
      BY <1>1, <1>4, <2>6, <2>8
    <2>12. Fetched(n)'
      <3>1. n <= remote /\ remote \in 1..remote'
        BY <1>2, <2>4
      <3>2. n = 0 => task'.pos = 0
        BY <2>11
      <3>3. n # 0 => FileIsSound(file, n)'
        BY <2>9, <2>11 DEF FileIsSound
      <3> QED BY <1>2, <1>4, <2>2, <2>6, <2>7, <2>9, <2>11, <3>1, <3>2, <3>3 DEF Fetched
    <2>13. Offset' = Len(file')
      BY <2>11 DEF Offset
    <2>14. IngestIsSound'
      BY <1>2, <1>4, <2>10, <2>12, <2>13 DEF IngestIsSound
    <2> QED BY <2>3, <2>14 DEF StreamIsSound
  <1> QED BY <1>5, <1>6 DEF StreamInv

\* A parse that was just asked for has read nothing.
Submitted(seen, job) ==
    /\ Submit(seen) = {job} /\ DOMAIN job = JobFields /\ job.awaited = TRUE
    /\ job.seen = seen /\ job.stage = "queued" /\ job.groups = {} /\ job.at = 0
    /\ job.size = Untrimmed

LEMMA SubmitIsSound ==
    ASSUME NEW seen, NEW job \in Submit(seen)
    PROVE  Submitted(seen, job)
  <1>1. job = [awaited |-> TRUE, stage |-> "queued", view |-> <<>>, seen |-> seen, groups |-> {},
               rest |-> <<>>, at |-> 0, size |-> Untrimmed]
    BY DEF Submit
  <1>2. Submit(seen) = {job}
    BY <1>1 DEF Submit
  <1> QED BY <1>1, <1>2 DEF JobFields, Submitted

\* An ingest that has written at the end of its file asks for a parse or goes on.
LEMMA WrittenIsSound ==
    ASSUME StreamInv, StreamIsSound, task.pc = "fetch",
           UNCHANGED <<remote, saved, exported, done>>,
           NEW checkpoint \in BOOLEAN, task'.pc = (IF checkpoint THEN "parse" ELSE "fetch"),
           jobs' = (IF checkpoint THEN jobs \cup Submit(task.seen) ELSE jobs),
           task'.seen = task.seen, task'.after = task.after, Offset' = Len(file'),
           NEW n \in 1..remote, NEW m \in 1..remote, n <= m,
           task'.keys = 1..n, task'.todo = [i \in 1..(m - n) |-> n + i],
           task'.pos \in Nat \ {0}, FileIsSound(file, n)'
    PROVE  StreamIsSound'
  <1>1. jobs = {} /\ SeenIsExported(task.seen) /\ task.after = <<>>
    BY DEF StreamIsSound, ParseIsOwned, IngestIsSound
  <1>2. remote \in Nat \ {0}
    BY StreamFacts
  <1>3. SeenIsExported(task.seen)'
    BY <1>1 DEF SeenIsExported, Exported
  <1>4. ExportsAreWhole' /\ StateIsSound' /\ DoneIsComplete'
    BY DEF StreamIsSound, ExportsAreWhole, StateIsSound, DoneIsComplete
  <1>5. ParseIsOwned' /\ \A job \in jobs' : job.stage = "queued"
    <2>1. CASE ~checkpoint
      BY <1>1, <2>1 DEF ParseIsOwned
    <2>2. CASE checkpoint
      <3>1. task'.pc = "parse" /\ jobs' = Submit(task.seen)
        BY <1>1, <2>2
      <3>2. PICK job : job \in Submit(task.seen)
        BY DEF Submit
      <3>3. /\ jobs' = {job} /\ DOMAIN job = JobFields /\ job.awaited = TRUE
            /\ job.seen = task'.seen /\ job.stage = "queued" /\ job.groups = {} /\ job.at = 0
            /\ job.size = Untrimmed
        <4>1. PICK seen : seen = task.seen
          OBVIOUS
        <4>2. job \in Submit(seen)
          BY <3>2, <4>1
        <4>3. Submitted(seen, job)
          BY <4>2, SubmitIsSound
        <4> QED BY <3>1, <4>1, <4>3 DEF Submitted
      <3>4. JobIsSound(job)'
        BY <3>3 DEF JobIsSound, StageIsSound
      <3> QED BY <3>1, <3>3, <3>4 DEF ParseIsOwned
    <2> QED BY <2>1, <2>2
  <1>6. Fetched(n)'
    <2>1. n # 0
      BY <1>2
    <2>2. \A job \in jobs' : FileIsSound(Mended(job), n)'
      BY <1>5 DEF FileIsSound, Mended
    <2> QED BY <2>1, <2>2 DEF Fetched
  <1>7. n \in 0..remote'
    BY <1>2
  <1>8. IngestIsSound'
    BY <1>1, <1>3, <1>6, <1>7 DEF IngestIsSound
  <1> QED BY <1>4, <1>5, <1>8 DEF StreamIsSound

\* A chunk is written behind the one before it.
LEMMA AppendChunkKeeps ==
    ASSUME StreamInv, AppendChunk
    PROVE  StreamInv'
  <1>1. PICK c, items, checkpoint :
           /\ c = Head(task.todo)
           /\ items = ItemsOf(c, task.pos = 0)
           /\ checkpoint \in BOOLEAN
           /\ file' \in Put(file, Offset, items)
           /\ task' = [task EXCEPT !.todo = Tail(@), !.keys = @ \cup {c},
                                   !.pos = @ + Len(items), !.since = @ + 1,
                                   !.dirty = TRUE,
                                   !.pc = IF checkpoint THEN "parse" ELSE "fetch"]
           /\ jobs' = IF checkpoint THEN jobs \cup Submit(task.seen) ELSE jobs
    BY DEF AppendChunk
  <1>2. /\ task.pc = "fetch" /\ task.todo # <<>>
        /\ UNCHANGED <<remote, saved, exported, done, faults>>
    BY DEF AppendChunk
  <1>3. /\ DOMAIN task' = DOMAIN task
        /\ task'.pc = (IF checkpoint THEN "parse" ELSE "fetch")
        /\ task'.keys = task.keys \cup {c} /\ task'.todo = Tail(task.todo)
        /\ task'.seen = task.seen /\ task'.pos = task.pos + Len(items)
        /\ task'.after = task.after /\ task'.append = task.append
    BY <1>1, StreamFacts
  <1>4. StreamType'
    BY <1>2, <1>3 DEF StreamInv, StreamType, Pcs
  <1>5. ASSUME Undisturbed'
        PROVE  StreamIsSound'
    <2>1. StreamIsSound
      BY <1>2, <1>5 DEF StreamInv, Undisturbed, Had
    <2>2. remote \in Nat \ {0} /\ remote <= Len(GroupOf) /\ Chunks = 1..Len(GroupOf) /\ Len(GroupOf) \in Nat
      BY StreamFacts
    <2>3. PICK n \in 0..remote : Fetched(n)
      BY <1>2, <2>1 DEF StreamIsSound, IngestIsSound
    <2>4. PICK m \in 1..remote : n <= m /\ task.todo = [i \in 1..(m - n) |-> n + i]
      BY <2>3 DEF Fetched
    <2>5. Offset = Len(file)
      BY <1>2, <2>1 DEF StreamIsSound, IngestIsSound
    <2>6. n < m /\ n + 1 \in 1..remote /\ n + 1 \in Chunks
      <3>1. n = m => task.todo = <<>>
        <4>1. n = m => 1..(m - n) = {}
          BY <2>2, <2>4
        <4> QED BY <2>4, <4>1
      <3> QED BY <1>2, <2>2, <2>4, <3>1
    <2>7. c = n + 1 /\ Tail(task.todo) = [i \in 1..(m - (n + 1)) |-> n + 1 + i]
      <3>1. PICK t : t = task.todo
        OBVIOUS
      <3>2. t = [i \in 1..(m - n) |-> n + i] /\ m - n \in Nat \ {0}
        BY <2>4, <2>6, <3>1
      <3>3. t \in Seq(Int) /\ Len(t) = m - n /\ t # <<>>
        <4>1. t \in [1..(m - n) -> Int]
          BY <3>2, <2>4
        <4>2. t \in Seq(Int)
          BY <3>2, <4>1, SeqDef
        <4>3. DOMAIN t = 1..(m - n)
          BY <4>1
        <4>4. Len(t) = m - n
          BY <3>2, <4>2, <4>3, LenProperties
        <4> QED BY <1>2, <3>1, <4>2, <4>4
      <3>4. /\ Head(t) = t[1] /\ Tail(t) \in Seq(Int) /\ Len(Tail(t)) = Len(t) - 1
            /\ \A i \in 1..Len(Tail(t)) : Tail(t)[i] = t[i + 1]
        BY <3>3, HeadTailProperties
      <3>5. PICK u : u = Tail(t)
        OBVIOUS
      <3>6. u \in Seq(Int) /\ Len(u) = m - (n + 1)
        BY <2>4, <3>3, <3>4, <3>5
      <3>7. \A i \in 1..(m - (n + 1)) : u[i] = n + 1 + i
        <4> SUFFICES ASSUME NEW i \in 1..(m - (n + 1)) PROVE u[i] = n + 1 + i
          OBVIOUS
        <4>1. u[i] = t[i + 1]
          BY <3>4, <3>5, <3>6
        <4>2. i + 1 \in 1..(m - n)
          BY <2>4, <3>2
        <4> QED BY <2>4, <3>2, <4>1, <4>2
      <3>8. u = [i \in 1..(m - (n + 1)) |-> u[i]]
        BY <3>6, LenProperties, SeqDef
      <3>9. u = [i \in 1..(m - (n + 1)) |-> n + 1 + i]
        BY <3>7, <3>8
      <3>10. c = n + 1
        BY <1>1, <2>4, <3>1, <3>2, <3>4
      <3> QED BY <3>1, <3>5, <3>9, <3>10
    <2>8. PICK f : f = file
      OBVIOUS
    <2>9. /\ f \in Seq(Int) /\ items \in Seq(Int) /\ Len(items) \in Nat \ {0}
          /\ n = 0 => f = <<>> /\ task.pos = 0 /\ items = <<Header, 1>>
          /\ n # 0 => FileIsSound(f, n) /\ task.pos \in Nat \ {0} /\ items = <<n + 1>>
      <3>1. CASE n = 0
        <4>1. f = <<>> /\ task.pos = 0 /\ items = <<Header, 1>>
          BY <1>1, <2>3, <2>7, <2>8, <3>1 DEF Fetched, ItemsOf
        <4> QED BY <3>1, <4>1 DEF Header
      <3>2. CASE n # 0
        <4>1. FileIsSound(f, n) /\ task.pos \in Nat \ {0}
          BY <1>2, <2>3, <2>8, <3>2 DEF Fetched
        <4>2. task.pos # 0 /\ c # 1 /\ c = n + 1
          BY <2>7, <3>2, <4>1
        <4>3. items = <<n + 1>>
          BY <1>1, <4>2 DEF ItemsOf
        <4>4. PICK k : HoldsRun(f, k, n)
          BY <4>1 DEF FileIsSound
        <4>5. f \in Seq(Int)
          <5>1. n \in 0..Len(GroupOf)
            BY <2>2, <2>6
          <5> QED BY <4>4, <5>1, RunIsClean
        <4> QED BY <3>2, <4>1, <4>3, <4>5
      <3> QED BY <3>1, <3>2
    <2>10. file' = f \o items
      <3>1. file' \in Put(f, Len(f), items)
        BY <1>1, <2>5, <2>8
      <3> QED BY <2>9, <3>1, PutAtEnd
    <2>11. FileIsSound(f \o items, n + 1)
      <3>1. CASE n = 0
        <4>1. f \o items = <<Header, 1>>
          <5>1. <<>> \o <<Header, 1>> = <<Header, 1>>
            BY DEF Header
          <5> QED BY <2>9, <3>1, <5>1
        <4>2. HoldsRun(<<Header, 1>>, 1, 1)
          <5>1. 1..(1 - 1 + 2) = 1..2 /\ 1 \in 1..(1 + 1)
            OBVIOUS
          <5>2. IsFirst(1)
            BY <2>6, <3>1, GroupsFollow
          <5>3. <<Header, 1>> = [i \in 1..(1 - 1 + 2) |-> IF i = 1 THEN Header ELSE 1 + i - 2]
            BY DEF Header
          <5> QED BY <5>1, <5>2, <5>3 DEF HoldsRun
        <4>3. HoldsRun(f \o items, 1, n + 1) /\ 1 \in 1..(n + 1 + 1)
          BY <3>1, <4>1, <4>2
        <4>4. ExportedBefore(1)
          BY <2>2 DEF ExportedBefore
        <4> QED BY <4>3, <4>4 DEF FileIsSound
      <3>2. CASE n # 0
        <4>1. PICK k \in 1..(n + 1) : HoldsRun(f, k, n) /\ ExportedBefore(k)
          BY <2>9, <3>2 DEF FileIsSound
        <4>2. n \in 0..Len(GroupOf) /\ n + 1 <= Len(GroupOf)
          BY <2>2, <2>6
        <4>3. HoldsRun(f \o items, k, n + 1)
          BY <2>9, <3>2, <4>1, <4>2, RunGrows
        <4>4. k \in 1..(n + 1 + 1)
          BY <4>1, <4>2
        <4> QED BY <4>1, <4>3, <4>4 DEF FileIsSound
      <3> QED BY <3>1, <3>2
    <2>12. FileIsSound(file, n + 1)'
      BY <1>2, <2>10, <2>11 DEF FileIsSound, ExportedBefore, Exported
    <2>13. task'.pos \in Nat \ {0} /\ Offset' = Len(file')
      <3>1. task.pos \in Nat /\ Len(f) \in Nat
        BY <2>9, LenProperties
      <3>2. Len(file') = Len(f) + Len(items)
        BY <2>9, <2>10, ConcatProperties
      <3>3. task'.pos \in Nat \ {0}
        BY <1>3, <2>9, <3>1
      <3>4. ~task.append => task'.pos = Len(file')
        BY <1>3, <2>5, <2>8, <3>2 DEF Offset
      <3> QED BY <1>3, <3>3, <3>4 DEF Offset
    <2>14. task'.keys = 1..(n + 1) /\ task'.todo = [i \in 1..(m - (n + 1)) |-> n + 1 + i]
      <3>1. task.keys = 1..n
        BY <2>3 DEF Fetched
      <3>2. (1..n) \cup {n + 1} = 1..(n + 1)
        BY <2>2
      <3> QED BY <1>3, <2>7, <3>1, <3>2
    <2>15. PICK l : l = n + 1
      OBVIOUS
    <2>16. l \in 1..remote /\ l <= m /\ task'.keys = 1..l
           /\ task'.todo = [i \in 1..(m - l) |-> l + i] /\ FileIsSound(file, l)'
      BY <2>4, <2>6, <2>12, <2>14, <2>15
    <2> QED BY <1>1, <1>2, <1>3, <2>1, <2>4, <2>13, <2>16, WrittenIsSound
  <1> QED BY <1>4, <1>5 DEF StreamInv

\* What is left is parsed before the state is written.
LEMMA LastParseKeeps ==
    ASSUME StreamInv, LastParse
    PROVE  StreamInv'
  <1>1. /\ task.pc = "fetch" /\ task.todo = <<>> /\ task' = [task EXCEPT !.pc = "parse"]
        /\ jobs' = jobs \cup Submit(task.seen)
        /\ UNCHANGED <<remote, file, saved, exported, done, faults>>
    BY DEF LastParse
  <1>2. /\ DOMAIN task' = DOMAIN task /\ task'.pc = "parse" /\ task'.keys = task.keys
        /\ task'.todo = task.todo /\ task'.seen = task.seen /\ task'.pos = task.pos
        /\ task'.after = task.after /\ task'.append = task.append
    BY <1>1, StreamFacts
  <1>3. StreamType'
    BY <1>1, <1>2 DEF StreamInv, StreamType, Pcs
  <1>4. ASSUME Undisturbed'
        PROVE  StreamIsSound'
    <2>1. StreamIsSound
      BY <1>1, <1>4 DEF StreamInv, Undisturbed, Had
    <2>2. PICK n \in 0..remote : Fetched(n)
      BY <1>1, <2>1 DEF StreamIsSound, IngestIsSound
    <2>3. n \in 1..remote
      BY <1>1, <2>2, FetchedFacts
    <2>4. n # 0
      BY <2>3, StreamFacts
    <2>5. PICK m \in 1..remote : n <= m /\ task.todo = [i \in 1..(m - n) |-> n + i]
      BY <2>2 DEF Fetched
    <2>6. FileIsSound(file, n)' /\ task.pos \in Nat \ {0} /\ task.keys = 1..n
      BY <1>1, <2>2, <2>4 DEF Fetched, FileIsSound, ExportedBefore, Exported
    <2>7. Offset' = Len(file')
      BY <1>1, <1>2, <2>1 DEF StreamIsSound, IngestIsSound, Offset
    <2>8. PICK checkpoint \in BOOLEAN : checkpoint
      OBVIOUS
    <2>9. /\ task'.pc = (IF checkpoint THEN "parse" ELSE "fetch")
          /\ jobs' = IF checkpoint THEN jobs \cup Submit(task.seen) ELSE jobs
      BY <1>1, <1>2, <2>8
    <2> QED BY <1>1, <1>2, <2>1, <2>3, <2>5, <2>6, <2>7, <2>9, WrittenIsSound
  <1> QED BY <1>3, <1>4 DEF StreamInv

\* The state that is written says what the file holds.
LEMMA FinishIngestKeeps ==
    ASSUME StreamInv, FinishIngest
    PROVE  StreamInv'
  <1>1. /\ task.pc = "fetch" /\ task.todo = <<>>
        /\ done' = Complete
        /\ file' = IF Complete THEN NoFile ELSE file
        /\ saved' = IF Complete THEN NoState
                    ELSE [keys |-> task.keys, seen |-> task.seen, stamps |-> task.stamps]
        /\ task' = Idle
        /\ jobs' \subseteq jobs
        /\ UNCHANGED <<remote, exported, faults>>
    BY DEF FinishIngest, Unlinked
  <1>2. DOMAIN task' = DOMAIN Idle /\ task'.pc = "idle"
    BY <1>1 DEF Idle
  <1>3. StreamType'
    BY <1>1, <1>2 DEF StreamInv, StreamType, Pcs
  <1>4. ASSUME Undisturbed'
        PROVE  StreamIsSound'
    <2>1. StreamIsSound
      BY <1>1, <1>4 DEF StreamInv, Undisturbed, Had
    <2>2. ExportsAreWhole' /\ IngestIsSound' /\ ParseIsOwned'
      BY <1>1, <1>2, <2>1 DEF StreamIsSound, ExportsAreWhole, IngestIsSound, ParseIsOwned
    <2>3. DoneIsComplete'
      BY <1>1, <1>2 DEF DoneIsComplete, Complete
    <2>4. PICK n \in 0..remote : Fetched(n)
      BY <1>1, <2>1 DEF StreamIsSound, IngestIsSound
    <2>5. n \in 1..remote
      BY <1>1, <2>4, FetchedFacts
    <2>6. n # 0 /\ SeenIsExported(task.seen)
      BY <1>1, <2>1, <2>5, StreamFacts DEF StreamIsSound, IngestIsSound
    <2>7. FileIsSound(file, n) /\ task.keys = 1..n
      BY <1>1, <2>4, <2>6 DEF Fetched
    <2>8. ASSUME ~Complete
          PROVE  FileIsSound(file, n)' /\ saved'.keys = 1..n /\ SeenIsExported(saved.seen)'
      BY <1>1, <2>6, <2>7, <2>8 DEF FileIsSound, ExportedBefore, Exported, SeenIsExported
    <2>9. StateIsSound'
      BY <1>1, <1>2, <2>5, <2>8 DEF StateIsSound
    <2> QED BY <2>2, <2>3, <2>9 DEF StreamIsSound
  <1> QED BY <1>3, <1>4 DEF StreamInv

\* What is known while a parse runs.
LEMMA AwaitedParse ==
    ASSUME StreamInv, StreamIsSound, NEW job \in jobs
    PROVE  /\ task.pc = "parse" /\ task.after = <<>> /\ ~done /\ jobs = {job} /\ JobIsSound(job)
           /\ SeenIsExported(task.seen)
           /\ \E n \in 1..remote : n \in 0..Len(GroupOf) /\ Fetched(n) /\ FileIsSound(Mended(job), n)
  <1>1. task.pc = "parse"
    BY DEF StreamIsSound, ParseIsOwned
  <1>2. ~done
    BY <1>1 DEF StreamIsSound, DoneIsComplete
  <1>3. PICK n \in 0..remote : Fetched(n)
    BY <1>1 DEF StreamIsSound, IngestIsSound
  <1>4. n \in 1..remote /\ n \in 0..Len(GroupOf)
    BY <1>1, <1>3, FetchedFacts
  <1>5. FileIsSound(Mended(job), n)
    BY <1>3 DEF Fetched
  <1>6. SeenIsExported(task.seen) /\ task.after = <<>>
    BY <1>1 DEF StreamIsSound, IngestIsSound
  <1>7. jobs = {job} /\ JobIsSound(job)
    BY <1>1 DEF StreamIsSound, ParseIsOwned
  <1> QED BY <1>1, <1>2, <1>3, <1>4, <1>5, <1>6, <1>7

\* There is a file to parse.
LEMMA NothingToParseKeeps ==
    ASSUME StreamInv, NEW job \in jobs, NothingToParse(job)
    PROVE  StreamInv'
  <1>1. job.stage = "queued" /\ file = NoFile
        /\ UNCHANGED <<remote, file, saved, task, exported, done, faults>>
    BY DEF NothingToParse
  <1>2. StreamType' /\ (Undisturbed' => Undisturbed)
    BY <1>1 DEF StreamInv, StreamType, Undisturbed, Had
  <1>3. ASSUME Undisturbed PROVE FALSE
    <2>1. StreamIsSound
      BY <1>3 DEF StreamInv
    <2>2. PICK n \in 0..Len(GroupOf) : FileIsSound(Mended(job), n)
      BY <2>1, AwaitedParse
    <2>3. PICK k : HoldsRun(file, k, n)
      BY <1>1, <2>2 DEF FileIsSound, Mended
    <2> QED BY <1>1, <2>3, RunIsAFile
  <1> QED BY <1>2, <1>3 DEF StreamInv

\* A parse moves on: the file it will leave is still sound.
LEMMA ParseGoesOn ==
    ASSUME StreamInv, StreamIsSound, NEW job \in jobs, NEW next, Becomes(job, next),
           UNCHANGED <<remote, saved, task, done>>,
           \A angle, at : at \in Chunks /\ Exported(angle, at) => Exported(angle, at)',
           ExportsAreWhole', JobIsSound(next)',
           NEW before, before = Mended(job), NEW after, after = Mended(next)',
           \A n \in 0..Len(GroupOf) : FileIsSound(before, n) => FileIsSound(after, n)
    PROVE  StreamIsSound'
  <1>1. /\ task.pc = "parse" /\ task.after = <<>> /\ ~done /\ jobs = {job}
        /\ SeenIsExported(task.seen)
    BY AwaitedParse
  <1>2. PICK n \in 1..remote : n \in 0..Len(GroupOf) /\ Fetched(n) /\ FileIsSound(Mended(job), n)
    BY AwaitedParse
  <1>3. jobs' = {next}
    BY <1>1 DEF Becomes
  <1>4. n \in 0..remote' /\ n # 0
    BY <1>2, StreamFacts
  <1>5. FileIsSound(after, n)'
    BY <1>2, FilesStaySound
  <1>6. Fetched(n)'
    <2>1. \A j \in jobs' : FileIsSound(Mended(j), n)'
      BY <1>3, <1>5 DEF FileIsSound
    <2> QED BY <1>1, <1>2, <1>4, <2>1 DEF Fetched
  <1>7. SeenIsExported(task.seen)'
    <2>1. PICK seen : seen = task.seen
      OBVIOUS
    <2>2. SeenIsExported(seen)'
      BY <1>1, <2>1, ExportsGrow
    <2> QED BY <2>1, <2>2 DEF SeenIsExported
  <1>8. IngestIsSound'
    BY <1>1, <1>4, <1>6, <1>7 DEF IngestIsSound
  <1>9. StateIsSound' /\ DoneIsComplete' /\ ParseIsOwned'
    BY <1>1, <1>3 DEF StateIsSound, DoneIsComplete, ParseIsOwned
  <1> QED BY <1>8, <1>9 DEF StreamIsSound

LEMMA ReadFileKeeps ==
    ASSUME StreamInv, NEW job \in jobs, ReadFile(job)
    PROVE  StreamInv'
  <1>1. PICK next : next = [job EXCEPT !.stage = "read", !.view = file]
    OBVIOUS
  <1>2. /\ job.stage = "queued" /\ Becomes(job, next)
        /\ UNCHANGED <<remote, file, saved, task, exported, done, faults>>
    BY <1>1 DEF ReadFile
  <1>3. StreamType' /\ (Undisturbed' => Undisturbed)
    BY <1>2 DEF StreamInv, StreamType, Undisturbed, Had
  <1>4. ASSUME Undisturbed PROVE StreamIsSound'
    <2>1. StreamIsSound
      BY <1>4 DEF StreamInv
    <2>2. JobIsSound(job) /\ ExportsAreWhole
      BY <2>1, AwaitedParse DEF StreamIsSound
    <2>3. /\ DOMAIN next = JobFields /\ next.awaited = TRUE /\ next.seen = task.seen
          /\ next.at = 0 /\ next.groups = job.groups /\ next.stage = "read" /\ next.view = file
          /\ next.size = job.size
      BY <1>1, <1>2, <2>2 DEF JobIsSound, JobFields
    <2>4. job.size = Untrimmed /\ Offset = Len(file)
      BY <1>2, <2>2 DEF JobIsSound, StageIsSound
    <2>5. JobIsSound(next)'
      BY <1>2, <2>2, <2>3, <2>4 DEF JobIsSound, StageIsSound, Exported, Offset
    <2>6. Mended(next)' = Mended(job)
      BY <1>2, <2>3 DEF Mended
    <2>7. ExportsAreWhole' /\ \A angle, at : Exported(angle, at)' <=> Exported(angle, at)
      BY <1>2, <2>2 DEF ExportsAreWhole, Exported
    <2> QED BY <1>2, <2>1, <2>5, <2>6, <2>7, ParseGoesOn
  <1> QED BY <1>3, <1>4 DEF StreamInv

\* Of the groups that are seen whole some are exported; the others were before, or
\* the parse fails.
LEMMA ExportingKeeps ==
    ASSUME StreamInv, StreamIsSound, NEW job \in jobs, job.stage = "read",
           NEW S, S \subseteq Exports(job), exported' = WithExports(S),
           NEW stage, stage \in {"written", "done"}, stage = "written" => S = Exports(job),
           Becomes(job, [job EXCEPT !.groups = S, !.stage = stage]),
           UNCHANGED <<remote, file, saved, task, done>>
    PROVE  StreamIsSound'
  <1>1. JobIsSound(job) /\ SeenIsExported(task.seen)
    BY AwaitedParse
  <1>2. job.view = file /\ job.size = Untrimmed /\ Offset = Len(file) /\ job.seen = task.seen
    BY <1>1 DEF JobIsSound, StageIsSound
  <1>3. PICK n \in 0..Len(GroupOf) : FileIsSound(Mended(job), n)
    BY AwaitedParse
  <1>4. PICK k \in 1..(n + 1) : HoldsRun(file, k, n)
    BY <1>3 DEF FileIsSound, Mended
  <1>5. \A g \in VisibleGroups(file) : g.angle \in Angles /\ g.at \in Chunks /\ g.whole = TRUE
    BY <1>3, <1>4, VisibleInRun
  <1>6. Exports(job) = {g \in VisibleGroups(file) : ShouldExport(g, task.seen)}
    BY <1>2 DEF Exports
  <1>7. \A g \in S : g.angle \in Angles /\ g.at \in Chunks /\ g.whole = TRUE
    BY <1>5, <1>6
  <1>8. /\ ExportsAreWhole'
        /\ \A angle, at : at \in Chunks /\ Exported(angle, at) => Exported(angle, at)'
        /\ \A g \in S : Exported(g.angle, g.at)'
    <2>1. ExportsAreWhole
      BY DEF StreamIsSound
    <2> QED BY <1>7, <2>1, ExportsAreKept
  <1>9. ASSUME stage = "written", NEW g \in VisibleGroups(file) PROVE Exported(g.angle, g.at)'
    <2>1. CASE g \in S
      BY <1>8, <2>1
    <2>2. CASE g \notin S
      <3>1. PICK s \in task.seen : s.angle = g.angle /\ ~(g.at > s.at)
        BY <1>6, <1>9, <2>2 DEF ShouldExport
      <3>2. s.at \in Chunks /\ Exported(s.angle, s.at)
        BY <1>1 DEF SeenIsExported
      <3>3. PICK x \in exported : x.angle = s.angle /\ x.at >= s.at
        BY <3>2 DEF Exported
      <3>4. x.at \in Int /\ g.at \in Int /\ s.at \in Int /\ g.at \in Chunks
        <4>1. Chunks = 1..Len(GroupOf) /\ Len(GroupOf) \in Nat
          BY StreamFacts
        <4>2. x.at \in Chunks
          BY DEF StreamIsSound, ExportsAreWhole
        <4>3. g.at \in Chunks
          BY <1>5
        <4> QED BY <3>2, <4>1, <4>2, <4>3
      <3>5. x.at >= g.at
        <4>1. PICK i, j, l : i = x.at /\ j = g.at /\ l = s.at
          OBVIOUS
        <4>2. i \in Int /\ j \in Int /\ l \in Int /\ ~(j > l) /\ i >= l
          BY <3>1, <3>3, <3>4, <4>1
        <4>3. i >= j
          BY <4>2
        <4> QED BY <4>1, <4>3
      <3>6. Exported(g.angle, g.at)
        BY <3>1, <3>3, <3>5 DEF Exported
      <3> QED BY <1>8, <3>4, <3>6
    <2> QED BY <2>1, <2>2
  <1>10. PICK next : next = [job EXCEPT !.groups = S, !.stage = stage]
    OBVIOUS
  <1>11. /\ DOMAIN next = JobFields /\ next.awaited = TRUE /\ next.seen = task.seen
         /\ next.at = 0 /\ next.groups = S /\ next.stage = stage /\ next.view = file
         /\ next.size = Untrimmed /\ Becomes(job, next)
    BY <1>1, <1>2, <1>10 DEF JobIsSound, JobFields
  <1>12. StageIsSound(next)'
    <2>1. Offset' = Len(file') /\ next.view = file'
      BY <1>2, <1>11 DEF Offset
    <2>2. stage = "written" => \A g \in VisibleGroups(file') : Exported(g.angle, g.at)'
      BY <1>9
    <2> QED BY <1>11, <2>1, <2>2 DEF StageIsSound
  <1>13. JobIsSound(next)'
    BY <1>7, <1>8, <1>11, <1>12 DEF JobIsSound
  <1>14. Mended(next)' = Mended(job)
    BY <1>11 DEF Mended
  <1> QED BY <1>8, <1>11, <1>13, <1>14, ParseGoesOn

LEMMA WriteArtifactsKeeps ==
    ASSUME StreamInv, NEW job \in jobs, WriteArtifacts(job)
    PROVE  StreamInv'
  <1>1. PICK S, stage : /\ S = Exports(job)
                        /\ stage = IF VisibleGroups(job.view) = {} THEN "done" ELSE "written"
    OBVIOUS
  <1>2. /\ exported' = WithExports(S) /\ job.stage = "read"
        /\ Becomes(job, [job EXCEPT !.groups = S, !.stage = stage])
        /\ UNCHANGED <<remote, file, saved, task, done, faults>>
    BY <1>1 DEF WriteArtifacts
  <1>3. StreamType' /\ (Undisturbed' => Undisturbed)
    BY <1>2 DEF StreamInv, StreamType, Undisturbed, Had
  <1>4. ASSUME Undisturbed PROVE StreamIsSound'
    <2>1. StreamIsSound /\ stage \in {"written", "done"}
      BY <1>1, <1>4 DEF StreamInv
    <2> QED BY <1>1, <1>2, <2>1, ExportingKeeps
  <1> QED BY <1>3, <1>4 DEF StreamInv

LEMMA ParseFailsKeeps ==
    ASSUME StreamInv, NEW job \in jobs, ParseFails(job)
    PROVE  StreamInv'
  <1>1. PICK S : /\ S \subseteq Exports(job) /\ exported' = WithExports(S)
                 /\ Becomes(job, [job EXCEPT !.groups = S, !.stage = "done"])
    BY DEF ParseFails
  <1>2. job.stage = "read" /\ Fault("error") /\ UNCHANGED <<remote, file, saved, task, done>>
    BY DEF ParseFails
  <1>3. faults' \in Seq(FaultKinds) /\ (Undisturbed' => Undisturbed)
    BY <1>2, FaultIsHad DEF StreamInv, FaultKinds
  <1>4. StreamType'
    BY <1>2, <1>3 DEF StreamInv, StreamType
  <1>5. ASSUME Undisturbed PROVE StreamIsSound'
    <2>1. StreamIsSound
      BY <1>5 DEF StreamInv
    <2>2. PICK stage : stage = "done"
      OBVIOUS
    <2>3. Becomes(job, [job EXCEPT !.groups = S, !.stage = stage]) /\ stage # "written"
      BY <1>1, <2>2
    <2> QED BY <1>1, <1>2, <2>1, <2>2, <2>3, ExportingKeeps
  <1> QED BY <1>3, <1>4, <1>5 DEF StreamInv

\* What is to be written back is sound: what it leaves out is exported.
LEMMA StartTrimKeeps ==
    ASSUME StreamInv, NEW job \in jobs, StartTrim(job)
    PROVE  StreamInv'
  <1>1. PICK rest, exporting : rest = Trimmed(job.view, exporting) /\ exporting = (job.groups # {})
    OBVIOUS
  <1>2. PICK next : next = [job EXCEPT !.stage = "rewriting", !.view = <<>>, !.rest = rest]
    OBVIOUS
  <1>3. /\ job.stage = "written" /\ file' = <<>> /\ Becomes(job, next)
        /\ UNCHANGED <<remote, saved, task, exported, done, faults>>
    BY <1>1, <1>2 DEF StartTrim
  <1>4. StreamType' /\ (Undisturbed' => Undisturbed)
    BY <1>3 DEF StreamInv, StreamType, Undisturbed, Had
  <1>5. ASSUME Undisturbed PROVE StreamIsSound'
    <2>1. StreamIsSound
      BY <1>5 DEF StreamInv
    <2>2. JobIsSound(job) /\ ExportsAreWhole
      BY <2>1, AwaitedParse DEF StreamIsSound
    <2>3. /\ job.view = file /\ job.size = Untrimmed /\ job.at = 0
          /\ \A g \in VisibleGroups(file) : Exported(g.angle, g.at)
      BY <1>3, <2>2 DEF JobIsSound, StageIsSound
    <2>4. PICK f : f = file
      OBVIOUS
    <2>5. ASSUME NEW n \in 0..Len(GroupOf), FileIsSound(f, n)
          PROVE  FileIsSound(rest, n) /\ rest \in Seq(Int)
      <3>1. PICK k \in 1..(n + 1) : HoldsRun(f, k, n) /\ ExportedBefore(k)
        BY <2>5 DEF FileIsSound
      <3>2. PICK l \in k..(n + 1) :
               /\ HoldsRun(Trimmed(f, exporting), l, n)
               /\ \A c \in Chunks : k <= c /\ c < l => LastOf(c) <= n
        BY <3>1, TrimmedRun
      <3>3. HoldsRun(rest, l, n) /\ l \in 1..(n + 1)
        BY <1>1, <2>3, <2>4, <3>1, <3>2
      <3>4. ExportedBefore(l)
        <4> SUFFICES ASSUME NEW c \in Chunks, c < l
                     PROVE  Exported(AngleOf[GroupOf[c]], LastOf(c))
          BY DEF ExportedBefore
        <4>1. CASE c < k
          BY <3>1, <4>1 DEF ExportedBefore
        <4>2. CASE ~(c < k)
          <5>1. k <= c
            <6>1. Chunks = 1..Len(GroupOf)
              BY StreamFacts
            <6> QED BY <3>1, <4>2, <6>1
          <5>2. LastOf(c) <= n
            BY <3>2, <5>1
          <5>3. PICK g \in VisibleGroups(f) : g.angle = AngleOf[GroupOf[c]] /\ g.at = LastOf(c)
            BY <3>1, <5>1, <5>2, RunIsVisible
          <5> QED BY <2>3, <2>4, <5>3
        <4> QED BY <4>1, <4>2
      <3>5. rest \in Seq(Int)
        BY <3>3, RunIsClean
      <3> QED BY <3>3, <3>4, <3>5 DEF FileIsSound
    <2>6. Mended(job) = f
      BY <1>3, <2>4 DEF Mended
    <2>7. rest \in Seq(Int)
      <3>1. PICK n \in 0..Len(GroupOf) : FileIsSound(f, n)
        BY <2>1, <2>6, AwaitedParse
      <3> QED BY <2>5, <3>1
    <2>8. /\ DOMAIN next = JobFields /\ next.awaited = TRUE /\ next.seen = task.seen
          /\ next.at = 0 /\ next.groups = job.groups /\ next.stage = "rewriting"
          /\ next.rest = rest /\ next.size = Untrimmed
      BY <1>2, <2>2, <2>3 DEF JobIsSound, JobFields
    <2>9. JobIsSound(next)'
      <3>1. <<>> \in Seq(Int) /\ Len(<<>>) = 0
        OBVIOUS
      <3> QED BY <1>3, <2>2, <2>7, <2>8, <3>1 DEF JobIsSound, StageIsSound, Exported
    <2>10. Mended(next)' = rest
      BY <1>3, <2>7, <2>8 DEF Mended
    <2>11. ExportsAreWhole' /\ \A angle, at : Exported(angle, at)' <=> Exported(angle, at)
      BY <1>3, <2>2 DEF ExportsAreWhole, Exported
    <2> QED BY <1>3, <2>1, <2>5, <2>6, <2>9, <2>10, <2>11, ParseGoesOn
  <1> QED BY <1>4, <1>5 DEF StreamInv

\* Item by item the file becomes what it is to be.
LEMMA WriteBackKeeps ==
    ASSUME StreamInv, NEW job \in jobs, WriteBack(job)
    PROVE  StreamInv'
  <1>1. PICK next : next = [job EXCEPT !.rest = Tail(@), !.at = @ + 1]
    OBVIOUS
  <1>2. /\ job.stage = "rewriting" /\ job.rest # <<>> /\ file' \in Put(file, job.at, <<Head(job.rest)>>)
        /\ Becomes(job, next) /\ UNCHANGED <<remote, saved, task, exported, done, faults>>
    BY <1>1 DEF WriteBack
  <1>3. StreamType' /\ (Undisturbed' => Undisturbed)
    BY <1>2 DEF StreamInv, StreamType, Undisturbed, Had
  <1>4. ASSUME Undisturbed PROVE StreamIsSound'
    <2>1. StreamIsSound
      BY <1>4 DEF StreamInv
    <2>2. JobIsSound(job) /\ ExportsAreWhole
      BY <2>1, AwaitedParse DEF StreamIsSound
    <2>3. PICK f, rest : f = file /\ rest = job.rest
      OBVIOUS
    <2>4. f \in Seq(Int) /\ rest \in Seq(Int) /\ rest # <<>> /\ job.at = Len(f) /\ job.size = Untrimmed
      BY <1>2, <2>2, <2>3 DEF JobIsSound, StageIsSound
    <2>5. PICK h, t : h = Head(rest) /\ t = Tail(rest)
      OBVIOUS
    <2>6. h \in Int /\ t \in Seq(Int) /\ rest = <<h>> \o t /\ <<h>> \in Seq(Int) /\ Len(<<h>>) = 1
      BY <2>4, <2>5, HeadTailProperties
    <2>7. file' = f \o <<h>>
      BY <1>2, <2>3, <2>4, <2>5, <2>6, PutAtEnd
    <2>8. f \o <<h>> \in Seq(Int) /\ Len(f \o <<h>>) = Len(f) + 1
      BY <2>4, <2>6, ConcatProperties
    <2>9. (f \o <<h>>) \o t = f \o rest
      BY <2>4, <2>6, ConcatAssociative
    <2>10. /\ DOMAIN next = JobFields /\ next.awaited = TRUE /\ next.seen = task.seen
           /\ next.at = Len(f) + 1 /\ next.groups = job.groups /\ next.stage = "rewriting"
           /\ next.rest = t /\ next.size = Untrimmed
      BY <1>1, <1>2, <2>2, <2>3, <2>4, <2>5 DEF JobIsSound, JobFields
    <2>11. JobIsSound(next)'
      BY <1>2, <2>2, <2>6, <2>7, <2>8, <2>10 DEF JobIsSound, StageIsSound, Exported
    <2>12. Mended(job) = f \o rest /\ Mended(next)' = f \o rest
      BY <1>2, <2>3, <2>7, <2>9, <2>10 DEF Mended
    <2>13. ExportsAreWhole' /\ \A angle, at : Exported(angle, at)' <=> Exported(angle, at)
      BY <1>2, <2>2 DEF ExportsAreWhole, Exported
    <2> QED BY <1>2, <2>1, <2>11, <2>12, <2>13, ParseGoesOn
  <1> QED BY <1>3, <1>4 DEF StreamInv

LEMMA EndTrimKeeps ==
    ASSUME StreamInv, NEW job \in jobs, EndTrim(job)
    PROVE  StreamInv'
  <1>1. PICK next : next = [job EXCEPT !.stage = "done", !.size = Len(file)]
    OBVIOUS
  <1>2. /\ job.stage = "rewriting" /\ job.rest = <<>> /\ Becomes(job, next)
        /\ UNCHANGED <<remote, file, saved, task, exported, done, faults>>
    BY <1>1 DEF EndTrim
  <1>3. StreamType' /\ (Undisturbed' => Undisturbed)
    BY <1>2 DEF StreamInv, StreamType, Undisturbed, Had
  <1>4. ASSUME Undisturbed PROVE StreamIsSound'
    <2>1. StreamIsSound
      BY <1>4 DEF StreamInv
    <2>2. JobIsSound(job) /\ ExportsAreWhole
      BY <2>1, AwaitedParse DEF StreamIsSound
    <2>3. file \in Seq(Int)
      BY <1>2, <2>2 DEF JobIsSound, StageIsSound
    <2>4. Len(file) \in Nat /\ Len(file) # Untrimmed /\ file \o <<>> = file
      <3>1. Len(file) \in Nat
        BY <2>3, LenProperties
      <3>2. file \o <<>> = file
        BY <2>3, ConcatEmptySeq
      <3> QED BY <3>1, <3>2 DEF Untrimmed
    <2>5. /\ DOMAIN next = JobFields /\ next.awaited = TRUE /\ next.seen = task.seen
          /\ next.groups = job.groups /\ next.stage = "done" /\ next.size = Len(file)
      BY <1>1, <2>2 DEF JobIsSound, JobFields
    <2>6. JobIsSound(next)'
      BY <1>2, <2>2, <2>4, <2>5 DEF JobIsSound, StageIsSound, Exported
    <2>7. Mended(job) = file /\ Mended(next)' = file
      BY <1>2, <2>4, <2>5 DEF Mended
    <2>8. ExportsAreWhole' /\ \A angle, at : Exported(angle, at)' <=> Exported(angle, at)
      BY <1>2, <2>2 DEF ExportsAreWhole, Exported
    <2>9. PICK f : f = file
      OBVIOUS
    <2> QED BY <1>2, <2>1, <2>6, <2>7, <2>8, <2>9, ParseGoesOn
  <1> QED BY <1>3, <1>4 DEF StreamInv

\* The ingest goes on when its parse has ended, with what it was told.
LEMMA IngestGoesOn ==
    ASSUME StreamInv, StreamIsSound, NEW job \in jobs, job.stage # "rewriting", jobs' = {},
           NEW S, S \subseteq job.groups, NEW pos, task' = AfterParse(S, pos),
           task.append \/ pos = Len(file),
           pos = task.pos \/ pos = Len(file),
           UNCHANGED <<remote, file, saved, exported, done>>
    PROVE  StreamIsSound'
  <1>1. /\ task.pc = "parse" /\ task.after = <<>> /\ ~done /\ JobIsSound(job)
        /\ SeenIsExported(task.seen)
    BY AwaitedParse
  <1>2. PICK n \in 1..remote : n \in 0..Len(GroupOf) /\ Fetched(n) /\ FileIsSound(Mended(job), n)
    BY AwaitedParse
  <1>3. FileIsSound(file, n)
    BY <1>2 DEF Mended, FileIsSound
  <1>4. n \in 0..remote' /\ n # 0
    BY <1>2, StreamFacts
  <1>5. /\ task'.pc = "fetch" /\ task'.keys = task.keys /\ task'.todo = task.todo
        /\ task'.pos = pos /\ task'.after = <<>> /\ task'.append = task.append
        /\ task'.seen = {s \in task.seen : \A g \in S : <<s.angle, s.name>> # <<g.angle, g.name>>}
                        \cup {[angle |-> g.angle, name |-> g.name, at |-> g.at] : g \in S}
    BY <1>1, StreamFacts DEF AfterParse
  <1>6. SeenIsExported(task.seen)'
    <2>1. \A g \in S : g.at \in Chunks /\ Exported(g.angle, g.at)
      BY <1>1 DEF JobIsSound
    <2>2. ASSUME NEW s \in task'.seen PROVE s.at \in Chunks /\ Exported(s.angle, s.at)
      <3>1. CASE s \in task.seen
        BY <1>1, <3>1 DEF SeenIsExported
      <3>2. CASE s \notin task.seen
        <4>1. PICK g \in S : s = [angle |-> g.angle, name |-> g.name, at |-> g.at]
          BY <1>5, <3>2
        <4>2. s.angle = g.angle /\ s.at = g.at
          BY <4>1
        <4> QED BY <2>1, <4>2
      <3> QED BY <3>1, <3>2
    <2> QED BY <2>2 DEF SeenIsExported, Exported
  <1>7. pos \in Nat \ {0}
    <2>1. PICK k : HoldsRun(file, k, n)
      BY <1>3 DEF FileIsSound
    <2>2. Len(file) \in Nat \ {0}
      BY <1>2, <2>1, RunIsAFile
    <2> QED BY <1>2, <1>4, <2>2 DEF Fetched
  <1>8. FileIsSound(file, n)'
    BY <1>3 DEF FileIsSound, ExportedBefore, Exported
  <1>9. Fetched(n)'
    BY <1>2, <1>4, <1>5, <1>7, <1>8 DEF Fetched
  <1>10. Offset' = Len(file')
    BY <1>5 DEF Offset
  <1>11. IngestIsSound'
    BY <1>4, <1>5, <1>6, <1>9, <1>10 DEF IngestIsSound
  <1>12. ExportsAreWhole' /\ StateIsSound' /\ ParseIsOwned' /\ DoneIsComplete'
    BY <1>1, <1>5 DEF StreamIsSound, ExportsAreWhole, StateIsSound, ParseIsOwned, DoneIsComplete
  <1> QED BY <1>11, <1>12 DEF StreamIsSound

LEMMA AfterParseType ==
    ASSUME StreamInv, NEW S, NEW pos, task' = AfterParse(S, pos)
    PROVE  DOMAIN task' = DOMAIN Idle /\ task'.pc \in Pcs
  BY StreamFacts DEF AfterParse, Idle, Pcs

\* The parent takes over what it has to know of the file.
LEMMA DeliverKeeps ==
    ASSUME StreamInv, NEW job \in jobs, Deliver(job)
    PROVE  StreamInv'
  <1>1. PICK pos : pos = IF job.size = Untrimmed THEN task.pos ELSE job.size
    OBVIOUS
  <1>2. /\ job.stage = "done" /\ jobs' = jobs \ {job}
        /\ task' = IF job.awaited THEN AfterParse(job.groups, pos) ELSE task
        /\ UNCHANGED <<remote, file, saved, exported, done, faults>>
    BY <1>1 DEF Deliver
  <1>3. StreamType' /\ (Undisturbed' => Undisturbed)
    <2>1. DOMAIN task' = DOMAIN Idle /\ task'.pc \in Pcs
      BY <1>2, AfterParseType DEF StreamInv, StreamType
    <2> QED BY <1>2, <2>1 DEF StreamInv, StreamType, Undisturbed, Had
  <1>4. ASSUME Undisturbed PROVE StreamIsSound'
    <2>1. StreamIsSound
      BY <1>4 DEF StreamInv
    <2>2. jobs = {job} /\ JobIsSound(job)
      BY <2>1, AwaitedParse
    <2>3. /\ job.awaited = TRUE
          /\ job.size = Untrimmed => Offset = Len(file)
          /\ job.size # Untrimmed => job.size = Len(file)
      BY <1>2, <2>2 DEF JobIsSound, StageIsSound
    <2>4. jobs' = {} /\ task' = AfterParse(job.groups, pos)
      BY <1>2, <2>2, <2>3
    <2>5. /\ task.append \/ pos = Len(file)
          /\ pos = task.pos \/ pos = Len(file)
      BY <1>1, <2>3 DEF Offset
    <2>6. PICK S : S = job.groups
      OBVIOUS
    <2> QED BY <1>2, <2>1, <2>4, <2>5, <2>6, IngestGoesOn
  <1> QED BY <1>3, <1>4 DEF StreamInv

\* Without its pool the ingest goes on, and no parse is left behind.
LEMMA PoolBreaksKeeps ==
    ASSUME StreamInv, PoolBreaks
    PROVE  StreamInv'
  <1>1. PICK kind : kind = IF \E job \in jobs : Tears(job) THEN "torn" ELSE "broken"
    OBVIOUS
  <1>2. PICK left \in SUBSET {j \in jobs : ~j.awaited} :
           jobs' = left /\ file' \in HalfWritten(jobs \ left)
    BY DEF PoolBreaks
  <1>3. /\ task.pc = "parse" /\ Fault(kind) /\ task' = AfterParse({}, task.pos)
        /\ UNCHANGED <<remote, saved, exported, done>>
    BY <1>1 DEF PoolBreaks
  <1>4. /\ faults' \in Seq(FaultKinds) /\ kind \in {"torn", "broken"}
        /\ Undisturbed' => Undisturbed /\ kind # "torn"
    <2>1. kind \in {"torn", "broken"}
      BY <1>1
    <2>2. kind \in FaultKinds /\ StreamType
      BY <2>1 DEF FaultKinds, StreamInv
    <2> QED BY <1>3, <2>1, <2>2, FaultIsHad DEF Unguarded
  <1>5. StreamType'
    <2>1. DOMAIN task' = DOMAIN Idle /\ task'.pc \in Pcs
      BY <1>3, AfterParseType
    <2> QED BY <1>3, <1>4, <2>1 DEF StreamInv, StreamType
  <1>6. ASSUME Undisturbed'
        PROVE  StreamIsSound'
    <2>1. StreamIsSound /\ \A job \in jobs : ~Tears(job)
      BY <1>1, <1>4, <1>6 DEF StreamInv
    <2>2. PICK job \in jobs : jobs = {job} /\ JobIsSound(job)
      BY <1>3, <2>1 DEF StreamIsSound, ParseIsOwned
    <2>3. job.awaited = TRUE /\ job.stage # "rewriting"
      BY <2>1, <2>2 DEF JobIsSound, Tears
    <2>4. jobs' = {}
      BY <1>2, <2>2, <2>3
    <2>5. file' = file
      BY <1>2, <2>2, <2>3 DEF HalfWritten
    <2>6. task.append \/ task.pos = Len(file)
      BY <2>1, <2>2 DEF JobIsSound, StageIsSound, Tears, Offset
    <2>7. PICK S, pos : S = {} /\ pos = task.pos
      OBVIOUS
    <2>8. task' = AfterParse(S, pos) /\ S \subseteq job.groups
      BY <1>3, <2>7
    <2> QED BY <1>3, <2>1, <2>3, <2>4, <2>5, <2>6, <2>7, <2>8, IngestGoesOn
  <1> QED BY <1>5, <1>6 DEF StreamInv

\* The invariant holds of every behaviour.
LEMMA StreamInvHolds == StreamSpec => []StreamInv
  <1>1. StreamInit => StreamInv
    BY InitStream
  <1>2. ASSUME StreamInv, [StreamNext]_streamVars PROVE StreamInv'
    <2>1. CASE UNCHANGED streamVars
      <3>1. UNCHANGED <<remote, file, saved, task, jobs, exported, done, faults>>
        BY <2>1 DEF streamVars
      <3>2. \A f, n : FileIsSound(f, n)' <=> FileIsSound(f, n)
        BY <3>1 DEF FileIsSound, ExportedBefore, Exported
      <3>3. StreamType' /\ (Undisturbed' <=> Undisturbed)
        BY <1>2, <3>1 DEF StreamInv, StreamType, Undisturbed, Had
      <3>4. StreamIsSound => StreamIsSound'
        <4>1. \A angle, at : Exported(angle, at)' <=> Exported(angle, at)
          BY <3>1 DEF Exported
        <4>2. \A seen : SeenIsExported(seen)' <=> SeenIsExported(seen)
          BY <4>1 DEF SeenIsExported
        <4>3. SeenIsExported(task.seen)' <=> SeenIsExported(task.seen)
          BY <3>1, <4>1 DEF SeenIsExported
        <4>4. SeenIsExported(saved.seen)' <=> SeenIsExported(saved.seen)
          BY <3>1, <4>1 DEF SeenIsExported
        <4>5. ExportsAreWhole => ExportsAreWhole'
          BY <3>1 DEF ExportsAreWhole
        <4>6. StateIsSound => StateIsSound'
          BY <3>1, <4>1, <4>4 DEF StateIsSound, FileIsSound, ExportedBefore
        <4>7. \A n \in 0..remote : Fetched(n) => Fetched(n)'
          BY <3>1, <4>1 DEF Fetched, FileIsSound, ExportedBefore, Mended
        <4>8. IngestIsSound => IngestIsSound'
          BY <3>1, <4>3, <4>7 DEF IngestIsSound, Offset
        <4>9. ParseIsOwned => ParseIsOwned'
          BY <3>1, <4>1 DEF ParseIsOwned, JobIsSound, StageIsSound, Offset
        <4>10. DoneIsComplete => DoneIsComplete'
          BY <3>1 DEF DoneIsComplete
        <4> QED BY <4>5, <4>6, <4>8, <4>9, <4>10 DEF StreamIsSound
      <3> QED BY <1>2, <3>3, <3>4 DEF StreamInv
    <2>2. CASE IngestStep
      BY <1>2, <2>2, StartIngestKeeps, AppendChunkKeeps, StartOverKeeps, LastParseKeeps,
         FinishIngestKeeps DEF IngestStep
    <2>3. CASE ParseStep
      BY <1>2, <2>3, ReadFileKeeps, WriteArtifactsKeeps, StartTrimKeeps, WriteBackKeeps,
         EndTrimKeeps, DeliverKeeps, NothingToParseKeeps DEF ParseStep
    <2>4. CASE Upload
      BY <1>2, <2>4, UploadKeeps
    <2>5. CASE ParseError
      BY <1>2, <2>5, ParseFailsKeeps, DisturbanceKeeps DEF ParseError
    <2>6. CASE ParseTimesOut \/ IngestCancelled \/ ServiceCrash \/ SkipEmpty \/ AppendBoundary
      BY <1>2, <2>6, DisturbanceKeeps
    <2>7. CASE PoolBreaks
      BY <1>2, <2>7, PoolBreaksKeeps
    <2>8. CASE PrunedByAnother
      BY <1>2, <2>8, PruneKeeps
    <2> QED BY <1>2, <2>1, <2>2, <2>3, <2>4, <2>5, <2>6, <2>7, <2>8 DEF StreamNext
  <1> QED BY <1>1, <1>2, PTL DEF StreamSpec

\* Unless a parse outlives its time limit, a worker fails or dies while it rewrites
\* the runtime file, an ingest is cut short, a chunk is stored before an earlier one
\* or holds the header of another volume: a chunk that is recorded as fetched is
\* seen by the next parse of the runtime file or its elevation is exported, and a
\* volume that is declared complete has an artifact of every chunk of each of its
\* elevations.  The file the ingest appends to, with what a rewrite has still to
\* write back, is always the header and an unbroken run of chunks.
THEOREM StreamLosesNothing == StreamSpec => []NothingLostOrTorn
  <1>1. ASSUME StreamInv PROVE NothingLostOrTorn
    <2>2. ASSUME Undisturbed, task.pc = "idle", ~done, NEW c \in saved.keys
          PROVE  \/ \E i \in 1..CleanLen(file) : file[i] = c
                 \/ \E g \in DOMAIN AngleOf :
                      c \in ChunksOf(g) /\ \E x \in exported :
                          x.angle = AngleOf[g] /\ x.at >= Max(ChunksOf(g))
      <3>1. StateIsSound
        BY <1>1, <2>2 DEF StreamInv, StreamIsSound
      <3>2. CASE saved = NoState
        BY <2>2, <3>2 DEF NoState
      <3>3. CASE saved # NoState
        <4>1. PICK n \in 1..remote :
                FileIsSound(file, n) /\ saved.keys = 1..n /\ SeenIsExported(saved.seen)
          BY <2>2, <3>1, <3>3 DEF StateIsSound
        <4>2. PICK k \in 1..(n + 1) : HoldsRun(file, k, n) /\ ExportedBefore(k)
          BY <4>1 DEF FileIsSound
        <4>3. n \in 0..Len(GroupOf) /\ c \in 1..n /\ c \in Chunks
          <5>1. remote \in Nat /\ remote <= Len(GroupOf) /\ Chunks = 1..Len(GroupOf) /\ Len(GroupOf) \in Nat
            BY <1>1, StreamFacts
          <5> QED BY <2>2, <4>1, <5>1
        <4>4. CASE c < k
          <5>1. Exported(AngleOf[GroupOf[c]], LastOf(c))
            BY <4>2, <4>3, <4>4 DEF ExportedBefore
          <5>2. GroupOf[c] \in DOMAIN AngleOf /\ c \in ChunksOf(GroupOf[c])
            BY <4>3, GroupIsARun DEF ChunksOf
          <5> QED BY <5>1, <5>2 DEF Exported, LastOf
        <4>5. CASE ~(c < k)
          <5>1. /\ CleanLen(file) = n - k + 2
                /\ \A i \in 2..(n - k + 2) : file[i] = k + i - 2
            <6>1. PICK f : f = file
              OBVIOUS
            <6>2. HoldsRun(f, k, n)
              BY <4>2, <6>1
            <6>3. /\ Len(f) = n - k + 2 /\ CleanLen(f) = Len(f)
                  /\ \A i \in 2..(n - k + 2) : f[i] = k + i - 2 /\ f[i] \in Chunks /\ f[i] \in k..n
              <7>1. n \in 0..Len(GroupOf)
                BY <4>3
              <7> QED BY <6>2, <7>1, RunIsClean
            <6> QED BY <6>1, <6>3
          <5>2. /\ c - k + 2 \in 2..(n - k + 2) /\ c - k + 2 \in 1..(n - k + 2)
                /\ k + (c - k + 2) - 2 = c
            BY <4>1, <4>2, <4>3, <4>5
          <5>3. file[c - k + 2] = c
            BY <5>1, <5>2
          <5> QED BY <5>1, <5>2, <5>3
        <4> QED BY <4>4, <4>5
      <3> QED BY <3>2, <3>3
    <2>3. RecordedChunksKept
      BY <2>2 DEF RecordedChunksKept, Undisturbed
    <2>4. CompleteIsWhole
      <3> SUFFICES ASSUME done, Undisturbed, NEW a \in Angles
                   PROVE  \E x \in exported : x.angle = a /\ x.whole
        BY DEF CompleteIsWhole, Undisturbed
      <3>1. DoneIsComplete /\ ExportsAreWhole
        BY <1>1 DEF StreamInv, StreamIsSound
      <3>2. PICK x \in exported : x.angle = a
        BY <3>1 DEF DoneIsComplete
      <3>3. x.whole = TRUE
        <4>1. PICK b : b = x.whole
          OBVIOUS
        <4>2. b \in {TRUE}
          BY <3>1, <3>2, <4>1 DEF ExportsAreWhole
        <4> QED BY <4>1, <4>2
      <3> QED BY <3>2, <3>3, Zenon
    <2> QED BY <2>3, <2>4 DEF NothingLostOrTorn
  <1>2. StreamSpec => []StreamInv
    BY StreamInvHolds
  <1> QED BY <1>1, <1>2, PTL

-----------------------------------------------------------------------------
(***************************************************************************)
(* The artifacts of an elevation (NexradArtifacts).  Writer and renderer   *)
(* share no lock.  What keeps the renderer off a half-written file is the  *)
(* sidecar and, for a renderer that has seen the sidecar already, that an  *)
(* artifact once pruned is not written again, because a newer one is there.*)
(***************************************************************************)
Committed(t) ==
    source[t] = "whole" \/ (source[t] = "none" /\ \E u \in Stamps : source[u] # "none" /\ u > t)

ArtifactType ==
    /\ source \in [Stamps -> {"none", "torn", "whole"}]
    /\ sidecar \subseteq Stamps
    /\ writer \in [pc: {"idle", "file", "sidecar", "prune", "unlink"}, at: Stamps \cup {0}]
    /\ writer.pc # "idle" => writer.at \in Stamps
    /\ batch \in [Stamps -> [pc: {"out", "check", "open", "decode"}, saw: {"none", "torn", "whole"}]]
    /\ DOMAIN bin = Stamps

ReadIsCommitted ==
    /\ \A t \in Stamps : t \in sidecar \/ batch[t].pc = "open" => Committed(t)
    /\ \A t \in Stamps : batch[t].pc = "decode" => batch[t].saw = "whole"
    /\ writer.pc = "sidecar" => source[writer.at] = "whole"
    /\ \A t \in Stamps : \A b \in bin[t] : b.from = "whole"
ArtifactInv == ArtifactType /\ ("again" \notin upsets => ReadIsCommitted)

\* A new artifact is newer than all on disk, so none that was committed is written again.
LEMMA BeginArtifactKeeps == ASSUME ArtifactInv, NEW t \in Stamps, BeginArtifact(t) PROVE ArtifactInv'
  <1>0. ArtifactType /\ ("again" \notin upsets => ReadIsCommitted)
    BY DEF ArtifactInv
  <1>1. /\ UNCHANGED <<sidecar, bin, batch, aged>> /\ writer = Resting
        /\ source' = [source EXCEPT ![t] = "torn"] /\ writer' = [pc |-> "file", at |-> t]
    BY DEF BeginArtifact
  <1>2. ArtifactType'
    BY <1>0, <1>1 DEF ArtifactType
  <1>3. CASE t \in OnDisk
    BY <1>2, <1>3 DEF BeginArtifact, Upset, ArtifactInv
  <1>4. CASE t \notin OnDisk
    <2>1. upsets' = upsets /\ (\A u \in OnDisk : u < t) /\ source[t] = "none"
      BY <1>0, <1>4 DEF BeginArtifact, OnDisk, ArtifactType
    <2>2. \A u \in Stamps : u # t => source'[u] = source[u]
      BY <1>0, <1>1 DEF ArtifactType
    <2>3. source'[t] = "torn"
      BY <1>0, <1>1 DEF ArtifactType
    <2>4. ~Committed(t)
      BY <2>1, ArtifactAssumption DEF Committed, OnDisk
    <2>5. \A u \in Stamps : Committed(u) => Committed(u)'
      <3> SUFFICES ASSUME NEW u \in Stamps, Committed(u) PROVE Committed(u)'
        OBVIOUS
      <3>1. u # t /\ source'[u] = source[u]
        BY <2>2, <2>4
      <3>2. \A v \in Stamps : source[v] # "none" => source'[v] # "none"
        BY <2>2, <2>3
      <3> QED
        BY <3>1, <3>2 DEF Committed
    <2>6. writer'.pc = "file"
      BY <1>1
    <2> QED
      BY <1>0, <1>1, <1>2, <2>1, <2>5, <2>6 DEF ArtifactInv, ReadIsCommitted
  <1> QED
    BY <1>3, <1>4

\* The writer finishes a file, announces it, and prunes older ones.
LEMMA WriterStepKeeps == ArtifactInv /\ WriterStep => ArtifactInv'
  <1> SUFFICES ASSUME ArtifactInv, WriterStep PROVE ArtifactInv'
    OBVIOUS
  <1>0. ArtifactType /\ ("again" \notin upsets => ReadIsCommitted)
    BY DEF ArtifactInv
  <1>1. CASE CompleteArtifact
    <2>1. /\ UNCHANGED <<sidecar, bin, batch, aged, upsets>> /\ writer.at \in Stamps
          /\ source' = [source EXCEPT ![writer.at] = "whole"]
          /\ writer' = [writer EXCEPT !.pc = "sidecar"]
      BY <1>0, <1>1 DEF CompleteArtifact, ArtifactType
    <2>2. ArtifactType' /\ writer'.at = writer.at
      BY <1>0, <2>1 DEF ArtifactType
    <2>3. source'[writer.at] = "whole" /\ \A u \in Stamps : u # writer.at => source'[u] = source[u]
      BY <1>0, <2>1 DEF ArtifactType
    <2>4. \A u \in Stamps : Committed(u) => Committed(u)'
      BY <2>3 DEF Committed
    <2> QED
      BY <1>0, <2>1, <2>2, <2>3, <2>4 DEF ArtifactInv, ReadIsCommitted
  <1>2. CASE WriteSidecar
    <2>1. /\ UNCHANGED <<source, bin, batch, aged, upsets>> /\ writer.pc = "sidecar"
          /\ writer.at \in Stamps /\ sidecar' = sidecar \cup {writer.at}
          /\ writer' = [writer EXCEPT !.pc = "prune"]
      BY <1>0, <1>2 DEF WriteSidecar, ArtifactType
    <2>2. ArtifactType' /\ writer'.pc = "prune"
      BY <1>0, <2>1 DEF ArtifactType
    <2> QED
      BY <1>0, <2>1, <2>2 DEF ArtifactInv, ReadIsCommitted, Committed
  <1>3. CASE PruneArtifact
    <2>1. UNCHANGED <<sidecar, bin, batch, aged, upsets>>
      BY <1>3 DEF PruneArtifact
    <2>2. CASE writer' = Resting /\ UNCHANGED source
      BY <1>0, <2>1, <2>2 DEF ArtifactInv, ArtifactType, ReadIsCommitted, Committed, Resting
    <2>3. ASSUME NEW t \in OnDisk \ NewestOnDisk, source' = [source EXCEPT ![t] = "none"],
                 writer' = [pc |-> "unlink", at |-> t]
          PROVE  ArtifactInv'
      <3>1. t \in Stamps /\ source[t] # "none"
        BY DEF OnDisk
      <3>2. PICK n \in OnDisk : n > t
        <4>1. ~(Cardinality({u \in OnDisk : u > t}) < MaxKept)
          BY DEF NewestOnDisk
        <4>2. {u \in OnDisk : u > t} # {}
          BY <4>1, ArtifactAssumption, FS_EmptySet
        <4> QED
          BY <4>2
      <3>3. ArtifactType' /\ writer'.pc = "unlink"
        BY <1>0, <2>1, <2>3, <3>1 DEF ArtifactType
      <3>4. source'[t] = "none" /\ \A u \in Stamps : u # t => source'[u] = source[u]
        BY <1>0, <2>3, <3>1 DEF ArtifactType
      <3>5. n \in Stamps /\ n # t /\ source'[n] # "none"
        BY <3>1, <3>2, <3>4, ArtifactAssumption DEF OnDisk
      <3>6. \A u \in Stamps : Committed(u) => Committed(u)'
        <4> SUFFICES ASSUME NEW u \in Stamps, Committed(u) PROVE Committed(u)'
          OBVIOUS
        <4>1. CASE u = t
          BY <3>2, <3>4, <3>5, <4>1 DEF Committed
        <4>2. CASE u # t /\ source[u] = "whole"
          BY <3>4, <4>2 DEF Committed
        <4>3. CASE u # t /\ source[u] = "none"
          <5>1. PICK v \in Stamps : source[v] # "none" /\ v > u
            BY <4>3 DEF Committed
          <5>2. CASE v # t
            BY <3>4, <4>3, <5>1, <5>2 DEF Committed
          <5>3. CASE v = t
            <6>1. n > u
              BY <3>1, <3>2, <3>5, <5>1, <5>3, ArtifactAssumption
            <6> QED
              BY <3>4, <3>5, <4>3, <6>1 DEF Committed
          <5> QED
            BY <5>2, <5>3
        <4> QED
          BY <4>1, <4>2, <4>3 DEF Committed
      <3> QED
        BY <1>0, <2>1, <3>3, <3>6 DEF ArtifactInv, ReadIsCommitted
    <2> QED
      BY <1>3, <2>2, <2>3 DEF PruneArtifact
  <1>4. CASE PruneSidecar
    <2>1. /\ UNCHANGED <<source, bin, batch, aged, upsets>> /\ sidecar' \subseteq sidecar
          /\ writer' = [writer EXCEPT !.pc = "prune"] /\ writer.pc = "unlink"
      BY <1>4 DEF PruneSidecar
    <2>2. ArtifactType' /\ writer'.pc = "prune"
      BY <1>0, <2>1 DEF ArtifactType
    <2> QED
      BY <1>0, <2>1, <2>2 DEF ArtifactInv, ReadIsCommitted, Committed
  <1> QED
    BY <1>1, <1>2, <1>3, <1>4 DEF WriterStep

\* What the renderer goes on to open has a sidecar, and what it decodes it has opened.
LEMMA BatchKeeps ==
  ASSUME ArtifactInv, UNCHANGED <<source, sidecar, writer, bin>>, upsets \subseteq upsets',
         batch' \in [Stamps -> [pc: {"out", "check", "open", "decode"}, saw: {"none", "torn", "whole"}]],
         \A t \in Stamps : batch'[t].pc = "open" => batch[t].pc = "open" \/ t \in sidecar,
         \A t \in Stamps : batch'[t].pc = "decode" =>
            \/ batch[t].pc = "decode" /\ batch'[t].saw = batch[t].saw
            \/ batch[t].pc = "open" /\ source[t] # "none" /\ batch'[t].saw = source[t]
  PROVE  ArtifactInv'
  <1>0. ArtifactType /\ ("again" \notin upsets => ReadIsCommitted)
    BY DEF ArtifactInv
  <1>1. ArtifactType'
    BY <1>0 DEF ArtifactType
  <1>2. ASSUME "again" \notin upsets' PROVE ReadIsCommitted'
    <2>1. ReadIsCommitted
      BY <1>0, <1>2
    <2>2. \A t \in Stamps : batch'[t].pc = "decode" => batch'[t].saw = "whole"
      BY <2>1 DEF ReadIsCommitted, Committed
    <2> QED
      BY <2>1, <2>2 DEF ReadIsCommitted, Committed
  <1> QED
    BY <1>1, <1>2 DEF ArtifactInv

\* The renderer, its death, the ageing and the cleanup.
LEMMA RendererKeeps ==
  ASSUME ArtifactInv,
         \/ RenderStep \/ RendererKilled \/ (\E t \in Stamps : GrowOld(t))
         \/ (\E t \in Stamps : \E b \in bin[t] : RemoveOldProduct(t, b))
  PROVE  ArtifactInv'
  <1>0. ArtifactType /\ ("again" \notin upsets => ReadIsCommitted)
    BY DEF ArtifactInv
  <1>1. UNCHANGED <<source, sidecar, writer>> /\ upsets \subseteq upsets'
    BY DEF RenderStep, PollArtifacts, CheckSidecar, OpenArtifact, FinishRender, WriteProduct,
           RendererKilled, Upset, GrowOld, RemoveOldProduct
  <1>2. \A t \in Stamps : Committed(t)' = Committed(t)
    BY <1>1 DEF Committed
  <1>3. ASSUME NEW t \in Stamps, NEW p \in Products, WriteProduct(t, p)
        PROVE  ArtifactInv'
    <2>1. /\ UNCHANGED <<batch, upsets>> /\ batch[t].pc = "decode"
          /\ bin' = [bin EXCEPT ![t] = @ \cup {[product |-> p, from |-> batch[t].saw]}]
      BY <1>3 DEF WriteProduct
    <2>2. DOMAIN bin' = Stamps /\ bin'[t] = bin[t] \cup {[product |-> p, from |-> batch[t].saw]}
          /\ \A u \in Stamps : u # t => bin'[u] = bin[u]
      BY <1>0, <2>1 DEF ArtifactType
    <2>3. ArtifactType'
      BY <1>0, <1>1, <2>1, <2>2 DEF ArtifactType
    <2>4. ReadIsCommitted => ReadIsCommitted'
      <3> SUFFICES ASSUME ReadIsCommitted PROVE ReadIsCommitted'
        OBVIOUS
      <3>1. ASSUME NEW u \in Stamps, NEW b \in bin'[u] PROVE b.from = "whole"
        <4>1. CASE u = t /\ b \notin bin[t]
          BY <2>1, <2>2, <4>1 DEF ReadIsCommitted
        <4>2. CASE u # t \/ b \in bin[t]
          BY <2>2, <4>2 DEF ReadIsCommitted
        <4> QED
          BY <4>1, <4>2
      <3> QED
        BY <1>1, <1>2, <2>1, <3>1 DEF ReadIsCommitted
    <2> QED
      BY <1>0, <2>1, <2>3, <2>4 DEF ArtifactInv
  <1>4. ASSUME NEW t \in Stamps, NEW b \in bin[t], RemoveOldProduct(t, b) PROVE ArtifactInv'
    <2>1. UNCHANGED <<batch, upsets>> /\ bin' = [bin EXCEPT ![t] = @ \ {b}]
      BY <1>4 DEF RemoveOldProduct
    <2>2. DOMAIN bin' = Stamps /\ \A u \in Stamps : bin'[u] \subseteq bin[u]
      BY <1>0, <2>1 DEF ArtifactType
    <2> QED
      BY <1>0, <1>1, <1>2, <2>1, <2>2 DEF ArtifactInv, ArtifactType, ReadIsCommitted
  <1>5. ASSUME NEW t \in Stamps, GrowOld(t) PROVE ArtifactInv'
    BY <1>0, <1>1, <1>2, <1>5 DEF GrowOld, ArtifactInv, ArtifactType, ReadIsCommitted
  <1>6. CASE PollArtifacts
    <2>1. UNCHANGED bin /\ ~Polling
      BY <1>6 DEF PollArtifacts
    <2>2. \A t \in Stamps : batch'[t] = [pc |-> "check", saw |-> "none"] \/ batch'[t] = NotPending
      BY <1>6 DEF PollArtifacts
    <2>3. batch' \in [Stamps -> [pc: {"out", "check", "open", "decode"}, saw: {"none", "torn", "whole"}]]
      BY <1>6 DEF PollArtifacts, NotPending
    <2> QED
      BY <1>1, <2>1, <2>2, <2>3, BatchKeeps DEF NotPending
  <1>7. ASSUME NEW t \in Stamps, CheckSidecar(t) \/ OpenArtifact(t) \/ FinishRender(t)
        PROVE  ArtifactInv'
    <2>1. UNCHANGED bin /\ \A u \in Stamps : u # t => batch'[u] = batch[u]
      BY <1>0, <1>7 DEF CheckSidecar, OpenArtifact, FinishRender, ArtifactType
    <2>2. batch' \in [Stamps -> [pc: {"out", "check", "open", "decode"}, saw: {"none", "torn", "whole"}]]
      BY <1>0, <1>7 DEF CheckSidecar, OpenArtifact, FinishRender, ArtifactType, NotPending
    <2>3. batch'[t].pc = "open" => t \in sidecar
      BY <1>0, <1>7 DEF CheckSidecar, OpenArtifact, FinishRender, ArtifactType, NotPending
    <2>4. batch'[t].pc = "decode" =>
            batch[t].pc = "open" /\ source[t] # "none" /\ batch'[t].saw = source[t]
      BY <1>0, <1>7 DEF CheckSidecar, OpenArtifact, FinishRender, ArtifactType, NotPending
    <2> QED
      BY <1>1, <2>1, <2>2, <2>3, <2>4, BatchKeeps
  <1>8. CASE RendererKilled
    <2>1. UNCHANGED bin /\ batch' = [t \in Stamps |-> NotPending]
      BY <1>8 DEF RendererKilled
    <2>2. \A t \in Stamps : batch'[t].pc = "out"
      BY <2>1 DEF NotPending
    <2>3. batch' \in [Stamps -> [pc: {"out", "check", "open", "decode"}, saw: {"none", "torn", "whole"}]]
      BY <2>1 DEF NotPending
    <2> QED
      BY <1>1, <2>1, <2>2, <2>3, BatchKeeps
  <1> QED
    BY <1>3, <1>4, <1>5, <1>6, <1>7, <1>8 DEF RenderStep

\* Every step of writer and renderer keeps the invariant.
LEMMA NextArtifactInv == ArtifactInv /\ [ArtifactNext]_artifactVars => ArtifactInv'
  <1> SUFFICES ASSUME ArtifactInv, [ArtifactNext]_artifactVars PROVE ArtifactInv'
    OBVIOUS
  <1>1. CASE UNCHANGED artifactVars
    BY <1>1 DEF artifactVars, ArtifactInv, ArtifactType, ReadIsCommitted, Committed
  <1> QED
    BY <1>1, BeginArtifactKeeps, WriterStepKeeps, RendererKeeps DEF ArtifactNext

\* Writer and renderer share a directory and no lock, and yet nothing is rendered from a
\* half-written artifact, but for one exported a second time behind its old sidecar
\* (write_elevation_artifacts, render_pending_nexrad_gui_files).
THEOREM TornArtifactsAreNotRendered == ArtifactSpec => []NeverRenderedTorn
  <1>1. ArtifactInit => ArtifactInv
    BY DEF ArtifactInit, ArtifactInv, ArtifactType, ReadIsCommitted, Resting, NotPending
  <1>2. ArtifactInv => NeverRenderedTorn
    BY DEF ArtifactInv, ReadIsCommitted, NeverRenderedTorn
  <1> QED
    BY <1>1, <1>2, NextArtifactInv, PTL DEF ArtifactSpec

-----------------------------------------------------------------------------
(***************************************************************************)
(* One product of a scan (MrmsIngest).  A transfer and the cleanup share   *)
(* the directory, and the predecessor is the newest older file of any      *)
(* kind: what must be known is what else than whole files is ever there.   *)
(***************************************************************************)
MrmsFiles == [stamp: Nat, kind: {"plain", "zip", "part"}, sound: BOOLEAN]
Fetching == {"request", "receive", "decompress", "staged"}

MrmsType ==
    /\ mrmsRemote \in [{"s3", "https"} -> SUBSET Nat]
    /\ dir \in Seq(MrmsFiles)
    /\ fetch \in [pc: {"idle", "lookup", "mirror", "failed"} \cup Fetching,
                  scan: Nat \cup {NoStamp}, mode: {"async", "sync"}, via: {"s3", "https"},
                  want: Nat \cup {NoStamp}, offered: BOOLEAN]
    /\ fetch.pc # "idle" => fetch.scan \in MrmsScans
    /\ fetch.pc \in Fetching => fetch.want \in Nat
    /\ victims \subseteq MrmsFiles
    /\ troubles \in Seq({"s3", "https", "archive", "crash"})

Undamaged == ~Met({"crash", "archive"})
Untroubled == ~Met({"s3", "crash", "archive"})

PlainIsSound == \A i \in DOMAIN dir : dir[i].kind = "plain" => dir[i].sound

\* Unless a crash or a damaged archive left something behind, what is not a plain
\* file is the newest one, and is what the attempt is working on.
LeftoverIsOurs ==
    \A i \in DOMAIN dir : dir[i].kind # "plain" =>
        /\ i = Len(dir)
        /\ dir[i].stamp = fetch.want
        /\ \/ dir[i].kind = "part" /\ fetch.pc = "receive"
           \/ dir[i].kind = "zip" /\ dir[i].sound /\ fetch.pc = "decompress"

\* So the cleanup is after such a file only if it is too old.
VictimsAreOld == \A v \in victims : v.kind # "plain" => v.stamp + MaxAge < fetch.scan

\* An attempt whose scan S3 lists gets it from S3, unless S3 fails.
FromS3 ==
    fetch.offered /\ fetch.pc # "idle" =>
        /\ Offered(fetch.scan)
        /\ fetch.pc \notin {"mirror", "failed"}
        /\ fetch.pc \in Fetching => fetch.via = "s3" /\ Rounded(fetch.want) = fetch.scan
        /\ fetch.pc = "receive" => InDir(fetch.want, "part")
        /\ fetch.pc = "decompress" => InDir(fetch.want, "zip")

MrmsInv ==
    /\ MrmsType
    /\ PlainIsSound
    /\ Undamaged => LeftoverIsOurs /\ VictimsAreOld
    /\ Untroubled => FromS3

\* A bounded set of time stamps has a newest one.
LEMMA LatestOfBounded ==
    ASSUME NEW S \in SUBSET Nat, S # {}, NEW b \in Nat, \A x \in S : x <= b
    PROVE  Latest(S) \in S /\ \A x \in S : x <= Latest(S)
  <1> DEFINE T == {b - x : x \in S}
  <1>1. T \subseteq Nat /\ T # {}
    <2>1. PICK x \in S : TRUE
      OBVIOUS
    <2>2. b - x \in T
      OBVIOUS
    <2>3. ASSUME NEW y \in S PROVE b - y \in Nat
      <3>1. y \in Nat /\ y <= b
        OBVIOUS
      <3> QED BY <3>1
    <2> QED BY <2>2, <2>3
  <1>2. PICK n \in T : \A m \in T : n <= m
    <2> HIDE DEF T
    <2> QED BY <1>1, LeastNumber
  <1>3. PICK t \in S : n = b - t
    BY <1>2
  <1>4. \A x \in S : x <= t
    <2> SUFFICES ASSUME NEW x \in S PROVE x <= t
      OBVIOUS
    <2>1. b - x \in T
      OBVIOUS
    <2>2. b - t <= b - x
      BY <1>2, <1>3, <2>1
    <2>3. x \in Nat /\ t \in Nat
      OBVIOUS
    <2> QED BY <2>2, <2>3
  <1> QED BY <1>4 DEF Latest

\* A scan's minute is even.
LEMMA ScanIsRounded == \A scan \in MrmsScans : scan \in Nat /\ Rounded(scan) = scan
  <1> SUFFICES ASSUME NEW scan \in MrmsScans PROVE scan \in Nat /\ Rounded(scan) = scan
    OBVIOUS
  <1>1. scan \in Nat /\ scan % 4 = 0
    BY MrmsAssumption
  <1>2. (scan + 1) \div 4 = scan \div 4 /\ 4 * (scan \div 4) = scan
    BY <1>1
  <1> QED BY <1>1, <1>2 DEF Rounded

\* A file that stands for a scan is at most half a minute older.
LEMMA RoundedIsNear ==
    ASSUME NEW want \in Nat, NEW scan \in Nat, Rounded(want) = scan
    PROVE  scan <= want + 1
  <1>1. 4 * ((want + 1) \div 4) <= want + 1
    OBVIOUS
  <1> QED BY <1>1 DEF Rounded

\* What is left of a directory without one file.
LEMMA WithoutFileHolds ==
    ASSUME NEW d \in Seq(MrmsFiles), NEW stamp, NEW kind, NEW e, e = WithoutFile(d, stamp, kind)
    PROVE  /\ e \in Seq(MrmsFiles)
           /\ \A i \in DOMAIN e : \E j \in DOMAIN d :
                e[i] = d[j] /\ (d[j].stamp # stamp \/ d[j].kind # kind)
           /\ \A j \in DOMAIN d : d[j].stamp # stamp \/ d[j].kind # kind =>
                \E i \in DOMAIN e : e[i] = d[j]
           /\ \A i \in DOMAIN e :
                (\A j \in DOMAIN d : d[j] = e[i] => j = Len(d)) => i = Len(e)
  <1> DEFINE P == {i \in DOMAIN d : d[i].stamp # stamp \/ d[i].kind # kind}
  <1>1. e = Selected(d, P) /\ DOMAIN d \cap P = P
    BY DEF WithoutFile
  <1>2. /\ Keeps(Selected(d, P), MrmsFiles, d, DOMAIN d \cap P)
        /\ Len(d) \in DOMAIN d \cap P =>
             LastIs(Selected(d, P), d[Len(d)], {d[j] : j \in (DOMAIN d \cap P) \ {Len(d)}})
    <2> HIDE DEF P
    <2> QED BY SelectionIs
  <1>3. /\ Keeps(e, MrmsFiles, d, P)
        /\ Len(d) \in P => LastIs(e, d[Len(d)], {d[j] : j \in P \ {Len(d)}})
    <2> HIDE DEF P
    <2> QED BY <1>1, <1>2
  <1>4. ASSUME NEW i \in DOMAIN e, \A j \in DOMAIN d : d[j] = e[i] => j = Len(d)
        PROVE  i = Len(e)
    <2>1. PICK j \in P : e[i] = d[j]
      BY <1>3 DEF Keeps
    <2>2. j = Len(d) /\ Len(d) \in P
      BY <1>4, <2>1
    <2>3. e \in Seq(MrmsFiles) /\ i \in 1..Len(e) /\ Len(e) \in Nat
      <3> HIDE DEF P
      <3>1. e \in Seq(MrmsFiles)
        BY <1>3 DEF Keeps
      <3> QED BY <3>1, LenProperties
    <2>4. ASSUME i # Len(e) PROVE FALSE
      <3>1. e[i] \in {d[k] : k \in P \ {Len(d)}}
        BY <1>3, <2>2, <2>3, <2>4 DEF LastIs
      <3>2. PICK k \in P \ {Len(d)} : e[i] = d[k]
        BY <3>1
      <3> QED BY <1>4, <3>2
    <2> QED BY <2>4
  <1> QED BY <1>3, <1>4 DEF Keeps

LEMMA AppendHolds ==
    ASSUME NEW S, NEW e \in Seq(S), NEW f \in S, NEW g, g = Append(e, f)
    PROVE  /\ g \in Seq(S)
           /\ \A i \in DOMAIN g : (i = Len(g) /\ g[i] = f) \/ (i \in DOMAIN e /\ g[i] = e[i])
           /\ \A i \in DOMAIN e : i \in DOMAIN g /\ g[i] = e[i]
           /\ Len(g) \in DOMAIN g /\ g[Len(g)] = f
  OBVIOUS

\* What has failed stays on record.
LEMMA MetGrows ==
    ASSUME MrmsType, NEW kind \in {"s3", "https", "archive", "crash"}, Trouble(kind),
           NEW kinds
    PROVE  /\ troubles' \in Seq({"s3", "https", "archive", "crash"})
           /\ Met(kinds) => Met(kinds)'
           /\ kind \in kinds => Met(kinds)'
  <1>1. troubles \in Seq({"s3", "https", "archive", "crash"}) /\ troubles' = Append(troubles, kind)
    BY DEF MrmsType, Trouble
  <1>2. /\ troubles' \in Seq({"s3", "https", "archive", "crash"})
        /\ \A i \in DOMAIN troubles : i \in DOMAIN troubles' /\ troubles'[i] = troubles[i]
        /\ Len(troubles') \in DOMAIN troubles' /\ troubles'[Len(troubles')] = kind
    <2> DEFINE K == {"s3", "https", "archive", "crash"}
    <2>1. troubles \in Seq(K) /\ kind \in K
      BY <1>1
    <2> HIDE DEF K
    <2>2. /\ troubles' \in Seq(K)
          /\ \A i \in DOMAIN troubles : i \in DOMAIN troubles' /\ troubles'[i] = troubles[i]
          /\ Len(troubles') \in DOMAIN troubles' /\ troubles'[Len(troubles')] = kind
      BY <1>1, <2>1, AppendHolds
    <2> QED BY <2>2 DEF K
  <1> QED BY <1>2 DEF Met

LEMMA MrmsInitHolds == MrmsInit => MrmsInv
  <1> SUFFICES ASSUME MrmsInit PROVE MrmsInv
    OBVIOUS
  <1>1. MrmsType
    BY DEF MrmsInit, MrmsType, NotFetching, Fetching
  <1>2. PlainIsSound /\ LeftoverIsOurs /\ VictimsAreOld /\ FromS3
    BY DEF MrmsInit, PlainIsSound, LeftoverIsOurs, VictimsAreOld, FromS3, NotFetching
  <1> QED BY <1>1, <1>2 DEF MrmsInv

LEMMA StartAttemptHolds ==
    ASSUME MrmsInv, NEW scan \in MrmsScans, StartAttempt(scan) PROVE MrmsInv'
  <1> USE DEF StartAttempt
  <1>1. scan \in Nat
    BY MrmsAssumption
  <1>2. /\ fetch'.pc = "lookup" /\ fetch'.scan = scan /\ fetch'.want = NoStamp
        /\ fetch'.mode = "async" /\ fetch'.via = "s3"
        /\ fetch'.offered <=> \E t \in mrmsRemote["s3"] :
             Rounded(t) = scan /\ SameHour(t, scan) /\ Minute(t) <= Minute(scan)
    BY DEF NotFetching
  <1>3. MrmsType'
    BY <1>1 DEF MrmsInv, MrmsType, NotFetching, Fetching
  <1>4. PlainIsSound'
    BY DEF MrmsInv, PlainIsSound
  <1>5. Undamaged' => Undamaged
    BY DEF Undamaged, Met
  <1>6. Undamaged => LeftoverIsOurs' /\ VictimsAreOld'
    <2> SUFFICES ASSUME Undamaged PROVE LeftoverIsOurs' /\ VictimsAreOld'
      OBVIOUS
    <2>1. LeftoverIsOurs'
      BY DEF MrmsInv, LeftoverIsOurs
    <2>2. VictimsAreOld'
      <3> SUFFICES ASSUME NEW v \in victims, v.kind # "plain" PROVE v.stamp + MaxAge < scan
        BY <1>2 DEF VictimsAreOld
      <3>1. v.stamp + MaxAge < fetch.scan /\ fetch.scan <= scan
        BY DEF MrmsInv, VictimsAreOld
      <3>2. v.stamp \in Nat /\ MaxAge \in Nat /\ fetch.scan \in Int
        BY MrmsAssumption DEF MrmsInv, MrmsType, MrmsFiles, NoStamp
      <3> QED BY <1>1, <3>1, <3>2
    <2> QED BY <2>1, <2>2
  <1>7. FromS3'
    <2> SUFFICES ASSUME fetch'.offered PROVE FromS3'
      BY DEF FromS3
    <2>1. Offered(scan)'
      BY <1>2 DEF Offered, ListedOnS3
    <2> QED BY <1>2, <2>1 DEF FromS3, Fetching
  <1> QED BY <1>3, <1>4, <1>5, <1>6, <1>7 DEF MrmsInv

\* A step that leaves the directory and the record of failures alone.
LEMMA OnlyFetchMoves ==
    ASSUME MrmsInv, UNCHANGED <<dir, victims, troubles>>, MrmsType', fetch'.scan = fetch.scan,
           Undamaged => LeftoverIsOurs', Untroubled => FromS3'
    PROVE  MrmsInv'
  <1>1. PlainIsSound' /\ (Undamaged' <=> Undamaged) /\ (Untroubled' <=> Untroubled)
    BY DEF MrmsInv, PlainIsSound, Undamaged, Untroubled, Met
  <1>2. Undamaged => VictimsAreOld'
    BY DEF MrmsInv, VictimsAreOld
  <1> QED BY <1>1, <1>2 DEF MrmsInv

\* Nothing but plain files is in the directory.
LEMMA NoLeftover ==
    ASSUME LeftoverIsOurs, fetch.pc \notin {"receive", "decompress"}, NEW i \in DOMAIN dir
    PROVE  dir[i].kind = "plain"
  BY DEF LeftoverIsOurs

LEMMA LookUpOnS3Holds == ASSUME MrmsInv, LookUpOnS3 PROVE MrmsInv'
  <1> USE DEF LookUpOnS3
  <1> DEFINE scan == fetch.scan
             listed == ListedOnS3(scan)
             matching == {t \in listed : Rounded(t) = Rounded(scan)}
  <1>1. scan \in MrmsScans /\ scan \in Nat /\ Rounded(scan) = scan
    BY ScanIsRounded DEF MrmsInv, MrmsType
  <1>2. ASSUME NEW t \in listed PROVE t \in Nat /\ t <= scan + 1
    <2>1. t \in Nat /\ t \div 2 <= scan \div 2
      BY DEF ListedOnS3, Minute, MrmsInv, MrmsType
    <2>2. t <= 2 * (t \div 2) + 1 /\ 2 * (scan \div 2) <= scan
          /\ t \div 2 \in Nat /\ scan \div 2 \in Nat
      BY <1>1, <2>1
    <2> QED BY <1>1, <2>1, <2>2
  <1>3. CASE listed = {}
    <2>1. fetch' = [fetch EXCEPT !.pc = "mirror"]
      BY <1>3
    <2>2. MrmsType'
      BY <2>1 DEF MrmsInv, MrmsType, Fetching
    <2>3. Undamaged => LeftoverIsOurs'
      <3>1. Undamaged => \A i \in DOMAIN dir : dir[i].kind = "plain"
        BY NoLeftover DEF MrmsInv
      <3> QED BY <3>1 DEF LeftoverIsOurs
    <2>4. Untroubled => FromS3'
      <3> SUFFICES ASSUME Untroubled, fetch.offered PROVE FALSE
        BY <2>1 DEF FromS3, MrmsInv, MrmsType
      <3>1. Offered(scan)
        BY DEF MrmsInv, FromS3
      <3> QED BY <1>3, <3>1 DEF Offered
    <2>5. fetch'.scan = fetch.scan
      BY <2>1 DEF MrmsInv, MrmsType
    <2> QED BY <2>2, <2>3, <2>4, <2>5, OnlyFetchMoves
  <1>4. CASE listed # {}
    <2> DEFINE want == SelectTarget(scan, listed)
    <2>1. want \in Nat /\ (matching # {} => Rounded(want) = scan)
      <3>1. CASE matching # {}
        <4>1. matching \in SUBSET Nat /\ scan + 1 \in Nat /\ \A x \in matching : x <= scan + 1
          BY <1>1, <1>2
        <4>2. Latest(matching) \in matching
          <5> HIDE DEF matching
          <5> QED BY <3>1, <4>1, LatestOfBounded
        <4>3. want = Latest(matching)
          BY <3>1 DEF SelectTarget
        <4> QED BY <1>1, <1>2, <4>2, <4>3
      <3>2. CASE matching = {}
        <4>1. listed \in SUBSET Nat /\ scan + 1 \in Nat /\ \A x \in listed : x <= scan + 1
          BY <1>1, <1>2
        <4>2. Latest(listed) \in listed
          <5> HIDE DEF listed
          <5> QED BY <1>4, <4>1, LatestOfBounded
        <4>3. want = Latest(listed)
          BY <3>2 DEF SelectTarget
        <4> QED BY <1>2, <3>2, <4>2, <4>3
      <3> QED BY <3>1, <3>2
    <2>2. FetchFrom("s3", want)
      BY <1>4
    <2> HIDE DEF want
    <2>3. /\ fetch' = [fetch EXCEPT !.via = "s3", !.want = want, !.pc = fetch'.pc]
          /\ fetch'.pc \in {"staged", "decompress", "request"}
          /\ fetch'.pc = "decompress" => InDir(want, "zip")
      BY <2>2 DEF FetchFrom, MrmsInv, MrmsType
    <2>4. MrmsType'
      BY <2>1, <2>3 DEF MrmsInv, MrmsType, Fetching
    <2>5. Undamaged => LeftoverIsOurs'
      <3>1. Undamaged => \A i \in DOMAIN dir : dir[i].kind = "plain"
        BY NoLeftover DEF MrmsInv
      <3> QED BY <3>1 DEF LeftoverIsOurs
    <2>6. Untroubled => FromS3'
      <3> SUFFICES ASSUME Untroubled, fetch.offered PROVE FromS3'
        BY <2>3 DEF FromS3, MrmsInv, MrmsType
      <3>1. Offered(scan)
        BY DEF MrmsInv, FromS3
      <3>2. matching # {}
        BY <1>1, <3>1 DEF Offered
      <3>3. /\ fetch'.via = "s3" /\ fetch'.want = want /\ fetch'.scan = scan
        BY <2>3 DEF MrmsInv, MrmsType
      <3>4. Offered(fetch.scan)'
        BY <3>1, <3>3 DEF Offered, ListedOnS3
      <3> QED BY <2>1, <2>3, <3>2, <3>3, <3>4 DEF FromS3, Fetching, InDir
    <2>7. fetch'.scan = fetch.scan
      BY <2>3 DEF MrmsInv, MrmsType
    <2> QED BY <2>4, <2>5, <2>6, <2>7, OnlyFetchMoves
  <1> QED BY <1>3, <1>4

LEMMA LookUpOnHttpsHolds == ASSUME MrmsInv, LookUpOnHttps PROVE MrmsInv'
  <1> USE DEF LookUpOnHttps
  <1>1. PICK want : /\ fetch' = [fetch EXCEPT !.pc = fetch'.pc, !.via = fetch'.via, !.want = want]
                    /\ \/ fetch'.pc = "failed" /\ want = fetch.want /\ fetch'.via = fetch.via
                       \/ /\ fetch'.pc \in {"decompress", "request"} /\ fetch'.via = "https"
                          /\ want \in Nat
    <2>1. CASE MatchingOnHttps(fetch.scan) = {}
      <3>1. fetch' = [fetch EXCEPT !.pc = "failed"]
        BY <2>1
      <3>2. fetch'.pc = "failed" /\ fetch'.via = fetch.via
        BY <3>1 DEF MrmsInv, MrmsType
      <3>3. fetch' = [fetch EXCEPT !.pc = fetch'.pc, !.via = fetch'.via, !.want = fetch.want]
        BY <3>1, <3>2 DEF MrmsInv, MrmsType
      <3> QED BY <3>2, <3>3
    <2>2. CASE MatchingOnHttps(fetch.scan) # {}
      <3>1. PICK w \in MatchingOnHttps(fetch.scan) : FetchFrom("https", w)
        BY <2>2
      <3>2. w \in Nat
        BY DEF MatchingOnHttps, MrmsInv, MrmsType
      <3>3. PICK pc \in {"decompress", "request"} :
              fetch' = [fetch EXCEPT !.via = "https", !.want = w, !.pc = pc]
        BY <3>1 DEF FetchFrom
      <3>4. fetch'.pc = pc /\ fetch'.via = "https"
        BY <3>3 DEF MrmsInv, MrmsType
      <3> WITNESS w
      <3> QED BY <3>2, <3>3, <3>4
    <2> QED BY <2>1, <2>2
  <1>2. MrmsType'
    BY <1>1 DEF MrmsInv, MrmsType, Fetching
  <1>3. Undamaged => LeftoverIsOurs'
    <2>1. Undamaged => \A i \in DOMAIN dir : dir[i].kind = "plain"
      BY NoLeftover DEF MrmsInv
    <2> QED BY <2>1 DEF LeftoverIsOurs
  <1>4. Untroubled => ~fetch.offered
    BY DEF MrmsInv, FromS3
  <1>5. fetch'.scan = fetch.scan /\ fetch'.offered = fetch.offered
    BY <1>1 DEF MrmsInv, MrmsType
  <1> QED BY <1>2, <1>3, <1>4, <1>5, OnlyFetchMoves DEF FromS3

LEMMA TransferRemovedHolds == ASSUME MrmsInv, TransferRemoved PROVE MrmsInv'
  <1> USE DEF TransferRemoved, GiveUp
  <1>1. fetch' = [fetch EXCEPT !.pc = fetch'.pc] /\ fetch'.pc \in {"mirror", "failed"}
    BY DEF MrmsInv, MrmsType
  <1>2. MrmsType'
    BY <1>1 DEF MrmsInv, MrmsType, Fetching
  <1>3. Undamaged => LeftoverIsOurs'
    <2> SUFFICES ASSUME Undamaged, NEW i \in DOMAIN dir PROVE dir[i].kind = "plain"
      BY DEF LeftoverIsOurs
    <2>1. SUFFICES ASSUME dir[i].kind # "plain" PROVE FALSE
      OBVIOUS
    <2>2. dir[i].stamp = fetch.want /\ dir[i].kind = "part"
      BY <2>1 DEF MrmsInv, LeftoverIsOurs
    <2> QED BY <2>2 DEF InDir, ToSet
  <1>4. Untroubled => ~fetch.offered
    BY DEF MrmsInv, FromS3
  <1>5. fetch'.scan = fetch.scan /\ fetch'.offered = fetch.offered
    BY <1>1 DEF MrmsInv, MrmsType
  <1> QED BY <1>2, <1>3, <1>4, <1>5, OnlyFetchMoves DEF FromS3

LEMMA FallBackHolds == ASSUME MrmsInv, FallBackToSync PROVE MrmsInv'
  <1> USE DEF FallBackToSync
  <1>1. /\ fetch' = [fetch EXCEPT !.pc = fetch'.pc, !.mode = fetch'.mode, !.via = fetch'.via,
                                   !.want = fetch'.want]
        /\ fetch'.pc \in {"lookup", "idle"} /\ fetch'.mode \in {"async", "sync"}
        /\ fetch'.via \in {"s3", "https"} /\ fetch'.want \in Nat \cup {NoStamp}
    BY DEF MrmsInv, MrmsType
  <1>2. MrmsType'
    BY <1>1 DEF MrmsInv, MrmsType, Fetching
  <1>3. Undamaged => LeftoverIsOurs'
    <2>1. Undamaged => \A i \in DOMAIN dir : dir[i].kind = "plain"
      BY NoLeftover DEF MrmsInv
    <2> QED BY <2>1 DEF LeftoverIsOurs
  <1>4. Untroubled => ~fetch.offered
    BY DEF MrmsInv, FromS3
  <1>5. fetch'.scan = fetch.scan /\ fetch'.offered = fetch.offered
    BY <1>1 DEF MrmsInv, MrmsType
  <1> QED BY <1>2, <1>3, <1>4, <1>5, OnlyFetchMoves DEF FromS3

LEMMA ValidateHolds == ASSUME MrmsInv, ValidateManifest PROVE MrmsInv'
  <1> USE DEF ValidateManifest
  <1>1. fetch' = [fetch EXCEPT !.pc = "idle"]
    OBVIOUS
  <1>2. MrmsType'
    BY <1>1 DEF MrmsInv, MrmsType, Fetching
  <1>3. Undamaged => LeftoverIsOurs'
    <2>1. Undamaged => \A i \in DOMAIN dir : dir[i].kind = "plain"
      BY NoLeftover DEF MrmsInv
    <2> QED BY <2>1 DEF LeftoverIsOurs
  <1>4. fetch'.scan = fetch.scan /\ fetch'.pc = "idle"
    BY <1>1 DEF MrmsInv, MrmsType
  <1> QED BY <1>2, <1>3, <1>4, OnlyFetchMoves DEF FromS3

\* The step BeginTransfer, EndTransfer, TransferFails and Decompress have in
\* common: one file of the directory is replaced, or removed.
LEMMA PlainStaysSound ==
    ASSUME MrmsType, PlainIsSound, NEW stamp, NEW kind, NEW f \in MrmsFiles,
           f.kind = "plain" => f.sound,
           \/ dir' = WithoutFile(dir, stamp, kind)
           \/ dir' = Append(WithoutFile(dir, stamp, kind), f)
    PROVE  PlainIsSound' /\ dir' \in Seq(MrmsFiles)
  <1> DEFINE e == WithoutFile(dir, stamp, kind)
  <1>1. dir \in Seq(MrmsFiles)
    BY DEF MrmsType
  <1>2. /\ e \in Seq(MrmsFiles)
        /\ \A i \in DOMAIN e : \E j \in DOMAIN dir :
             e[i] = dir[j] /\ (dir[j].stamp # stamp \/ dir[j].kind # kind)
    BY <1>1, WithoutFileHolds
  <1> HIDE DEF e
  <1>3. \A i \in DOMAIN e : e[i].kind = "plain" => e[i].sound
    BY <1>2 DEF PlainIsSound
  <1>4. CASE dir' = e
    BY <1>2, <1>3, <1>4 DEF PlainIsSound
  <1>5. CASE dir' = Append(e, f)
    <2>1. /\ dir' \in Seq(MrmsFiles)
          /\ \A i \in DOMAIN dir' : (i = Len(dir') /\ dir'[i] = f) \/ (i \in DOMAIN e /\ dir'[i] = e[i])
      BY <1>2, <1>5, AppendHolds
    <2> QED BY <1>3, <2>1 DEF PlainIsSound
  <1> QED BY <1>4, <1>5 DEF e

\* If the directory holds no other leftover than the removed file, it holds none
\* then but the one appended.
LEMMA OnlyTheAppended ==
    ASSUME MrmsType, NEW stamp, NEW kind,
           \A j \in DOMAIN dir : dir[j].kind # "plain" => dir[j].stamp = stamp /\ dir[j].kind = kind
    PROVE  /\ dir' = WithoutFile(dir, stamp, kind) => \A i \in DOMAIN dir' : dir'[i].kind = "plain"
           /\ \A f \in MrmsFiles : dir' = Append(WithoutFile(dir, stamp, kind), f) =>
                \A i \in DOMAIN dir' : dir'[i].kind # "plain" => i = Len(dir') /\ dir'[i] = f
  <1> DEFINE e == WithoutFile(dir, stamp, kind)
  <1>1. dir \in Seq(MrmsFiles)
    BY DEF MrmsType
  <1>2. /\ e \in Seq(MrmsFiles)
        /\ \A i \in DOMAIN e : \E j \in DOMAIN dir :
             e[i] = dir[j] /\ (dir[j].stamp # stamp \/ dir[j].kind # kind)
    BY <1>1, WithoutFileHolds
  <1> HIDE DEF e
  <1>3. \A i \in DOMAIN e : e[i].kind = "plain"
    BY <1>2
  <1>4. ASSUME NEW f \in MrmsFiles, dir' = Append(e, f), NEW i \in DOMAIN dir',
               dir'[i].kind # "plain"
        PROVE  i = Len(dir') /\ dir'[i] = f
    <2>1. (i = Len(dir') /\ dir'[i] = f) \/ (i \in DOMAIN e /\ dir'[i] = e[i])
      BY <1>2, <1>4, AppendHolds
    <2> QED BY <1>3, <1>4, <2>1
  <1> QED BY <1>3, <1>4 DEF e

LEMMA AppendedIsIn ==
    ASSUME MrmsType, NEW stamp, NEW kind, NEW f \in MrmsFiles,
           dir' = Append(WithoutFile(dir, stamp, kind), f)
    PROVE  f \in ToSet(dir')
  <1> DEFINE e == WithoutFile(dir, stamp, kind)
  <1>1. dir \in Seq(MrmsFiles)
    BY DEF MrmsType
  <1>2. e \in Seq(MrmsFiles)
    BY <1>1, WithoutFileHolds
  <1> HIDE DEF e
  <1>3. Len(dir') \in DOMAIN dir' /\ dir'[Len(dir')] = f
    <2>1. dir' = Append(e, f)
      BY DEF e
    <2> QED BY <1>2, <2>1, AppendHolds
  <1> QED BY <1>3 DEF ToSet

LEMMA BeginTransferHolds == ASSUME MrmsInv, BeginTransfer PROVE MrmsInv'
  <1> USE DEF BeginTransfer
  <1> DEFINE f == File(fetch.want, "part", FALSE)
  <1>1. fetch.want \in Nat /\ f \in MrmsFiles /\ f.kind = "part" /\ f.stamp = fetch.want
    BY DEF MrmsInv, MrmsType, Fetching, File, MrmsFiles
  <1>2. fetch' = [fetch EXCEPT !.pc = "receive"]
    OBVIOUS
  <1> HIDE DEF f
  <1>3. dir' = Append(WithoutFile(dir, fetch.want, "part"), f)
    BY DEF f
  <1>4. PlainIsSound' /\ dir' \in Seq(MrmsFiles)
    <2>1. MrmsType /\ PlainIsSound /\ (f.kind = "plain" => f.sound)
      BY <1>1 DEF MrmsInv
    <2> QED BY <1>1, <1>3, <2>1, PlainStaysSound
  <1>5. MrmsType'
    BY <1>2, <1>4 DEF MrmsInv, MrmsType, Fetching
  <1>6. /\ Undamaged' <=> Undamaged
        /\ Untroubled' <=> Untroubled
    BY DEF Undamaged, Untroubled, Met
  <1>7. fetch'.scan = fetch.scan /\ fetch'.want = fetch.want /\ fetch'.offered = fetch.offered
        /\ fetch'.pc = "receive" /\ fetch'.via = fetch.via
    BY <1>2 DEF MrmsInv, MrmsType
  <1>8. Undamaged => LeftoverIsOurs' /\ VictimsAreOld'
    <2> SUFFICES ASSUME Undamaged PROVE LeftoverIsOurs' /\ VictimsAreOld'
      OBVIOUS
    <2>1. \A j \in DOMAIN dir : dir[j].kind = "plain"
      BY NoLeftover DEF MrmsInv
    <2>2. \A i \in DOMAIN dir' : dir'[i].kind # "plain" => i = Len(dir') /\ dir'[i] = f
      <3>1. MrmsType
        BY DEF MrmsInv
      <3> QED BY <1>1, <1>3, <2>1, <3>1, OnlyTheAppended
    <2>3. LeftoverIsOurs'
      BY <1>1, <1>7, <2>2 DEF LeftoverIsOurs
    <2> QED BY <1>7, <2>3 DEF MrmsInv, VictimsAreOld
  <1>9. Untroubled => FromS3'
    <2> SUFFICES ASSUME Untroubled, fetch.offered PROVE FromS3'
      BY <1>7 DEF FromS3
    <2>1. \E g \in ToSet(dir') : g.stamp = fetch.want /\ g.kind = "part"
      <3>1. MrmsType
        BY DEF MrmsInv
      <3>2. f \in ToSet(dir')
        BY <1>1, <1>3, <3>1, AppendedIsIn
      <3> QED BY <1>1, <3>2
    <2>2. Offered(fetch.scan)'
      BY <1>7 DEF MrmsInv, FromS3, Offered, ListedOnS3
    <2>3. fetch.via = "s3" /\ Rounded(fetch.want) = fetch.scan
      BY DEF MrmsInv, FromS3, Fetching
    <2> QED BY <1>7, <2>1, <2>2, <2>3 DEF FromS3, InDir
  <1> QED BY <1>4, <1>5, <1>6, <1>8, <1>9 DEF MrmsInv

LEMMA EndTransferHolds == ASSUME MrmsInv, EndTransfer PROVE MrmsInv'
  <1>1. PICK sound \in BOOLEAN :
          /\ IF sound THEN UNCHANGED troubles ELSE Trouble("archive")
          /\ dir' = Append(WithoutFile(dir, fetch.want, "part"), File(fetch.want, "zip", sound))
    BY DEF EndTransfer
  <1> DEFINE f == File(fetch.want, "zip", sound)
  <1>2. fetch.want \in Nat /\ f \in MrmsFiles /\ f.kind = "zip" /\ f.stamp = fetch.want
        /\ f.sound = sound
    BY DEF EndTransfer, MrmsInv, MrmsType, Fetching, File, MrmsFiles
  <1>3. fetch' = [fetch EXCEPT !.pc = "decompress"] /\ fetch.pc = "receive"
        /\ UNCHANGED <<mrmsRemote, victims>>
    BY DEF EndTransfer
  <1>4. dir' = Append(WithoutFile(dir, fetch.want, "part"), f)
    BY <1>1
  <1> HIDE DEF f
  <1>5. PlainIsSound' /\ dir' \in Seq(MrmsFiles)
    <2>1. MrmsType /\ PlainIsSound /\ (f.kind = "plain" => f.sound)
      BY <1>2 DEF MrmsInv
    <2> QED BY <1>2, <1>4, <2>1, PlainStaysSound
  <1>6. /\ troubles' \in Seq({"s3", "https", "archive", "crash"})
        /\ Undamaged' => Undamaged /\ sound
        /\ Untroubled' => Untroubled
    <2>1. CASE sound
      BY <1>1, <2>1 DEF MrmsInv, MrmsType, Undamaged, Untroubled, Met
    <2>2. CASE ~sound
      <3>1. MrmsType /\ Trouble("archive")
        BY <1>1, <2>2 DEF MrmsInv
      <3>2. /\ troubles' \in Seq({"s3", "https", "archive", "crash"})
            /\ Met({"crash", "archive"})' /\ Met({"s3", "crash", "archive"})'
        BY <3>1, MetGrows
      <3> QED BY <3>2 DEF Undamaged, Untroubled
    <2> QED BY <2>1, <2>2
  <1>7. MrmsType'
    BY <1>3, <1>5, <1>6 DEF MrmsInv, MrmsType, Fetching
  <1>8. fetch'.scan = fetch.scan /\ fetch'.want = fetch.want /\ fetch'.offered = fetch.offered
        /\ fetch'.pc = "decompress" /\ fetch'.via = fetch.via
    BY <1>3 DEF MrmsInv, MrmsType
  <1>9. Undamaged' => LeftoverIsOurs' /\ VictimsAreOld'
    <2> SUFFICES ASSUME Undamaged, sound PROVE LeftoverIsOurs' /\ VictimsAreOld'
      BY <1>6
    <2>1. \A j \in DOMAIN dir : dir[j].kind # "plain" =>
            dir[j].stamp = fetch.want /\ dir[j].kind = "part"
      BY <1>3 DEF MrmsInv, LeftoverIsOurs
    <2>2. \A i \in DOMAIN dir' : dir'[i].kind # "plain" => i = Len(dir') /\ dir'[i] = f
      <3>1. MrmsType
        BY DEF MrmsInv
      <3> QED BY <1>2, <1>4, <2>1, <3>1, OnlyTheAppended
    <2>3. LeftoverIsOurs'
      BY <1>2, <1>8, <2>2 DEF LeftoverIsOurs
    <2> QED BY <1>3, <1>8, <2>3 DEF MrmsInv, VictimsAreOld
  <1>10. Untroubled' => FromS3'
    <2> SUFFICES ASSUME Untroubled, fetch.offered PROVE FromS3'
      BY <1>6, <1>8 DEF FromS3
    <2>1. \E g \in ToSet(dir') : g.stamp = fetch.want /\ g.kind = "zip"
      <3>1. MrmsType
        BY DEF MrmsInv
      <3>2. f \in ToSet(dir')
        BY <1>2, <1>4, <3>1, AppendedIsIn
      <3> QED BY <1>2, <3>2
    <2>2. Offered(fetch.scan)'
      BY <1>3, <1>8 DEF MrmsInv, FromS3, Offered, ListedOnS3
    <2>3. fetch.via = "s3" /\ Rounded(fetch.want) = fetch.scan
      BY <1>3 DEF MrmsInv, FromS3, Fetching
    <2> QED BY <1>8, <2>1, <2>2, <2>3 DEF FromS3, InDir
  <1> QED BY <1>5, <1>6, <1>7, <1>9, <1>10 DEF MrmsInv

LEMMA LookupFailsHolds == ASSUME MrmsInv, LookupFails PROVE MrmsInv'
  <1>1. /\ fetch' = [fetch EXCEPT !.pc = "mirror"] /\ fetch.pc = "lookup"
        /\ UNCHANGED <<mrmsRemote, dir, victims>> /\ Trouble("s3")
    BY DEF LookupFails
  <1>2. /\ troubles' \in Seq({"s3", "https", "archive", "crash"})
        /\ Undamaged' => Undamaged
        /\ ~Untroubled'
    <2>1. MrmsType
      BY DEF MrmsInv
    <2> QED BY <1>1, <2>1, MetGrows DEF Undamaged, Untroubled
  <1>3. fetch'.scan = fetch.scan /\ fetch'.pc = "mirror"
    BY <1>1 DEF MrmsInv, MrmsType
  <1>4. MrmsType' /\ PlainIsSound'
    BY <1>1, <1>2 DEF MrmsInv, MrmsType, Fetching, PlainIsSound
  <1>5. Undamaged => LeftoverIsOurs' /\ VictimsAreOld'
    <2>1. Undamaged => \A i \in DOMAIN dir : dir[i].kind = "plain"
      BY <1>1, NoLeftover DEF MrmsInv
    <2> QED BY <1>1, <1>3, <2>1 DEF LeftoverIsOurs, MrmsInv, VictimsAreOld
  <1> QED BY <1>2, <1>4, <1>5 DEF MrmsInv

LEMMA TransferFailsHolds == ASSUME MrmsInv, TransferFails PROVE MrmsInv'
  <1>1. /\ fetch.pc \in {"request", "receive"} /\ Trouble(fetch.via)
        /\ dir' = WithoutFile(dir, fetch.want, "part")
        /\ fetch' = [fetch EXCEPT !.pc = fetch'.pc] /\ fetch'.pc \in {"mirror", "failed"}
        /\ UNCHANGED <<mrmsRemote, victims>>
    BY DEF TransferFails, GiveUp, MrmsInv, MrmsType
  <1>2. MrmsType /\ PlainIsSound /\ fetch.via \in {"s3", "https"}
    BY DEF MrmsInv, MrmsType
  <1>3. /\ troubles' \in Seq({"s3", "https", "archive", "crash"})
        /\ Undamaged' => Undamaged
        /\ Untroubled' => Untroubled /\ fetch.via # "s3"
    BY <1>1, <1>2, MetGrows DEF Undamaged, Untroubled
  <1>4. PlainIsSound' /\ dir' \in Seq(MrmsFiles)
    <2>1. File(0, "part", FALSE) \in MrmsFiles /\ File(0, "part", FALSE).kind # "plain"
      BY DEF File, MrmsFiles
    <2> QED BY <1>1, <1>2, <2>1, PlainStaysSound
  <1>5. fetch'.scan = fetch.scan /\ fetch'.offered = fetch.offered
    BY <1>1, <1>2 DEF MrmsType
  <1>6. MrmsType'
    BY <1>1, <1>2, <1>3, <1>4 DEF MrmsType, Fetching
  <1>7. Undamaged' => LeftoverIsOurs' /\ VictimsAreOld'
    <2> SUFFICES ASSUME Undamaged PROVE LeftoverIsOurs' /\ VictimsAreOld'
      BY <1>3
    <2>1. \A j \in DOMAIN dir : dir[j].kind # "plain" =>
            dir[j].stamp = fetch.want /\ dir[j].kind = "part"
      BY <1>1 DEF MrmsInv, LeftoverIsOurs
    <2>2. \A i \in DOMAIN dir' : dir'[i].kind = "plain"
      BY <1>1, <1>2, <2>1, OnlyTheAppended
    <2> QED BY <1>1, <1>5, <2>2 DEF LeftoverIsOurs, MrmsInv, VictimsAreOld
  <1>8. Untroubled' => ~fetch.offered
    BY <1>1, <1>3 DEF MrmsInv, FromS3, Fetching
  <1> QED BY <1>4, <1>5, <1>6, <1>7, <1>8 DEF MrmsInv, FromS3

LEMMA DecompressHolds == ASSUME MrmsInv, Decompress PROVE MrmsInv'
  <1> DEFINE zips == {g \in ToSet(dir) : g.stamp = fetch.want /\ g.kind = "zip"}
             rest == WithoutFile(dir, fetch.want, "zip")
             f == File(fetch.want, "plain", TRUE)
  <1>1. /\ fetch.pc = "decompress" /\ UNCHANGED <<mrmsRemote, victims, troubles>>
        /\ fetch' = [fetch EXCEPT !.pc = fetch'.pc]
        /\ \/ (dir' = rest \/ dir' = Append(rest, f)) /\ fetch'.pc = "staged"
           \/ (\A g \in zips : ~g.sound) /\ dir' = dir /\ fetch'.pc \in {"mirror", "failed"}
           \/ zips = {} /\ dir' = dir /\ fetch'.pc \in {"mirror", "failed"}
    BY DEF Decompress, GiveUp, MrmsInv, MrmsType
  <1>2. MrmsType /\ PlainIsSound /\ fetch.want \in Nat
    BY <1>1 DEF MrmsInv, MrmsType, Fetching
  <1>3. f \in MrmsFiles /\ f.kind = "plain" /\ f.sound
    BY <1>2 DEF File, MrmsFiles
  <1> HIDE DEF f
  <1>4. (Undamaged' <=> Undamaged) /\ (Untroubled' <=> Untroubled) /\ (Untroubled => Undamaged)
    BY <1>1 DEF Undamaged, Untroubled, Met
  <1>5. Undamaged => \A j \in DOMAIN dir : dir[j].kind # "plain" =>
          dir[j].stamp = fetch.want /\ dir[j].kind = "zip" /\ dir[j].sound
    BY <1>1 DEF MrmsInv, LeftoverIsOurs
  <1>6. fetch'.scan = fetch.scan /\ fetch'.want = fetch.want /\ fetch'.offered = fetch.offered
        /\ fetch'.via = fetch.via
    BY <1>1, <1>2 DEF MrmsType
  <1>7. CASE (dir' = rest \/ dir' = Append(rest, f)) /\ fetch'.pc = "staged"
    <2>1. PlainIsSound' /\ dir' \in Seq(MrmsFiles)
      BY <1>2, <1>3, <1>7, PlainStaysSound
    <2>2. MrmsType'
      BY <1>1, <1>2, <1>7, <2>1 DEF MrmsType, Fetching
    <2>3. Undamaged => \A i \in DOMAIN dir' : dir'[i].kind = "plain"
      <3> SUFFICES ASSUME Undamaged PROVE \A i \in DOMAIN dir' : dir'[i].kind = "plain"
        OBVIOUS
      <3>1. CASE dir' = rest
        BY <1>2, <1>5, <3>1, OnlyTheAppended
      <3>2. CASE dir' = Append(rest, f)
        <4>1. \A i \in DOMAIN dir' : dir'[i].kind # "plain" => i = Len(dir') /\ dir'[i] = f
          BY <1>2, <1>3, <1>5, <3>2, OnlyTheAppended
        <4> QED BY <1>3, <4>1
      <3> QED BY <1>7, <3>1, <3>2
    <2>4. Undamaged => LeftoverIsOurs' /\ VictimsAreOld'
      BY <1>1, <1>6, <2>3 DEF LeftoverIsOurs, MrmsInv, VictimsAreOld
    <2>5. Untroubled => FromS3'
      <3> SUFFICES ASSUME Untroubled, fetch.offered PROVE FromS3'
        BY <1>6 DEF FromS3
      <3>1. Offered(fetch.scan)'
        BY <1>1, <1>6 DEF MrmsInv, FromS3, Offered, ListedOnS3
      <3>2. fetch.via = "s3" /\ Rounded(fetch.want) = fetch.scan
        BY <1>1 DEF MrmsInv, FromS3, Fetching
      <3> QED BY <1>6, <1>7, <3>1, <3>2 DEF FromS3
    <2> QED BY <1>4, <2>1, <2>2, <2>4, <2>5 DEF MrmsInv
  <1>8. CASE ((\A g \in zips : ~g.sound) \/ zips = {}) /\ dir' = dir
             /\ fetch'.pc \in {"mirror", "failed"}
    <2>1. PlainIsSound' /\ MrmsType'
      BY <1>1, <1>2, <1>8 DEF PlainIsSound, MrmsType, Fetching
    <2>2. Undamaged => zips = {}
      <3> SUFFICES ASSUME Undamaged, NEW g \in zips PROVE FALSE
        OBVIOUS
      <3>1. ~g.sound
        BY <1>8
      <3>2. PICK j \in DOMAIN dir : dir[j] = g
        BY DEF ToSet
      <3> QED BY <1>5, <3>1, <3>2
    <2>3. Undamaged => \A j \in DOMAIN dir : dir[j].kind = "plain"
      BY <1>5, <2>2 DEF ToSet
    <2>4. Undamaged => LeftoverIsOurs' /\ VictimsAreOld'
      BY <1>1, <1>6, <1>8, <2>3 DEF LeftoverIsOurs, MrmsInv, VictimsAreOld
    <2>5. Untroubled => ~fetch.offered
      <3>1. Untroubled /\ fetch.offered => InDir(fetch.want, "zip")
        BY <1>1 DEF MrmsInv, FromS3
      <3> QED BY <1>4, <2>2, <3>1 DEF InDir
    <2> QED BY <1>4, <1>6, <2>1, <2>4, <2>5 DEF MrmsInv, FromS3
  <1> QED BY <1>1, <1>7, <1>8

LEMMA PublishRemoteHolds ==
    ASSUME MrmsInv, NEW via \in {"s3", "https"}, NEW t \in MrmsStamps, PublishRemote(via, t)
    PROVE  MrmsInv'
  <1>1. t \in Nat
    BY MrmsAssumption
  <1>2. UNCHANGED <<dir, fetch, victims, troubles>>
        /\ mrmsRemote' = [mrmsRemote EXCEPT ![via] = @ \cup {t}]
    BY DEF PublishRemote
  <1>3. MrmsType' /\ mrmsRemote["s3"] \subseteq mrmsRemote'["s3"]
    BY <1>1, <1>2 DEF MrmsInv, MrmsType
  <1>4. Untroubled' => FromS3'
    <2> SUFFICES ASSUME Untroubled, fetch.offered, fetch.pc # "idle" PROVE FromS3'
      BY <1>2 DEF FromS3, Untroubled, Met
    <2>1. Offered(fetch.scan)
      BY DEF MrmsInv, FromS3
    <2>2. Offered(fetch.scan)'
      BY <1>2, <1>3, <2>1 DEF Offered, ListedOnS3
    <2> QED BY <1>2, <2>2 DEF MrmsInv, FromS3, InDir
  <1> QED BY <1>2, <1>3, <1>4 DEF MrmsInv, PlainIsSound, LeftoverIsOurs, VictimsAreOld, Undamaged, Met

\* Nothing is newer than the leftover: it is removed for its age or not at all.
LEMMA StartCleanupHolds == ASSUME MrmsInv, StartCleanup PROVE MrmsInv'
  <1> DEFINE old(i) == dir[i].stamp + MaxAge < fetch.scan
             newer(i) == {j \in DOMAIN dir : j > i /\ ~old(j)}
  <1>1. /\ UNCHANGED <<mrmsRemote, dir, fetch, troubles>>
        /\ victims' = {dir[i] : i \in {j \in DOMAIN dir :
                                          old(j) \/ Cardinality(newer(j)) >= MaxFiles}}
    BY DEF StartCleanup
  <1>2. dir \in Seq(MrmsFiles)
    BY DEF MrmsInv, MrmsType
  <1>3. \A v \in victims' : \E i \in DOMAIN dir :
          v = dir[i] /\ (old(i) \/ Cardinality(newer(i)) >= MaxFiles)
    <2> HIDE DEF old, newer
    <2> QED BY <1>1
  <1>4. victims' \subseteq MrmsFiles
    <2>1. \A i \in DOMAIN dir : dir[i] \in MrmsFiles
      BY <1>2
    <2> HIDE DEF old, newer
    <2> QED BY <1>3, <2>1
  <1>5. Undamaged => VictimsAreOld'
    <2> SUFFICES ASSUME Undamaged, NEW v \in victims', v.kind # "plain"
                 PROVE  v.stamp + MaxAge < fetch.scan
      BY <1>1 DEF VictimsAreOld
    <2>1. PICK i \in DOMAIN dir : v = dir[i] /\ (old(i) \/ Cardinality(newer(i)) >= MaxFiles)
      <3> HIDE DEF old, newer
      <3> QED BY <1>3
    <2>2. i = Len(dir)
      BY <2>1 DEF MrmsInv, LeftoverIsOurs
    <2>3. newer(i) = {}
      <3>1. \A j \in DOMAIN dir : ~(j > i)
        BY <1>2, <2>2
      <3> QED BY <3>1
    <2>4. ~(Cardinality(newer(i)) >= MaxFiles)
      <3>1. Cardinality(newer(i)) = 0
        BY <2>3, FS_EmptySet
      <3> HIDE DEF newer
      <3> QED BY <3>1, MrmsAssumption
    <2> QED BY <2>1, <2>4
  <1>6. MrmsType'
    BY <1>1, <1>4 DEF MrmsInv, MrmsType
  <1> QED BY <1>1, <1>5, <1>6 DEF MrmsInv, PlainIsSound, LeftoverIsOurs, FromS3, Undamaged,
        Untroubled, Met, Offered, ListedOnS3, InDir

\* What the attempt is working on is not that old.
LEMMA RemoveVictimHolds ==
    ASSUME MrmsInv, NEW v \in victims, RemoveVictim(v) PROVE MrmsInv'
  <1>1. /\ dir' = WithoutFile(dir, v.stamp, v.kind) /\ victims' = victims \ {v}
        /\ UNCHANGED <<mrmsRemote, fetch, troubles>>
    BY DEF RemoveVictim
  <1>2. MrmsType /\ PlainIsSound /\ dir \in Seq(MrmsFiles) /\ v \in MrmsFiles
    BY DEF MrmsInv, MrmsType
  <1>3. /\ dir' \in Seq(MrmsFiles)
        /\ \A i \in DOMAIN dir' : \E j \in DOMAIN dir :
             dir'[i] = dir[j] /\ (dir[j].stamp # v.stamp \/ dir[j].kind # v.kind)
        /\ \A j \in DOMAIN dir : dir[j].stamp # v.stamp \/ dir[j].kind # v.kind =>
             \E i \in DOMAIN dir' : dir'[i] = dir[j]
        /\ \A i \in DOMAIN dir' :
             (\A j \in DOMAIN dir : dir[j] = dir'[i] => j = Len(dir)) => i = Len(dir')
    <2> DEFINE stamp == v.stamp
               kind == v.kind
               e == dir'
    <2>1. e = WithoutFile(dir, stamp, kind) /\ dir \in Seq(MrmsFiles)
      BY <1>1, <1>2
    <2> HIDE DEF stamp, kind, e
    <2>2. /\ e \in Seq(MrmsFiles)
          /\ \A i \in DOMAIN e : \E j \in DOMAIN dir :
               e[i] = dir[j] /\ (dir[j].stamp # stamp \/ dir[j].kind # kind)
          /\ \A j \in DOMAIN dir : dir[j].stamp # stamp \/ dir[j].kind # kind =>
               \E i \in DOMAIN e : e[i] = dir[j]
          /\ \A i \in DOMAIN e :
               (\A j \in DOMAIN dir : dir[j] = e[i] => j = Len(dir)) => i = Len(e)
      BY <2>1, WithoutFileHolds
    <2> QED BY <2>2 DEF stamp, kind, e
  <1>4. MrmsType' /\ PlainIsSound'
    BY <1>1, <1>2, <1>3 DEF MrmsType, PlainIsSound
  <1>5. (Undamaged' <=> Undamaged) /\ (Untroubled' <=> Untroubled) /\ (Untroubled => Undamaged)
    BY <1>1 DEF Undamaged, Untroubled, Met
  <1>6. Undamaged => LeftoverIsOurs' /\ VictimsAreOld'
    <2> SUFFICES ASSUME Undamaged PROVE LeftoverIsOurs' /\ VictimsAreOld'
      OBVIOUS
    <2>1. VictimsAreOld'
      BY <1>1 DEF MrmsInv, VictimsAreOld
    <2>2. ASSUME NEW i \in DOMAIN dir', dir'[i].kind # "plain"
          PROVE  /\ i = Len(dir')
                 /\ dir'[i].stamp = fetch.want
                 /\ \/ dir'[i].kind = "part" /\ fetch.pc = "receive"
                    \/ dir'[i].kind = "zip" /\ dir'[i].sound /\ fetch.pc = "decompress"
      <3>1. \A j \in DOMAIN dir : dir[j] = dir'[i] => j = Len(dir)
        BY <2>2 DEF MrmsInv, LeftoverIsOurs
      <3>2. i = Len(dir')
        BY <1>3, <3>1
      <3>3. PICK j \in DOMAIN dir : dir'[i] = dir[j]
        BY <1>3
      <3> QED BY <2>2, <3>2, <3>3 DEF MrmsInv, LeftoverIsOurs
    <2> QED BY <1>1, <2>1, <2>2 DEF LeftoverIsOurs
  <1>7. Untroubled => FromS3'
    <2> SUFFICES ASSUME Untroubled, fetch.offered, fetch.pc # "idle" PROVE FromS3'
      BY <1>1 DEF FromS3
    <2>1. Offered(fetch.scan)'
      BY <1>1 DEF MrmsInv, FromS3, Offered, ListedOnS3
    <2>2. ASSUME NEW kind \in {"part", "zip"}, InDir(fetch.want, kind), fetch.pc \in Fetching
          PROVE  \E g \in ToSet(dir') : g.stamp = fetch.want /\ g.kind = kind
      <3>1. PICK j \in DOMAIN dir : dir[j].stamp = fetch.want /\ dir[j].kind = kind
        BY <2>2 DEF InDir, ToSet
      <3>2. fetch.want \in Nat /\ fetch.scan \in Nat /\ Rounded(fetch.want) = fetch.scan
        BY <2>2, MrmsAssumption DEF MrmsInv, MrmsType, FromS3
      <3>3. fetch.scan <= fetch.want + 1
        BY <3>2, RoundedIsNear
      <3>4. ~(fetch.want + MaxAge < fetch.scan)
        BY <3>2, <3>3, MrmsAssumption
      <3>5. dir[j].stamp # v.stamp \/ dir[j].kind # v.kind
        <4> SUFFICES ASSUME v.stamp = fetch.want, v.kind = kind PROVE FALSE
          BY <3>1
        <4>1. v.stamp + MaxAge < fetch.scan
          BY <1>5 DEF MrmsInv, VictimsAreOld
        <4> QED BY <3>4, <4>1
      <3>6. PICK i \in DOMAIN dir' : dir'[i] = dir[j]
        BY <1>3, <3>5
      <3> QED BY <3>1, <3>6 DEF ToSet
    <2>3. fetch.pc = "receive" => \E g \in ToSet(dir') : g.stamp = fetch.want /\ g.kind = "part"
      BY <2>2 DEF MrmsInv, FromS3, Fetching
    <2>4. fetch.pc = "decompress" => \E g \in ToSet(dir') : g.stamp = fetch.want /\ g.kind = "zip"
      BY <2>2 DEF MrmsInv, FromS3, Fetching
    <2>5. /\ fetch.pc \notin {"mirror", "failed"}
          /\ fetch.pc \in Fetching => fetch.via = "s3" /\ Rounded(fetch.want) = fetch.scan
      BY DEF MrmsInv, FromS3
    <2> QED BY <1>1, <2>1, <2>3, <2>4, <2>5 DEF FromS3, InDir
  <1> QED BY <1>4, <1>5, <1>6, <1>7 DEF MrmsInv

LEMMA PrimaryDiesHolds == ASSUME MrmsInv, PrimaryDies PROVE MrmsInv'
  <1>1. /\ fetch' = [NotFetching EXCEPT !.scan = fetch.scan] /\ victims' = {}
        /\ UNCHANGED <<mrmsRemote, dir>> /\ Trouble("crash")
    BY DEF PrimaryDies
  <1>2. troubles' \in Seq({"s3", "https", "archive", "crash"}) /\ ~Undamaged' /\ ~Untroubled'
    <2>1. MrmsType
      BY DEF MrmsInv
    <2> QED BY <1>1, <2>1, MetGrows DEF Undamaged, Untroubled
  <1>3. MrmsType' /\ PlainIsSound'
    BY <1>1, <1>2 DEF MrmsInv, MrmsType, Fetching, PlainIsSound, NotFetching
  <1> QED BY <1>2, <1>3 DEF MrmsInv

LEMMA MrmsNextHolds == MrmsInv /\ [MrmsNext]_mrmsVars => MrmsInv'
  <1> SUFFICES ASSUME MrmsInv, [MrmsNext]_mrmsVars PROVE MrmsInv'
    OBVIOUS
  <1>1. CASE UNCHANGED mrmsVars
    <2>1. UNCHANGED <<mrmsRemote, dir, fetch, victims, troubles>>
      BY <1>1 DEF mrmsVars
    <2>2. MrmsType' /\ PlainIsSound' /\ (LeftoverIsOurs => LeftoverIsOurs')
          /\ (VictimsAreOld => VictimsAreOld') /\ (FromS3 => FromS3')
      BY <2>1 DEF MrmsInv, MrmsType, PlainIsSound, LeftoverIsOurs, VictimsAreOld, FromS3,
            Offered, ListedOnS3, InDir
    <2> QED BY <2>1, <2>2 DEF MrmsInv, Undamaged, Untroubled, Met
  <1>2. CASE AttemptStep
    BY <1>2, LookUpOnS3Holds, LookUpOnHttpsHolds, BeginTransferHolds, EndTransferHolds,
       TransferRemovedHolds, DecompressHolds, FallBackHolds, ValidateHolds DEF AttemptStep
  <1>3. CASE LookupFails \/ TransferFails \/ StartCleanup \/ PrimaryDies
    BY <1>3, LookupFailsHolds, TransferFailsHolds, StartCleanupHolds, PrimaryDiesHolds
  <1>4. CASE \E scan \in MrmsScans : StartAttempt(scan)
    BY <1>4, StartAttemptHolds
  <1>5. CASE \E via \in {"s3", "https"}, t \in MrmsStamps : PublishRemote(via, t)
    BY <1>5, PublishRemoteHolds
  <1>6. CASE \E v \in victims : RemoveVictim(v)
    BY <1>6, RemoveVictimHolds
  <1> QED BY <1>1, <1>2, <1>3, <1>4, <1>5, <1>6 DEF MrmsNext

PinsTheScan ==
    /\ Whole(ready'.current)
    /\ Aligned(ready'.current, ready'.scan)
    /\ fetch.offered /\ Untroubled => Rounded(ready'.current) = ready'.scan
    /\ ready'.previous # NoStamp /\ Undamaged => Whole(ready'.previous)

LEMMA OnlyValidationPins ==
    ASSUME MrmsInv, [MrmsNext]_mrmsVars, ready' # ready PROVE PinsTheScan
  <1>1. ValidateManifest
    BY DEF MrmsNext, mrmsVars, AttemptStep, LookUpOnS3, LookUpOnHttps, BeginTransfer, EndTransfer,
           TransferRemoved, Decompress, FallBackToSync, LookupFails, TransferFails, StartCleanup,
           PrimaryDies, StartAttempt, PublishRemote, RemoveVictim
  <1>2. /\ fetch.pc = "staged" /\ InDir(fetch.want, "plain") /\ Aligned(fetch.want, fetch.scan)
        /\ ready' = [scan |-> fetch.scan, current |-> fetch.want,
                      previous |-> PreviousOf(fetch.want)]
    BY <1>1 DEF ValidateManifest
  <1>3. fetch.want \in Nat /\ dir \in Seq(MrmsFiles)
    BY <1>2 DEF MrmsInv, MrmsType, Fetching
  <1>4. Whole(fetch.want)
    BY <1>2 DEF Whole, InDir, ToSet, MrmsInv, PlainIsSound
  <1>5. fetch.offered /\ Untroubled => Rounded(fetch.want) = fetch.scan
    BY <1>2 DEF MrmsInv, FromS3, Fetching
  <1>6. ASSUME PreviousOf(fetch.want) # NoStamp, Undamaged PROVE Whole(PreviousOf(fetch.want))
    <2> DEFINE older == {f.stamp : f \in {g \in ToSet(dir) : g.stamp < fetch.want}}
    <2>1. older # {} /\ PreviousOf(fetch.want) = Latest(older)
      BY <1>6 DEF PreviousOf
    <2>2. \A f \in ToSet(dir) : f \in MrmsFiles
      BY <1>3 DEF ToSet
    <2>3. older \in SUBSET Nat /\ \A x \in older : x <= fetch.want
      BY <1>3, <2>2 DEF MrmsFiles
    <2>4. Latest(older) \in older
      <3> HIDE DEF older
      <3> QED BY <1>3, <2>1, <2>3, LatestOfBounded
    <2>5. PICK f \in ToSet(dir) : f.stamp = Latest(older)
      BY <2>4
    <2>6. f.kind = "plain" /\ f.sound
      BY <1>2, <1>6, NoLeftover DEF ToSet, MrmsInv, PlainIsSound
    <2> QED BY <2>1, <2>5, <2>6 DEF Whole
  <1> QED BY <1>2, <1>4, <1>5, <1>6 DEF PinsTheScan

\* run_staged_ingest: what a manifest pins for a scan is a whole file close to it,
\* the very file of the scan if S3 offered it and did not fail, and the
\* predecessor is whole too unless a crash or a damaged archive came before,
\* whatever transfers fail and whatever the cleanup removes meanwhile.
THEOREM StagedScanIsTheScan == MrmsSpec => StagedIsTheScan
  <1>1. MrmsInv /\ [MrmsNext]_mrmsVars => [ready' # ready => PinsTheScan]_mrmsVars
    BY OnlyValidationPins
  <1>2. MrmsSpec => [][ready' # ready => PinsTheScan]_mrmsVars
    BY <1>1, MrmsInitHolds, MrmsNextHolds, PTL DEF MrmsSpec
  <1> QED BY <1>2 DEF StagedIsTheScan, PinsTheScan, Undamaged, Untroubled

-----------------------------------------------------------------------------
(***************************************************************************)
(* Recursion and order.                                                    *)
(***************************************************************************)
\* f is base at 0, and what the step makes of its last value after that.
Iterates(f, N, A, base, step) ==
    /\ f \in [0..N -> A]
    /\ f[0] = base
    /\ \A n \in 1..N : f[n] = step[<<n, f[n - 1]>>]

\* A function can be defined from its value at 0, step by step.
LEMMA Recursion ==
    ASSUME NEW N \in Nat, NEW A, NEW base \in A, NEW step \in [(1..N) \X A -> A]
    PROVE  \E f : Iterates(f, N, A, base, step)
  <1> DEFINE Solves(f, m) ==
               /\ f \in [0..m -> A]
               /\ f[0] = base
               /\ \A n \in 1..m : f[n] = step[<<n, f[n - 1]>>]
             Solvable == {m \in Nat : m <= N => \E f : Solves(f, m)}
  <1>1. 0 \in Solvable
    <2>1. Solves([k \in 0..0 |-> base], 0)
      OBVIOUS
    <2> QED BY <2>1
  <1>2. ASSUME NEW m \in Nat, m \in Solvable PROVE m + 1 \in Solvable
    <2> SUFFICES ASSUME m + 1 <= N PROVE \E f : Solves(f, m + 1)
      OBVIOUS
    <2>1. PICK f : Solves(f, m)
      BY <1>2
    <2> DEFINE g == [k \in 0..m + 1 |-> IF k <= m THEN f[k] ELSE step[<<m + 1, f[m]>>]]
    <2>2. f[m] \in A /\ <<m + 1, f[m]>> \in (1..N) \X A
      BY <2>1
    <2>3. step[<<m + 1, f[m]>>] \in A
      BY <2>2
    <2>4. g \in [0..m + 1 -> A] /\ g[0] = base
      BY <2>1, <2>3
    <2>5. ASSUME NEW n \in 1..m + 1 PROVE g[n] = step[<<n, g[n - 1]>>]
      <3>1. CASE n = m + 1
        <4>1. m + 1 \in 0..m + 1 /\ m \in 0..m + 1 /\ ~(m + 1 <= m) /\ m <= m /\ (m + 1) - 1 = m
          OBVIOUS
        <4>2. g[m + 1] = step[<<m + 1, f[m]>>] /\ g[m] = f[m]
          BY <4>1
        <4> HIDE DEF g
        <4> QED BY <3>1, <4>1, <4>2
      <3>2. CASE n # m + 1
        <4>1. n \in 1..m /\ n - 1 \in 0..m /\ n \in 0..m
          BY <3>2
        <4> QED BY <2>1, <4>1
      <3> QED BY <3>1, <3>2
    <2> HIDE DEF g
    <2>6. Solves(g, m + 1)
      BY <2>4, <2>5
    <2> QED BY <2>6
  <1>3. Nat \subseteq Solvable
    <2> HIDE DEF Solvable
    <2> QED BY <1>1, <1>2, NumbersOneByOne
  <1> QED BY <1>3 DEF Iterates

\* u has the members of S in the order of the key.
InOrder(u, S, key) ==
    /\ u \in [1..Cardinality(S) -> S]
    /\ \A x \in S : \E i \in 1..Cardinality(S) : u[i] = x
    /\ \A i, j \in 1..Cardinality(S) : i < j => key[u[i]] < key[u[j]]

\* A list that has the members of a set in the order of a key is the ranked set.
LEMMA RankedAs ==
    ASSUME NEW S, NEW key, \A x \in S : key[x] \in Int,
           NEW n \in Nat, NEW u \in [1..n -> S],
           \A x \in S : \E i \in 1..n : u[i] = x,
           \A i, j \in 1..n : i < j => key[u[i]] < key[u[j]]
    PROVE  /\ IsFiniteSet(S) /\ Cardinality(S) = n
           /\ Ranked(S, key) = u
  <1> DEFINE Below(x) == {y \in S : key[y] < key[x]}
  <1>1. ASSUME NEW i \in 1..n, NEW j \in 1..n, key[u[i]] <= key[u[j]] PROVE i <= j
    <2>1. u[i] \in S /\ u[j] \in S
      OBVIOUS
    <2>2. key[u[i]] \in Int /\ key[u[j]] \in Int
      BY <2>1
    <2> QED BY <1>1, <2>2
  <1>2. u \in Bijection(1..n, S)
    <2>1. \A i, j \in 1..n : u[i] = u[j] => i = j
      <3> SUFFICES ASSUME NEW i \in 1..n, NEW j \in 1..n, u[i] = u[j] PROVE i = j
        OBVIOUS
      <3>1. key[u[i]] \in Int /\ key[u[j]] \in Int
        OBVIOUS
      <3> QED BY <1>1, <3>1
    <2> QED BY <2>1 DEF Bijection, Injection, IsInjective, Surjection
  <1>3. IsFiniteSet(S) /\ Cardinality(S) = n
    BY <1>2, FS_CountingElements, FS_NatBijection DEF ExistsBijection
  <1>4. ASSUME NEW k \in 1..n PROVE Cardinality(Below(u[k])) = k - 1
    <2> DEFINE v == [i \in 1..k - 1 |-> u[i]]
    <2>1. ASSUME NEW i \in 1..k - 1 PROVE v[i] \in Below(u[k])
      BY <1>4
    <2>2. ASSUME NEW y \in Below(u[k]) PROVE \E i \in 1..k - 1 : v[i] = y
      <3>1. PICK i \in 1..n : u[i] = y
        OBVIOUS
      <3>2. key[u[i]] \in Int /\ key[u[k]] \in Int /\ key[u[i]] < key[u[k]]
        BY <3>1
      <3>3. i <= k /\ i # k
        BY <1>1, <3>2
      <3>4. i \in 1..k - 1
        BY <3>3
      <3> QED BY <3>1, <3>4
    <2>3. \A i, j \in 1..k - 1 : v[i] = v[j] => i = j
      BY <1>2 DEF Bijection, Injection, IsInjective
    <2>4. v \in Bijection(1..k - 1, Below(u[k]))
      <3>1. v \in [1..k - 1 -> Below(u[k])]
        BY <2>1
      <3> HIDE DEF v, Below
      <3> QED BY <2>2, <2>3, <3>1 DEF Bijection, Injection, IsInjective, Surjection
    <2>5. k - 1 \in Nat
      OBVIOUS
    <2> HIDE DEF v, Below
    <2> QED BY <2>4, <2>5, FS_CountingElements DEF ExistsBijection
  <1>5. ASSUME NEW k \in 1..n
        PROVE  (CHOOSE x \in S : Cardinality(Below(x)) = k - 1) = u[k]
    <2>1. ASSUME NEW x \in S, Cardinality(Below(x)) = k - 1 PROVE x = u[k]
      <3>1. PICK i \in 1..n : u[i] = x
        OBVIOUS
      <3>2. Cardinality(Below(x)) = i - 1
        BY <1>4, <3>1
      <3>3. i = k
        BY <2>1, <3>2
      <3> QED BY <3>1, <3>3
    <2>2. u[k] \in S /\ Cardinality(Below(u[k])) = k - 1
      BY <1>4
    <2> HIDE DEF Below
    <2> QED BY <2>1, <2>2
  <1>6. Ranked(S, key) = [k \in 1..n |-> u[k]]
    BY <1>3, <1>5 DEF Ranked
  <1> QED BY <1>3, <1>6

\* A finite set has its members ranked, when no two have the same key.
LEMMA RankedIs ==
    ASSUME NEW S, IsFiniteSet(S), NEW key, \A x \in S : key[x] \in Int,
           \A x, y \in S : key[x] = key[y] => x = y
    PROVE  InOrder(Ranked(S, key), S, key)
  <1> DEFINE Lists(u, n, T) ==
               /\ u \in [1..n -> T]
               /\ \A x \in T : \E i \in 1..n : u[i] = x
               /\ \A i, j \in 1..n : i < j => key[u[i]] < key[u[j]]
             Listed == {n \in Nat : \A T \in SUBSET S :
                           Cardinality(T) = n => \E u : Lists(u, n, T)}
  <1>1. 0 \in Listed
    <2> SUFFICES ASSUME NEW T \in SUBSET S, Cardinality(T) = 0 PROVE \E u : Lists(u, 0, T)
      OBVIOUS
    <2>1. T = {}
      BY FS_Subset, FS_EmptySet
    <2>2. Lists(<<>>, 0, T)
      BY <2>1
    <2> QED BY <2>2
  <1>2. ASSUME NEW n \in Nat, n \in Listed PROVE n + 1 \in Listed
    <2> SUFFICES ASSUME NEW T \in SUBSET S, Cardinality(T) = n + 1
                 PROVE  \E u : Lists(u, n + 1, T)
      OBVIOUS
    <2>1. IsFiniteSet(T) /\ T # {}
      BY FS_Subset, FS_EmptySet
    <2>2. PICK top \in T : \A x \in T : key[x] <= key[top]
      <3> DEFINE keys == {key[x] : x \in T}
      <3>1. IsFiniteSet(keys)
        <4> DEFINE f == [x \in T |-> key[x]]
        <4>1. f \in Surjection(T, keys)
          BY DEF Surjection
        <4> HIDE DEF f, keys
        <4> QED BY <2>1, <4>1, FS_Surjection
      <3>2. keys \subseteq Int /\ keys # {}
        BY <2>1
      <3>3. \E m \in keys : \A k \in keys : k <= m
        <4> HIDE DEF keys
        <4> QED BY <3>1, <3>2, GreatestNumber
      <3> QED BY <3>3
    <2> DEFINE U == T \ {top}
    <2>3. U \in SUBSET S /\ Cardinality(U) = n
      <3>1. Cardinality(U) = Cardinality(T) - 1
        BY <2>1, <2>2, FS_RemoveElement
      <3> QED BY <3>1
    <2>4. PICK v : Lists(v, n, U)
      BY <1>2, <2>3
    <2> DEFINE u == [i \in 1..n + 1 |-> IF i = n + 1 THEN top ELSE v[i]]
    <2>5. u \in [1..n + 1 -> T]
      <3>1. \A i \in 1..n + 1 : i # n + 1 => i \in 1..n
        OBVIOUS
      <3> QED BY <2>4, <3>1
    <2>6. ASSUME NEW x \in T PROVE \E i \in 1..n + 1 : u[i] = x
      <3>1. CASE x = top
        BY <3>1
      <3>2. CASE x # top
        <4>1. PICK i \in 1..n : v[i] = x
          BY <2>4, <3>2
        <4>2. i \in 1..n + 1 /\ i # n + 1
          OBVIOUS
        <4> QED BY <4>1, <4>2
      <3> QED BY <3>1, <3>2
    <2>7. ASSUME NEW i \in 1..n + 1, NEW j \in 1..n + 1, i < j PROVE key[u[i]] < key[u[j]]
      <3>1. i \in 1..n /\ u[i] = v[i] /\ v[i] \in U
        BY <2>4, <2>7
      <3>2. CASE j = n + 1
        <4>1. u[j] = top /\ v[i] \in T /\ v[i] # top
          BY <3>1, <3>2
        <4>2. key[v[i]] <= key[top] /\ key[v[i]] # key[top]
          BY <2>2, <4>1
        <4>3. key[v[i]] \in Int /\ key[top] \in Int
          BY <4>1
        <4> QED BY <3>1, <4>1, <4>2, <4>3
      <3>3. CASE j # n + 1
        <4>1. j \in 1..n /\ u[j] = v[j]
          BY <3>3
        <4> QED BY <2>4, <2>7, <3>1, <4>1
      <3> QED BY <3>2, <3>3
    <2> HIDE DEF u
    <2>8. Lists(u, n + 1, T)
      BY <2>5, <2>6, <2>7
    <2> QED BY <2>8
  <1>3. Nat \subseteq Listed
    <2> HIDE DEF Listed
    <2> QED BY <1>1, <1>2, NumbersOneByOne
  <1>4. Cardinality(S) \in Nat
    BY FS_CardinalityType
  <1>5. PICK u : Lists(u, Cardinality(S), S)
    BY <1>3, <1>4
  <1>6. Ranked(S, key) = u
    BY <1>4, <1>5, RankedAs
  <1> QED BY <1>5, <1>6 DEF InOrder

-----------------------------------------------------------------------------
(***************************************************************************)
(* The volumes of a site: order_recent_volume_ids.                         *)
(***************************************************************************)
\* The remainder of a number below twice the modulus.
LEMMA OnceAround ==
    ASSUME NEW a \in Nat, NEW c \in Nat \ {0}, a < 2 * c
    PROVE  a % c = IF a < c THEN a ELSE a - c
  OBVIOUS

\* An unbroken run of numbers, from the last to the first.
LEMMA DescendingRun ==
    ASSUME NEW a \in Int, NEW b \in Int, a <= b + 1
    PROVE  /\ IsFiniteSet(a..b) /\ Cardinality(a..b) = b + 1 - a
           /\ Descending(a..b) = [k \in 1..b + 1 - a |-> b + 1 - k]
  <1> DEFINE key == [x \in a..b |-> -x]
             u == [k \in 1..b + 1 - a |-> b + 1 - k]
  <1>1. \A x \in a..b : key[x] = -x /\ key[x] \in Int
    OBVIOUS
  <1>2. b + 1 - a \in Nat /\ u \in [1..b + 1 - a -> a..b]
    OBVIOUS
  <1>3. ASSUME NEW x \in a..b PROVE \E i \in 1..b + 1 - a : u[i] = x
    <2>1. b + 1 - x \in 1..b + 1 - a /\ u[b + 1 - x] = x
      OBVIOUS
    <2> QED BY <2>1
  <1>4. ASSUME NEW i \in 1..b + 1 - a, NEW j \in 1..b + 1 - a, i < j
        PROVE  key[u[i]] < key[u[j]]
    <2>1. u[i] \in a..b /\ u[j] \in a..b /\ u[j] < u[i]
      BY <1>4
    <2> QED BY <1>1, <2>1
  <1>5. Cardinality(a..b) = b + 1 - a /\ IsFiniteSet(a..b) /\ Ranked(a..b, key) = u
    <2> DEFINE n == b + 1 - a
               S == a..b
    <2>1. n \in Nat /\ u \in [1..n -> S]
      BY <1>2
    <2>2. \A x \in S : key[x] \in Int
      BY <1>1
    <2>3. \A x \in S : \E i \in 1..n : u[i] = x
      BY <1>3
    <2>4. \A i, j \in 1..n : i < j => key[u[i]] < key[u[j]]
      BY <1>4
    <2> HIDE DEF key, u, n, S
    <2>5. IsFiniteSet(S) /\ Cardinality(S) = n /\ Ranked(S, key) = u
      BY <2>1, <2>2, <2>3, <2>4, RankedAs
    <2> QED BY <2>5 DEF n, S
  <1> QED BY <1>5 DEF Descending

\* The identifier that follows x, when nothing lies between them.
LEMMA NextIs ==
    ASSUME NEW ids \in SUBSET Int, NEW x \in ids, NEW y \in ids, y > x,
           \A z \in ids : z > x => y <= z
    PROVE  GapAfter(ids, x) = y - x
  <1>1. \A v \in ids : v > x /\ (\A z \in ids : z > x => v <= z) => v = y
    OBVIOUS
  <1>2. NextId(ids, x) = y
    BY <1>1 DEF NextId
  <1> QED BY <1>2 DEF GapAfter

\* Identifiers without a gap are ordered from the last to the first.
LEMMA RunInOrder ==
    ASSUME NEW a \in Nat, NEW b \in Nat, a <= b
    PROVE  OrderRecent(a..b) = [k \in 1..b + 1 - a |-> b + 1 - k]
  <1> DEFINE inner == (a..b) \ {Biggest(a..b)}
             wide == {x \in inner : \A y \in inner : GapAfter(a..b, y) <= GapAfter(a..b, x)}
             cut == CHOOSE x \in wide : \A y \in wide : x <= y
  <1>1. Biggest(a..b) = b
    <2>1. b \in a..b /\ \A y \in a..b : y <= b
      OBVIOUS
    <2>2. \A x \in a..b : (\A y \in a..b : y <= x) => x = b
      BY <2>1
    <2> QED BY <2>1, <2>2 DEF Biggest
  <1>2. \A x \in inner : GapAfter(a..b, x) = 1
    <2> SUFFICES ASSUME NEW x \in inner PROVE GapAfter(a..b, x) = 1
      OBVIOUS
    <2>1. x \in a..b /\ x + 1 \in a..b /\ a..b \in SUBSET Int
      BY <1>1
    <2>2. GapAfter(a..b, x) = (x + 1) - x
      <3>1. x + 1 > x /\ \A z \in a..b : z > x => x + 1 <= z
        BY <2>1
      <3> HIDE DEF inner
      <3> QED BY <2>1, <3>1, NextIs
    <2> QED BY <2>1, <2>2
  <1>3. CASE Cardinality(a..b) < 2
    <2>1. OrderRecent(a..b) = Descending(a..b)
      BY <1>3 DEF OrderRecent
    <2> QED BY <2>1, DescendingRun
  <1>4. CASE ~(Cardinality(a..b) < 2)
    <2>1. a < b
      <3>1. Cardinality(a..b) = b + 1 - a
        <4>1. a \in Int /\ b \in Int /\ a <= b + 1
          OBVIOUS
        <4> QED BY <4>1, DescendingRun
      <3> QED BY <1>4, <3>1
    <2>2. a \in wide /\ \A y \in wide : a <= y
      BY <1>1, <1>2, <2>1
    <2>3. cut \in wide
      <3> HIDE DEF wide
      <3> QED BY <2>2
    <2>4. GapAfter(a..b, cut) = 1
      BY <1>2, <2>3
    <2>5. OrderRecent(a..b) = Descending(a..b)
      <3>1. GapAfter(a..b, cut) <= 1
        BY <2>4
      <3> QED BY <3>1 DEF OrderRecent
    <2> QED BY <2>5, DescendingRun
  <1> QED BY <1>3, <1>4

\* Identifiers that have started again at 1: those from 1 on are the newer ones, when
\* the gap is not the gap between neighbours.
LEMMA WrappedInOrder ==
    ASSUME NEW w \in Nat \ {0}, NEW f \in Nat, NEW c \in Nat, w + 1 < f, f <= c
    PROVE  OrderRecent((1..w) \cup (f..c))
               = [k \in 1..w |-> w + 1 - k] \o [k \in 1..c + 1 - f |-> c + 1 - k]
  <1> DEFINE ids == (1..w) \cup (f..c)
             inner == ids \ {Biggest(ids)}
             wide == {x \in inner : \A y \in inner : GapAfter(ids, y) <= GapAfter(ids, x)}
             cut == CHOOSE x \in wide : \A y \in wide : x <= y
  <1>1. Biggest(ids) = c
    <2>1. c \in ids /\ \A y \in ids : y <= c
      OBVIOUS
    <2>2. \A x \in ids : (\A y \in ids : y <= x) => x = c
      BY <2>1
    <2> HIDE DEF ids
    <2> QED BY <2>1, <2>2 DEF Biggest
  <1>2. ids \in SUBSET Int
    OBVIOUS
  <1>3. ASSUME NEW x \in inner PROVE GapAfter(ids, x) = IF x = w THEN f - w ELSE 1
    <2>1. x \in ids /\ x \in Int /\ x # c
      BY <1>1
    <2>2. CASE x = w
      <3>1. f \in ids /\ f > x /\ \A z \in ids : z > x => f <= z
        BY <2>2
      <3> HIDE DEF ids, inner
      <3>2. GapAfter(ids, x) = f - x
        BY <1>2, <2>1, <3>1, NextIs
      <3> QED BY <2>2, <3>2
    <2>3. CASE x # w
      <3>1. x + 1 \in ids /\ x + 1 > x /\ \A z \in ids : z > x => x + 1 <= z
        BY <2>1, <2>3
      <3> HIDE DEF ids, inner
      <3>2. GapAfter(ids, x) = (x + 1) - x
        BY <1>2, <2>1, <3>1, NextIs
      <3> QED BY <2>1, <2>3, <3>2
    <2> QED BY <2>2, <2>3
  <1>4. wide = {w}
    <2>1. w \in inner
      BY <1>1
    <2>2. ASSUME NEW x \in inner PROVE x \in wide <=> x = w
      <3>1. GapAfter(ids, w) = f - w /\ f - w > 1
        BY <1>3, <2>1
      <3>2. \A y \in inner : GapAfter(ids, y) <= f - w
        BY <1>3
      <3>3. x # w => GapAfter(ids, x) = 1
        BY <1>3
      <3> HIDE DEF ids, inner
      <3> QED BY <2>1, <3>1, <3>2, <3>3
    <2> HIDE DEF ids, inner
    <2> QED BY <2>1, <2>2
  <1>5. cut = w
    <2> HIDE DEF wide
    <2> QED BY <1>4
  <1>6. GapAfter(ids, cut) = f - w
    <2>1. w \in inner
      BY <1>1
    <2> HIDE DEF ids, inner, cut
    <2> QED BY <1>3, <1>5, <2>1
  <1>7. Cardinality(ids) >= 2
    <2>1. /\ IsFiniteSet(1..w) /\ Cardinality(1..w) = w
          /\ IsFiniteSet(f..c) /\ Cardinality(f..c) = c + 1 - f
      <3>1. 1 \in Int /\ w \in Int /\ f \in Int /\ c \in Int /\ 1 <= w + 1 /\ f <= c + 1
        OBVIOUS
      <3>2. IsFiniteSet(1..w) /\ Cardinality(1..w) = w + 1 - 1
        BY <3>1, DescendingRun
      <3>3. IsFiniteSet(f..c) /\ Cardinality(f..c) = c + 1 - f
        BY <3>1, DescendingRun
      <3> QED BY <3>2, <3>3
    <2>2. (1..w) \cap (f..c) = {}
      OBVIOUS
    <2>3. Cardinality(ids) = w + (c + 1 - f) - 0
      <3>1. Cardinality(ids)
              = Cardinality(1..w) + Cardinality(f..c) - Cardinality((1..w) \cap (f..c))
        BY <2>1, FS_Union
      <3>2. Cardinality((1..w) \cap (f..c)) = 0
        BY <2>2, FS_EmptySet
      <3> HIDE DEF ids
      <3> QED BY <2>1, <3>1, <3>2
    <2> QED BY <2>3
  <1>8. OrderRecent(ids)
          = Descending({x \in ids : x <= cut}) \o Descending({x \in ids : x > cut})
    <2>1. 1 \in ids /\ ~(Cardinality(ids) < 2) /\ ~(GapAfter(ids, cut) <= 1)
      <3>1. Cardinality(ids) \in Int
        <4>1. IsFiniteSet(1..w) /\ IsFiniteSet(f..c)
          BY FS_Interval
        <4>2. IsFiniteSet(ids)
          BY <4>1, FS_Union
        <4> HIDE DEF ids
        <4> QED BY <4>2, FS_CardinalityType
      <3>2. 1 \in ids
        OBVIOUS
      <3> HIDE DEF ids, cut
      <3> QED BY <1>6, <1>7, <3>1, <3>2
    <2> QED BY <2>1 DEF OrderRecent
  <1>9. {x \in ids : x <= cut} = 1..w /\ {x \in ids : x > cut} = f..c
    <2> HIDE DEF cut
    <2> QED BY <1>5
  <1> HIDE DEF ids, cut
  <1>10. OrderRecent(ids) = Descending(1..w) \o Descending(f..c)
    BY <1>8, <1>9
  <1>11. Descending(1..w) = [k \in 1..w |-> w + 1 - k]
    <2>1. w + 1 - 1 = w /\ w \in Int /\ 1 <= w + 1
      OBVIOUS
    <2>2. Descending(1..w) = [k \in 1..w + 1 - 1 |-> w + 1 - k]
      BY DescendingRun
    <2> QED BY <2>1, <2>2
  <1>12. Descending(f..c) = [k \in 1..c + 1 - f |-> c + 1 - k]
    BY DescendingRun
  <1> QED BY <1>10, <1>11, <1>12 DEF ids

\* A window of volumes that is not the whole cycle comes newest first.
LEMMA WindowInOrder ==
    ASSUME NEW f \in 1..Cycle, NEW n \in 1..Cycle - 1
    PROVE  LET id(k) == ((f + k - 2) % Cycle) + 1
           IN  OrderRecent({id(k) : k \in 1..n}) = [k \in 1..n |-> id(n + 1 - k)]
  <1> DEFINE id(k) == ((f + k - 2) % Cycle) + 1
             ids == {id(k) : k \in 1..n}
  <1>0. Cycle \in Nat \ {0, 1}
    BY ParsingAssumption
  <1>1. ASSUME NEW k \in 1..n
        PROVE  id(k) = IF f + k - 1 <= Cycle THEN f + k - 1 ELSE f + k - 1 - Cycle
    <2>1. f + k - 2 \in Nat /\ f + k - 2 < 2 * Cycle
      BY <1>0
    <2>2. (f + k - 2) % Cycle = IF f + k - 2 < Cycle THEN f + k - 2 ELSE f + k - 2 - Cycle
      <3>1. PICK a \in Nat : a = f + k - 2 /\ a < 2 * Cycle
        BY <2>1
      <3>2. a % Cycle = IF a < Cycle THEN a ELSE a - Cycle
        BY <1>0, <3>1, OnceAround
      <3> QED BY <1>0, <2>1, <3>1, <3>2
    <2> QED BY <1>0, <2>1, <2>2
  <1>2. ASSUME NEW k \in 1..n PROVE n + 1 - k \in 1..n
    OBVIOUS
  <1> HIDE DEF id
  <1>3. CASE f + n - 1 <= Cycle
    <2>1. \A k \in 1..n : id(k) = f + k - 1
      BY <1>0, <1>1, <1>3
    <2>2. ids = f..f + n - 1
      <3>1. \A k \in 1..n : id(k) \in f..f + n - 1
        BY <2>1
      <3>2. ASSUME NEW x \in f..f + n - 1 PROVE \E k \in 1..n : id(k) = x
        <4>1. x - f + 1 \in 1..n /\ f + (x - f + 1) - 1 = x
          OBVIOUS
        <4> QED BY <2>1, <4>1
      <3> QED BY <3>1, <3>2
    <2>3. OrderRecent(f..f + n - 1)
            = [k \in 1..(f + n - 1) + 1 - f |-> (f + n - 1) + 1 - k]
      <3>1. f \in Nat /\ f + n - 1 \in Nat /\ f <= f + n - 1
        BY <1>0
      <3> QED BY <3>1, RunInOrder
    <2>4. (f + n - 1) + 1 - f = n
      OBVIOUS
    <2>5. \A k \in 1..n : id(n + 1 - k) = (f + n - 1) + 1 - k
      BY <1>2, <2>1
    <2> HIDE DEF ids
    <2>6. OrderRecent(ids) = [k \in 1..n |-> id(n + 1 - k)]
      BY <2>2, <2>3, <2>4, <2>5
    <2> QED BY <2>6 DEF ids, id
  <1>4. CASE ~(f + n - 1 <= Cycle)
    <2> DEFINE w == f + n - 1 - Cycle
    <2>1. w \in Nat \ {0} /\ f \in Nat /\ Cycle \in Nat /\ w + 1 < f /\ f <= Cycle
      BY <1>0, <1>4
    <2>2. ids = (1..w) \cup (f..Cycle)
      <3>1. ASSUME NEW k \in 1..n PROVE id(k) \in (1..w) \cup (f..Cycle)
        BY <1>0, <1>1, <2>1
      <3>2. ASSUME NEW x \in 1..w PROVE \E k \in 1..n : id(k) = x
        <4>1. x + Cycle - f + 1 \in 1..n
          BY <1>0, <2>1
        <4>2. id(x + Cycle - f + 1) = x
          BY <1>0, <1>1, <4>1
        <4> QED BY <4>1, <4>2
      <3>3. ASSUME NEW x \in f..Cycle PROVE \E k \in 1..n : id(k) = x
        <4>1. x - f + 1 \in 1..n
          BY <1>0, <2>1
        <4>2. id(x - f + 1) = x
          BY <1>0, <1>1, <4>1
        <4> QED BY <4>1, <4>2
      <3> HIDE DEF w
      <3> QED BY <3>1, <3>2, <3>3
    <2> DEFINE newer == [k \in 1..w |-> w + 1 - k]
               older == [k \in 1..Cycle + 1 - f |-> Cycle + 1 - k]
    <2>3. OrderRecent(ids) = newer \o older
      <3> HIDE DEF w, ids
      <3> QED BY <2>1, <2>2, WrappedInOrder
    <2>4. newer \in Seq(Int) /\ Len(newer) = w
      BY <2>1
    <2>5. older \in Seq(Int) /\ Len(older) = Cycle + 1 - f
      BY <2>1
    <2>6. newer \o older = [k \in 1..n |-> IF k <= w THEN newer[k] ELSE older[k - w]]
      <3>1. w + (Cycle + 1 - f) = n
        BY <1>0
      <3> HIDE DEF newer, older, w
      <3>2. Len(newer) + Len(older) = n
        BY <2>4, <2>5, <3>1
      <3>3. /\ Len(newer \o older) = n /\ newer \o older \in Seq(Int)
            /\ \A k \in 1..n : (newer \o older)[k] = IF k <= w THEN newer[k] ELSE older[k - w]
        BY <2>4, <2>5, <3>2, ConcatProperties
      <3>4. DOMAIN (newer \o older) = 1..n
        BY <3>3, LenProperties
      <3>5. newer \o older = [k \in 1..n |-> (newer \o older)[k]]
        BY <3>3, <3>4, LenProperties
      <3> QED BY <3>3, <3>5
    <2>7. ASSUME NEW k \in 1..n
          PROVE  (IF k <= w THEN newer[k] ELSE older[k - w]) = id(n + 1 - k)
      <3>1. id(n + 1 - k) = IF k <= w THEN w + 1 - k ELSE f + n - k
        BY <1>0, <1>1, <1>2
      <3>2. k <= w => newer[k] = w + 1 - k
        BY <2>1
      <3>3. ~(k <= w) => older[k - w] = f + n - k
        BY <1>0, <2>1
      <3> HIDE DEF newer, older, w
      <3> QED BY <3>1, <3>2, <3>3
    <2> HIDE DEF newer, older, w, ids
    <2>8. OrderRecent(ids) = [k \in 1..n |-> id(n + 1 - k)]
      BY <2>3, <2>6, <2>7
    <2> QED BY <2>8 DEF ids, id
  <1> QED BY <1>3, <1>4

-----------------------------------------------------------------------------
(***************************************************************************)
(* The chunks of a volume: required_volume_chunks.                         *)
(***************************************************************************)
ListedChunks == [number : Nat \ {0}, kind : {"E", "I", "S"}]

\* g has the chunks taken after each one, and the last are those required.
Takes(g, ordered, listing) ==
    /\ RequiredChunks(listing) =
         IF Len(g[Len(ordered)]) < FirstChunks THEN <<>> ELSE g[Len(ordered)]
    /\ g[0] = <<>>
    /\ \A n \in 1..Len(ordered) : g[n] = TakeChunk(g[n - 1], ordered[n])

\* A chunk taken is a chunk of the listing.
LEMMA TakeChunkType ==
    ASSUME NEW S, NEW run \in Seq(S), NEW c \in S
    PROVE  TakeChunk(run, c) \in Seq(S)
  <1>1. Append(run, c) \in Seq(S)
    BY AppendProperties
  <1>2. [run EXCEPT ![1] = c] \in Seq(S)
    <2>1. PICK m \in Nat : run \in [1..m -> S]
      BY SeqDef
    <2>2. [run EXCEPT ![1] = c] \in [1..m -> S]
      BY <2>1
    <2> QED BY <2>1, <2>2, SeqDef
  <1> QED BY <1>1, <1>2 DEF TakeChunk

\* The required chunks are found one by one.
LEMMA TakenSteps ==
    ASSUME NEW listing, NEW ordered \in Seq(listing),
           ordered = Ranked(listing, [c \in listing |-> Place(c)])
    PROVE  \E g : Takes(g, ordered, listing)
  <1> DEFINE N == Len(ordered)
             A == Seq(listing)
             step == [x \in (1..N) \X A |-> TakeChunk(x[2], ordered[x[1]])]
             Step(g, n) == IF n = 0 THEN <<>> ELSE TakeChunk(g[n - 1], ordered[n])
             Solves(g) == g = [n \in 0..N |-> Step(g, n)]
  <1>1. N \in Nat /\ \A n \in 1..N : ordered[n] \in listing
    BY LenProperties, ElementOfSeq
  <1>2. step \in [(1..N) \X A -> A]
    <2> SUFFICES ASSUME NEW x \in (1..N) \X A PROVE TakeChunk(x[2], ordered[x[1]]) \in A
      OBVIOUS
    <2>1. x[2] \in Seq(listing) /\ ordered[x[1]] \in listing
      BY <1>1
    <2> QED BY <2>1, TakeChunkType
  <1>3. PICK base \in A : base = <<>>
    BY EmptySeq
  <1>f. PICK f : Iterates(f, N, A, base, step)
    <2> HIDE DEF A, N, step
    <2> QED BY <1>1, <1>2, Recursion
  <1>4. f \in [0..N -> A] /\ f[0] = base /\ \A n \in 1..N : f[n] = step[<<n, f[n - 1]>>]
    BY <1>f DEF Iterates
  <1>5. Solves(f)
    <2>1. ASSUME NEW n \in 0..N PROVE f[n] = Step(f, n)
      <3>1. CASE n = 0
        BY <1>3, <1>4, <3>1
      <3>2. CASE n # 0
        <4>1. n \in 1..N /\ <<n, f[n - 1]>> \in (1..N) \X A
          <5>1. n \in 1..N /\ n - 1 \in 0..N
            BY <1>1, <3>2
          <5> HIDE DEF N, A
          <5>2. f[n - 1] \in A
            BY <1>4, <5>1
          <5> QED BY <5>1, <5>2
        <4>2. step[<<n, f[n - 1]>>] = TakeChunk(f[n - 1], ordered[n])
          <5>1. <<n, f[n - 1]>>[1] = n /\ <<n, f[n - 1]>>[2] = f[n - 1]
            OBVIOUS
          <5> HIDE DEF A, N
          <5> QED BY <4>1, <5>1
        <4> QED BY <1>4, <3>2, <4>1, <4>2
      <3> QED BY <3>1, <3>2
    <2> HIDE DEF Step, A, N, step
    <2>2. f = [n \in 0..N |-> f[n]]
      BY <1>4
    <2> QED BY <2>1, <2>2
  <1>6. PICK g : g = CHOOSE h : Solves(h)
    OBVIOUS
  <1>7. Solves(g)
    <2> HIDE DEF Solves
    <2> QED BY <1>5, <1>6
  <1>8. \A n \in 0..N : g[n] = Step(g, n)
    <2> HIDE DEF Step, N
    <2> QED BY <1>7
  <1>9. g[0] = <<>> /\ \A n \in 1..N : g[n] = TakeChunk(g[n - 1], ordered[n])
    <2>1. 0 \in 0..N /\ \A n \in 1..N : n \in 0..N /\ n # 0
      BY <1>1
    <2>2. Step(g, 0) = <<>> /\ \A n \in 1..N : Step(g, n) = TakeChunk(g[n - 1], ordered[n])
      BY <1>1
    <2> HIDE DEF Step, N
    <2> QED BY <1>8, <2>1, <2>2
  <1>10. RequiredChunks(listing) = IF Len(g[N]) < FirstChunks THEN <<>> ELSE g[N]
    BY <1>6 DEF RequiredChunks
  <1> QED BY <1>9, <1>10 DEF Takes

\* ListedChunks have different places, in the order of their numbers.
LEMMA PlacesDiffer ==
    ASSUME NEW c \in ListedChunks, NEW d \in ListedChunks
    PROVE  /\ Place(c) \in Int
           /\ Place(c) = Place(d) => c = d
           /\ Place(c) < Place(d) => c.number <= d.number
  <1>1. c.number \in Nat /\ d.number \in Nat /\ c.kind \in {"E", "I", "S"} /\ d.kind \in {"E", "I", "S"}
    BY DEF ListedChunks
  <1>2. \A k \in {"E", "I", "S"} : Rank(k) \in {1, 2, 3}
    BY DEF Rank
  <1>3. Rank(c.kind) = Rank(d.kind) => c.kind = d.kind
    BY <1>1 DEF Rank
  <1>4. PICK i \in {1, 2, 3}, j \in {1, 2, 3} : i = Rank(c.kind) /\ j = Rank(d.kind)
    BY <1>1, <1>2
  <1>5. c.number = d.number /\ c.kind = d.kind => c = d
    BY DEF ListedChunks
  <1> QED BY <1>1, <1>3, <1>4, <1>5 DEF Place

\* What is taken after some of the chunks, in their order.
LEMMA TakenIsContiguous ==
    ASSUME NEW listing \in SUBSET ListedChunks, IsFiniteSet(listing)
    PROVE  \E run \in Seq(listing) :
             /\ RequiredChunks(listing) = IF Len(run) < FirstChunks THEN <<>> ELSE run
             /\ \A i \in 1..Len(run) : run[i].number = i
             /\ \A c \in listing : c.number # Len(run) + 1
             /\ \A c \in listing : c.number = 1 /\ c.kind = "S" =>
                  run # <<>> /\ run[1].kind = "S"
  <1> DEFINE key == [c \in listing |-> Place(c)]
             N == Cardinality(listing)
  <1>1. PICK ordered : ordered = Ranked(listing, key)
    OBVIOUS
  <1>2. InOrder(ordered, listing, key)
    <2>1. \A c \in listing : key[c] = Place(c)
      OBVIOUS
    <2>2. \A c \in listing : key[c] \in Int
      BY <2>1, PlacesDiffer
    <2>3. \A c, d \in listing : key[c] = key[d] => c = d
      BY <2>1, PlacesDiffer
    <2> HIDE DEF key
    <2> QED BY <1>1, <2>2, <2>3, RankedIs
  <1>3. N \in Nat /\ ordered \in [1..N -> listing] /\ ordered \in Seq(listing) /\ Len(ordered) = N
    <2>1. N \in Nat /\ ordered \in [1..N -> listing]
      BY <1>2, FS_CardinalityType DEF InOrder
    <2> QED BY <2>1
  <1>4. PICK g : Takes(g, ordered, listing)
    BY <1>1, <1>3, TakenSteps
  <1>5. /\ RequiredChunks(listing) = IF Len(g[N]) < FirstChunks THEN <<>> ELSE g[N]
        /\ g[0] = <<>>
        /\ \A n \in 1..N : g[n] = TakeChunk(g[n - 1], ordered[n])
    BY <1>3, <1>4 DEF Takes
  <1>6. ASSUME NEW i \in 1..N, NEW j \in 1..N, i <= j PROVE ordered[i].number <= ordered[j].number
    <2>1. ordered[i] \in ListedChunks /\ ordered[j] \in ListedChunks
      BY <1>3
    <2>2. CASE i = j
      BY <2>1, <2>2 DEF ListedChunks
    <2>3. CASE i # j
      <3>1. key[ordered[i]] < key[ordered[j]]
        BY <1>2, <1>6, <2>3 DEF InOrder
      <3>2. key[ordered[i]] = Place(ordered[i]) /\ key[ordered[j]] = Place(ordered[j])
        BY <1>3
      <3> QED BY <2>1, <3>1, <3>2, PlacesDiffer
    <2> QED BY <2>2, <2>3
  <1> DEFINE Good(run, n) ==
               /\ run \in Seq(listing)
               /\ \A i \in 1..Len(run) : run[i].number = i
               /\ \A j \in 1..n : ordered[j].number # Len(run) + 1
               /\ \A j \in 1..n : ordered[j].number = 1 /\ ordered[j].kind = "S" =>
                    run # <<>> /\ run[1].kind = "S"
  <1>7. ASSUME NEW n \in 1..N, NEW run, Good(run, n - 1)
        PROVE  Good(TakeChunk(run, ordered[n]), n)
    <2> DEFINE c == ordered[n]
               next == TakeChunk(run, c)
    <2>1. /\ c \in listing /\ c \in ListedChunks /\ c.number \in Nat \ {0}
          /\ run \in Seq(listing) /\ Len(run) \in Nat /\ \A i \in 1..Len(run) : run[i] \in listing
      BY <1>3, <1>7, LenProperties, ElementOfSeq DEF ListedChunks
    <2>2. next \in Seq(listing)
      BY <2>1, TakeChunkType
    <2>3. ASSUME NEW j \in 1..n PROVE j \in 1..n - 1 \/ j = n
      OBVIOUS
    <2> HIDE DEF c
    <2>4. CASE c.number = Len(run) + 1
      <3>1. next = Append(run, c)
        BY <2>4 DEF TakeChunk
      <3>2. /\ Len(next) = Len(run) + 1
            /\ \A i \in 1..Len(run) : next[i] = run[i]
            /\ next[Len(run) + 1] = c
        BY <2>1, <3>1, AppendProperties
      <3> HIDE DEF next
      <3>3. ASSUME NEW i \in 1..Len(next) PROVE next[i].number = i
        <4>1. CASE i = Len(run) + 1
          BY <2>4, <3>2, <4>1
        <4>2. CASE i # Len(run) + 1
          <5>1. i \in 1..Len(run)
            BY <2>1, <3>2, <4>2
          <5> QED BY <1>7, <3>2, <5>1
        <4> QED BY <4>1, <4>2
      <3>4. ASSUME NEW j \in 1..n PROVE ordered[j].number # Len(next) + 1
        <4>1. ordered[j].number <= c.number
          <5>1. j \in 1..N /\ n \in 1..N /\ j <= n
            BY <1>3
          <5> QED BY <1>6, <5>1 DEF c
        <4>2. ordered[j].number \in Nat
          BY <1>3 DEF ListedChunks
        <4> QED BY <2>1, <2>4, <3>2, <4>1, <4>2
      <3>5. ASSUME NEW j \in 1..n, ordered[j].number = 1, ordered[j].kind = "S"
            PROVE  next # <<>> /\ next[1].kind = "S"
        <4>1. next # <<>>
          BY <2>1, <2>2, <3>2, EmptySeq
        <4>2. CASE j = n
          <5>1. Len(run) = 0 /\ c.kind = "S"
            BY <2>1, <2>4, <3>5, <4>2 DEF c
          <5> QED BY <3>2, <4>1, <5>1
        <4>3. CASE j \in 1..n - 1
          <5>1. run # <<>> /\ run[1].kind = "S"
            BY <1>7, <3>5, <4>3
          <5>2. 1 \in 1..Len(run)
            BY <2>1, <5>1, EmptySeq
          <5> QED BY <3>2, <4>1, <5>1, <5>2
        <4> QED BY <2>3, <4>2, <4>3
      <3>6. Good(next, n)
        BY <2>2, <3>3, <3>4, <3>5
      <3> QED BY <3>6 DEF next, c
    <2>5. CASE c.number # Len(run) + 1 /\ c.number = 1 /\ c.kind = "S"
      <3>1. next = [run EXCEPT ![1] = c]
        BY <2>5 DEF TakeChunk
      <3>2. 1 \in 1..Len(run)
        BY <2>1, <2>5
      <3>3. /\ Len(next) = Len(run)
            /\ next[1] = c
            /\ \A i \in 1..Len(run) : i # 1 => next[i] = run[i]
        BY <2>1, <3>1, <3>2, LenProperties
      <3> HIDE DEF next
      <3>4. \A i \in 1..Len(next) : next[i].number = i
        BY <1>7, <2>5, <3>3
      <3>5. \A j \in 1..n : ordered[j].number # Len(next) + 1
        BY <1>7, <2>3, <2>5, <3>3 DEF c
      <3>6. next # <<>> /\ next[1].kind = "S"
        BY <2>1, <2>2, <2>5, <3>2, <3>3, EmptySeq
      <3>7. Good(next, n)
        BY <2>2, <3>4, <3>5, <3>6
      <3> QED BY <3>7 DEF next, c
    <2>6. CASE c.number # Len(run) + 1 /\ ~(c.number = 1 /\ c.kind = "S")
      <3>1. next = run
        BY <2>6 DEF TakeChunk
      <3>2. \A j \in 1..n : ordered[j].number # Len(run) + 1
        BY <1>7, <2>3, <2>6 DEF c
      <3>3. \A j \in 1..n : ordered[j].number = 1 /\ ordered[j].kind = "S" =>
               run # <<>> /\ run[1].kind = "S"
        BY <1>7, <2>3, <2>6 DEF c
      <3>4. Good(run, n)
        BY <1>7, <3>2, <3>3
      <3> QED BY <3>1, <3>4 DEF c
    <2> QED BY <2>4, <2>5, <2>6
  <1>8. Good(<<>>, 0)
    OBVIOUS
  <1> HIDE DEF Good, N
  <1> DEFINE Right == {n \in Nat : n <= N => Good(g[n], n)}
  <1>9. Nat \subseteq Right
    <2>1. 0 \in Right
      BY <1>5, <1>8
    <2>2. ASSUME NEW n \in Nat, n \in Right PROVE n + 1 \in Right
      <3> SUFFICES ASSUME n + 1 <= N PROVE Good(g[n + 1], n + 1)
        OBVIOUS
      <3>1. n + 1 \in 1..N /\ (n + 1) - 1 = n /\ Good(g[n], n)
        BY <1>3, <2>2
      <3>2. g[n + 1] = TakeChunk(g[n], ordered[n + 1])
        BY <1>5, <3>1
      <3>3. Good(TakeChunk(g[n], ordered[n + 1]), n + 1)
        BY <1>7, <3>1
      <3> QED BY <3>2, <3>3
    <2> HIDE DEF Right
    <2> QED BY <2>1, <2>2, NumbersOneByOne
  <1>10. Good(g[N], N)
    BY <1>3, <1>9
  <1>11. \A c \in listing : \E j \in 1..N : ordered[j] = c
    BY <1>2 DEF InOrder, N
  <1>12. /\ g[N] \in Seq(listing)
         /\ \A i \in 1..Len(g[N]) : g[N][i].number = i
         /\ \A c \in listing : c.number # Len(g[N]) + 1
         /\ \A c \in listing : c.number = 1 /\ c.kind = "S" =>
              g[N] # <<>> /\ g[N][1].kind = "S"
    BY <1>10, <1>11 DEF Good
  <1> QED BY <1>5, <1>12

\* The numbers the chunks taken have are those before the first that is missing.
LEMMA ContiguousListing ==
    ASSUME NEW listing \in SUBSET ListedChunks, IsFiniteSet(listing)
    PROVE  LET numbers == {c.number : c \in listing}
               run == {n \in numbers : 1..n \subseteq numbers}
               used == RequiredChunks(listing)
           IN  /\ Len(used) = (IF Cardinality(run) < FirstChunks THEN 0 ELSE Cardinality(run))
               /\ \A i \in DOMAIN used : used[i].number = i /\ used[i] \in listing
               /\ used # <<>> /\ [number |-> 1, kind |-> "S"] \in listing =>
                    used[1].kind = "S"
  <1> DEFINE numbers == {c.number : c \in listing}
             run == {n \in numbers : 1..n \subseteq numbers}
             used == RequiredChunks(listing)
  <1>1. PICK u \in Seq(listing) :
             /\ used = IF Len(u) < FirstChunks THEN <<>> ELSE u
             /\ \A i \in 1..Len(u) : u[i].number = i
             /\ \A c \in listing : c.number # Len(u) + 1
             /\ \A c \in listing : c.number = 1 /\ c.kind = "S" =>
                  u # <<>> /\ u[1].kind = "S"
    BY TakenIsContiguous
  <1>2. Len(u) \in Nat /\ DOMAIN u = 1..Len(u) /\ \A i \in 1..Len(u) : u[i] \in listing
    BY LenProperties, ElementOfSeq
  <1>3. numbers \subseteq Nat \ {0}
    BY DEF ListedChunks
  <1>4. 1..Len(u) \subseteq numbers
    <2> SUFFICES ASSUME NEW i \in 1..Len(u) PROVE i \in numbers
      OBVIOUS
    <2>1. u[i] \in listing /\ u[i].number = i
      BY <1>1, <1>2
    <2> QED BY <2>1
  <1>5. Len(u) + 1 \notin numbers
    BY <1>1
  <1>6. run = 1..Len(u)
    <2> HIDE DEF numbers
    <2>1. ASSUME NEW n \in run PROVE n \in 1..Len(u)
      <3>1. n \in Nat \ {0} /\ 1..n \subseteq numbers
        BY <1>3
      <3>2. ~(Len(u) + 1 <= n)
        <4>1. Len(u) + 1 <= n => Len(u) + 1 \in 1..n
          BY <1>2, <3>1
        <4> QED BY <1>5, <3>1, <4>1
      <3> QED BY <1>2, <3>1, <3>2
    <2>2. ASSUME NEW n \in 1..Len(u) PROVE n \in run
      <3>1. 1..n \subseteq 1..Len(u)
        BY <1>2
      <3> QED BY <1>4, <3>1
    <2> HIDE DEF run
    <2> QED BY <2>1, <2>2
  <1>7. Cardinality(run) = Len(u)
    <2>1. Cardinality(1..Len(u)) = IF 1 > Len(u) THEN 0 ELSE Len(u) - 1 + 1
      BY <1>2, FS_Interval
    <2> HIDE DEF run
    <2> QED BY <1>2, <1>6, <2>1
  <1> HIDE DEF run, numbers
  <1>8. Len(used) = IF Cardinality(run) < FirstChunks THEN 0 ELSE Cardinality(run)
    <2>1. Len(<<>>) = 0
      OBVIOUS
    <2> HIDE DEF used
    <2> QED BY <1>1, <1>7, <2>1
  <1>9. \A i \in DOMAIN used : used[i].number = i /\ used[i] \in listing
    <2>1. DOMAIN <<>> = {}
      OBVIOUS
    <2> HIDE DEF used
    <2> QED BY <1>1, <1>2, <2>1
  <1>10. used # <<>> /\ [number |-> 1, kind |-> "S"] \in listing => used[1].kind = "S"
    <2> DEFINE c == [number |-> 1, kind |-> "S"]
    <2>1. c.number = 1 /\ c.kind = "S"
      OBVIOUS
    <2> HIDE DEF used, c
    <2>2. used # <<>> /\ c \in listing => used[1].kind = "S"
      BY <1>1, <2>1
    <2> QED BY <2>2 DEF c
  <1> QED BY <1>8, <1>9, <1>10 DEF run, numbers

-----------------------------------------------------------------------------
(***************************************************************************)
(* Reading records: _walk_records.                                         *)
(***************************************************************************)
Waves == {"cs", "cd", "batch"}
\* A sweep and a reading: the sweeps found, the records of the open one, its wave.
SweepType == [records : Seq(Nat), wave : Waves, whole : BOOLEAN]
Reading == [sweeps : Seq(SweepType), open : Seq(Nat), wave : Waves]

\* g has what has been read after each record.
Reads(g, stream) ==
    /\ Sweeps(stream) = Close(g[Len(stream)]).sweeps
    /\ g \in [0..Len(stream) -> Reading]
    /\ g[0] = NothingRead
    /\ \A i \in 1..Len(stream) : g[i] = ReadRecord(stream, g[i - 1], i)

\* A low record is a start status.
LEMMA RecordType ==
    ASSUME NEW r \in Records
    PROVE  /\ r.status \in {"start", "middle", "end"} /\ r.wave \in Waves /\ r.low \in BOOLEAN
           /\ r.low => r.status = "start"
  <1>1. CASE r \in [status : {"start", "middle", "end"}, wave : {"cs", "cd", "batch"}, low : {FALSE}]
    BY <1>1 DEF Waves
  <1>2. CASE r = [status |-> "start", wave |-> "cs", low |-> TRUE]
    <2>1. r.status = "start" /\ r.wave = "cs" /\ r.low = TRUE
      BY <1>2
    <2> QED BY <2>1 DEF Waves
  <1> QED BY <1>1, <1>2 DEF Records

\* A sweep that a start status closes is cut short, and comes after the others.
LEMMA CloseIs ==
    ASSUME NEW acc \in Reading
    PROVE  /\ Close(acc) \in Reading
           /\ Close(acc).open = <<>>
           /\ Close(acc).wave = acc.wave
           /\ acc.open = <<>> => Close(acc) = acc
           /\ acc.open # <<>> =>
                Close(acc).sweeps
                  = Append(acc.sweeps, [records |-> acc.open, wave |-> acc.wave, whole |-> FALSE])
  <1>1. acc.sweeps \in Seq(SweepType) /\ acc.open \in Seq(Nat) /\ acc.wave \in Waves
    BY DEF Reading
  <1>2. CASE acc.open = <<>>
    BY <1>2 DEF Close
  <1>3. CASE acc.open # <<>>
    <2> DEFINE cut == [records |-> acc.open, wave |-> acc.wave, whole |-> FALSE]
    <2>1. cut \in SweepType
      BY <1>1 DEF SweepType
    <2>2. cut = Sweep(acc, FALSE)
      BY DEF Sweep
    <2> HIDE DEF cut
    <2>3. Close(acc) = [sweeps |-> Append(acc.sweeps, cut), open |-> <<>>, wave |-> acc.wave]
      BY <1>3, <2>2 DEF Close, Reading
    <2>4. Append(acc.sweeps, cut) \in Seq(SweepType) /\ <<>> \in Seq(Nat)
      BY <1>1, <2>1, AppendProperties, EmptySeq
    <2>5. Close(acc) \in Reading
      BY <1>1, <2>3, <2>4 DEF Reading
    <2> QED BY <1>3, <2>3, <2>5 DEF cut
  <1> QED BY <1>2, <1>3

\* What a record that is not low adds: it belongs to the sweep that is open, or
\* opens one, and closes it if it is its end.
Joined(acc, r, i) ==
    [records |-> Append(acc.open, i),
     wave |-> IF acc.open = <<>> THEN r.wave ELSE acc.wave,
     whole |-> TRUE]

\* The record r, number i, read when it does not cut a sweep short.
Plain(acc, r, i) ==
    IF r.low THEN acc
    ELSE IF r.status # "end"
    THEN [sweeps |-> acc.sweeps, open |-> Joined(acc, r, i).records, wave |-> Joined(acc, r, i).wave]
    ELSE [sweeps |-> Append(acc.sweeps, Joined(acc, r, i)), open |-> <<>>,
          wave |-> Joined(acc, r, i).wave]

\* What these are.
LEMMA JoinedType ==
    ASSUME NEW acc \in Reading, NEW r \in Records, NEW i \in Nat
    PROVE  Joined(acc, r, i) \in SweepType
  <1>1. acc.open \in Seq(Nat) /\ acc.wave \in Waves /\ r.wave \in Waves
    BY RecordType DEF Reading
  <1>2. Append(acc.open, i) \in Seq(Nat)
    BY <1>1, AppendProperties
  <1> QED BY <1>1, <1>2 DEF Joined, SweepType

LEMMA PlainType ==
    ASSUME NEW acc \in Reading, NEW r \in Records, NEW i \in Nat
    PROVE  Plain(acc, r, i) \in Reading
  <1>1. acc.sweeps \in Seq(SweepType) /\ <<>> \in Seq(Nat)
    BY EmptySeq DEF Reading
  <1>2. Joined(acc, r, i) \in SweepType
    BY JoinedType
  <1>3. Append(acc.sweeps, Joined(acc, r, i)) \in Seq(SweepType)
    BY <1>1, <1>2, AppendProperties
  <1>4. Joined(acc, r, i).records \in Seq(Nat) /\ Joined(acc, r, i).wave \in Waves
    BY <1>2 DEF SweepType
  <1> QED BY <1>1, <1>3, <1>4 DEF Plain, Reading

\* A record is read as if the sweep before it had been closed, if it is a start.
LEMMA ReadIs ==
    ASSUME NEW stream, NEW i \in Nat, NEW r \in Records, stream[i] = r, NEW acc \in Reading
    PROVE  ReadRecord(stream, acc, i)
             = Plain(IF r.status = "start" THEN Close(acc) ELSE acc, r, i)
  <1> DEFINE before == IF r.status = "start" THEN Close(acc) ELSE acc
             opened == [before EXCEPT !.wave = IF before.open = <<>> THEN r.wave ELSE @,
                                      !.open = Append(@, i)]
             j == Joined(before, r, i)
  <1>1. before \in Reading
    BY CloseIs
  <1>2. ReadRecord(stream, acc, i) =
          IF r.low THEN before
          ELSE IF r.status # "end" THEN opened
          ELSE [opened EXCEPT !.sweeps = Append(@, Sweep(opened, TRUE)), !.open = <<>>]
    BY DEF ReadRecord
  <1> HIDE DEF before
  <1>3. opened = [sweeps |-> before.sweeps, open |-> j.records, wave |-> j.wave]
    <2>1. PICK a, b, c : before = [sweeps |-> a, open |-> b, wave |-> c]
      BY <1>1 DEF Reading
    <2>2. before.sweeps = a /\ before.open = b /\ before.wave = c
      BY <2>1
    <2>3. j.records = Append(b, i) /\ j.wave = IF b = <<>> THEN r.wave ELSE c
      BY <2>2 DEF Joined
    <2>4. opened = [sweeps |-> a, open |-> Append(b, i), wave |-> IF b = <<>> THEN r.wave ELSE c]
      <3> DEFINE w == IF b = <<>> THEN r.wave ELSE c
      <3>1. opened = [before EXCEPT !.wave = w, !.open = Append(b, i)]
        BY <2>2
      <3> HIDE DEF w, opened
      <3>2. opened = [sweeps |-> a, open |-> Append(b, i), wave |-> w]
        BY <2>1, <3>1
      <3> QED BY <3>2 DEF w
    <2> HIDE DEF opened, j
    <2> QED BY <2>2, <2>3, <2>4
  <1>4. Sweep(opened, TRUE) = j
    <2>1. opened.open = j.records /\ opened.wave = j.wave
      BY <1>3
    <2>2. j = [records |-> j.records, wave |-> j.wave, whole |-> TRUE]
      BY DEF Joined
    <2> HIDE DEF opened, j
    <2> QED BY <2>1, <2>2 DEF Sweep
  <1> HIDE DEF opened
  <1>5. [opened EXCEPT !.sweeps = Append(@, Sweep(opened, TRUE)), !.open = <<>>]
          = [sweeps |-> Append(before.sweeps, j), open |-> <<>>, wave |-> j.wave]
    <2>1. PICK a, b, c, x : a = before.sweeps /\ b = j.records /\ c = j.wave /\ x = j
      OBVIOUS
    <2> HIDE DEF j
    <2>2. opened = [sweeps |-> a, open |-> b, wave |-> c] /\ Sweep(opened, TRUE) = x
      BY <1>3, <1>4, <2>1
    <2>3. [opened EXCEPT !.sweeps = Append(@, x), !.open = <<>>]
            = [sweeps |-> Append(a, x), open |-> <<>>, wave |-> c]
      <3>0. opened = [sweeps |-> a, open |-> b, wave |-> c]
        BY <2>2
      <3>1. opened.sweeps = a
        BY <3>0
      <3>2. PICK y, z : y = Append(a, x) /\ z = <<>>
        OBVIOUS
      <3>3. [opened EXCEPT !.sweeps = y, !.open = z] = [sweeps |-> y, open |-> z, wave |-> c]
        <4>1. PICK p : p = [opened EXCEPT !.sweeps = y]
          OBVIOUS
        <4>2. p = [sweeps |-> y, open |-> b, wave |-> c]
          BY <3>0, <4>1
        <4>3. [p EXCEPT !.open = z] = [sweeps |-> y, open |-> z, wave |-> c]
          BY <4>2
        <4>4. [opened EXCEPT !.sweeps = y, !.open = z]
                = [[opened EXCEPT !.sweeps = y] EXCEPT !.open = z]
          OBVIOUS
        <4> QED BY <4>1, <4>3, <4>4
      <3> QED BY <3>1, <3>2, <3>3
    <2> QED BY <2>1, <2>2, <2>3
  <1>6. ReadRecord(stream, acc, i) = Plain(before, r, i)
    BY <1>2, <1>3, <1>5 DEF Plain
  <1> QED BY <1>6 DEF before

\* A reading stays one.
LEMMA ReadType ==
    ASSUME NEW stream, NEW i \in Nat, stream[i] \in Records, NEW acc \in Reading
    PROVE  ReadRecord(stream, acc, i) \in Reading
  <1>1. PICK r \in Records : r = stream[i]
    OBVIOUS
  <1>2. (IF r.status = "start" THEN Close(acc) ELSE acc) \in Reading
    BY CloseIs
  <1> QED BY <1>1, <1>2, ReadIs, PlainType

LEMMA NothingType == NothingRead \in Reading
  <1>1. <<>> \in Seq(Nat) /\ <<>> \in Seq(SweepType)
    BY EmptySeq
  <1> QED BY <1>1 DEF NothingRead, Reading, Waves

\* A stream is read record by record.
LEMMA ReadSteps ==
    ASSUME NEW stream \in Seq(Records)
    PROVE  \E g : Reads(g, stream)
  <1> DEFINE N == Len(stream)
             A == Reading
             base == NothingRead
             step == [x \in (1..N) \X A |-> ReadRecord(stream, x[2], x[1])]
             Step(g, n) == IF n = 0 THEN base ELSE ReadRecord(stream, g[n - 1], n)
             Solves(g) == g = [n \in 0..N |-> Step(g, n)]
  <1>1. N \in Nat /\ \A n \in 1..N : stream[n] \in Records
    BY LenProperties, ElementOfSeq
  <1>2. step \in [(1..N) \X A -> A]
    <2> SUFFICES ASSUME NEW x \in (1..N) \X A PROVE ReadRecord(stream, x[2], x[1]) \in A
      OBVIOUS
    <2>1. x[2] \in Reading /\ x[1] \in Nat /\ stream[x[1]] \in Records
      BY <1>1
    <2> QED BY <2>1, ReadType
  <1>3. base \in A
    BY NothingType
  <1>f. PICK f : Iterates(f, N, A, base, step)
    <2> HIDE DEF A, N, step, base
    <2> QED BY <1>1, <1>2, <1>3, Recursion
  <1> HIDE DEF base
  <1>4. f \in [0..N -> A] /\ f[0] = base /\ \A n \in 1..N : f[n] = step[<<n, f[n - 1]>>]
    BY <1>f DEF Iterates
  <1>5. ASSUME NEW n \in 1..N, NEW h, h[n - 1] \in A
        PROVE  step[<<n, h[n - 1]>>] = ReadRecord(stream, h[n - 1], n)
    <2>1. <<n, h[n - 1]>> \in (1..N) \X A
      <3> HIDE DEF A, N
      <3> QED BY <1>5
    <2>2. <<n, h[n - 1]>>[1] = n /\ <<n, h[n - 1]>>[2] = h[n - 1]
      OBVIOUS
    <2> HIDE DEF A, N
    <2> QED BY <2>1, <2>2
  <1>6. Solves(f)
    <2>1. ASSUME NEW n \in 0..N PROVE f[n] = Step(f, n)
      <3>1. CASE n = 0
        BY <1>4, <3>1
      <3>2. CASE n # 0
        <4>1. n \in 1..N /\ n - 1 \in 0..N
          BY <1>1, <3>2
        <4> HIDE DEF N, A, step
        <4>2. f[n] = ReadRecord(stream, f[n - 1], n)
          BY <1>4, <1>5, <4>1
        <4> QED BY <3>2, <4>2
      <3> QED BY <3>1, <3>2
    <2> HIDE DEF Step, A, N, step
    <2>2. f = [n \in 0..N |-> f[n]]
      BY <1>4
    <2> QED BY <2>1, <2>2
  <1>7. PICK g : g = CHOOSE h : Solves(h)
    OBVIOUS
  <1>8. Solves(g)
    <2> HIDE DEF Solves
    <2> QED BY <1>6, <1>7
  <1>9. \A n \in 0..N : g[n] = Step(g, n)
    <2> HIDE DEF Step, N
    <2> QED BY <1>8
  <1>10. g[0] = base /\ \A n \in 1..N : g[n] = ReadRecord(stream, g[n - 1], n)
    <2>1. 0 \in 0..N /\ \A n \in 1..N : n \in 0..N /\ n # 0
      BY <1>1
    <2>2. Step(g, 0) = base /\ \A n \in 1..N : Step(g, n) = ReadRecord(stream, g[n - 1], n)
      BY <1>1
    <2> HIDE DEF Step, N
    <2> QED BY <1>9, <2>1, <2>2
  <1>11. g \in [0..N -> Reading]
    <2> DEFINE Typed == {n \in Nat : n <= N => g[n] \in Reading}
    <2>1. 0 \in Typed
      BY <1>3, <1>10
    <2>2. ASSUME NEW n \in Nat, n \in Typed PROVE n + 1 \in Typed
      <3> SUFFICES ASSUME n + 1 <= N PROVE g[n + 1] \in Reading
        OBVIOUS
      <3>1. n + 1 \in 1..N /\ n + 1 \in Nat /\ (n + 1) - 1 = n /\ g[n] \in Reading
        BY <1>1, <2>2
      <3>2. g[n + 1] = ReadRecord(stream, g[n], n + 1) /\ stream[n + 1] \in Records
        BY <1>1, <1>10, <3>1
      <3> QED BY <3>1, <3>2, ReadType
    <2>3. Nat \subseteq Typed
      <3> HIDE DEF Typed
      <3> QED BY <2>1, <2>2, NumbersOneByOne
    <2>4. \A n \in 0..N : g[n] \in Reading
      BY <1>1, <2>3
    <2>5. g = [n \in 0..N |-> g[n]]
      <3>1. g = [n \in 0..N |-> Step(g, n)]
        BY <1>8
      <3> HIDE DEF Step, N
      <3> QED BY <3>1
    <2> HIDE DEF N
    <2> QED BY <2>4, <2>5
  <1>12. Sweeps(stream) = Close(g[N]).sweeps
    BY <1>7 DEF Sweeps, base
  <1> QED BY <1>10, <1>11, <1>12 DEF Reads, base

-----------------------------------------------------------------------------
(***************************************************************************)
(* A reading only grows, and one that finds whole sweeps is the same for   *)
(* every beginning of the stream.                                          *)
(***************************************************************************)
\* The first list is the beginning of the second.
GrowsInto(u, t) == Len(u) <= Len(t) /\ \A j \in 1..Len(u) : u[j] = t[j]

\* A list grows by what is appended.
LEMMA GrowsByOne ==
    ASSUME NEW E, NEW u \in Seq(E), NEW x \in E
    PROVE  GrowsInto(u, u) /\ GrowsInto(u, Append(u, x))
  BY AppendProperties, LenProperties DEF GrowsInto

\* A beginning of a beginning is one.
LEMMA GrowsOn ==
    ASSUME NEW E, NEW u \in Seq(E), NEW v \in Seq(E), NEW w \in Seq(E),
           GrowsInto(u, v), GrowsInto(v, w)
    PROVE  GrowsInto(u, w)
  <1>1. Len(u) \in Nat /\ Len(v) \in Nat /\ Len(w) \in Nat
    BY LenProperties
  <1>2. \A j \in 1..Len(u) : j \in 1..Len(v)
    BY <1>1 DEF GrowsInto
  <1> QED BY <1>1, <1>2 DEF GrowsInto

\* Sweeps are only added; one that is cut short stays cut short.
LEMMA PlainGrows ==
    ASSUME NEW acc \in Reading, NEW r \in Records, NEW i \in Nat
    PROVE  GrowsInto(acc.sweeps, Plain(acc, r, i).sweeps)
  <1>1. acc.sweeps \in Seq(SweepType)
    BY DEF Reading
  <1>2. Joined(acc, r, i) \in SweepType
    BY JoinedType
  <1>3. Plain(acc, r, i).sweeps = acc.sweeps
        \/ Plain(acc, r, i).sweeps = Append(acc.sweeps, Joined(acc, r, i))
    BY DEF Plain
  <1> QED BY <1>1, <1>2, <1>3, GrowsByOne

\* Closing adds the open sweep, which is not whole.
LEMMA CloseGrows ==
    ASSUME NEW acc \in Reading
    PROVE  /\ GrowsInto(acc.sweeps, Close(acc).sweeps)
           /\ acc.open # <<>> =>
                \E j \in 1..Len(Close(acc).sweeps) : ~Close(acc).sweeps[j].whole
  <1>1. acc.sweeps \in Seq(SweepType) /\ acc.open \in Seq(Nat) /\ acc.wave \in Waves
    BY DEF Reading
  <1>2. CASE acc.open = <<>>
    <2>1. Close(acc) = acc
      BY <1>2, CloseIs
    <2> QED BY <1>1, <1>2, <2>1 DEF GrowsInto
  <1>3. CASE acc.open # <<>>
    <2> DEFINE cut == [records |-> acc.open, wave |-> acc.wave, whole |-> FALSE]
    <2>1. cut \in SweepType /\ cut.whole = FALSE
      BY <1>1 DEF SweepType
    <2>2. Close(acc).sweeps = Append(acc.sweeps, cut)
      BY <1>3, CloseIs
    <2> HIDE DEF cut
    <2>3. /\ Len(Close(acc).sweeps) = Len(acc.sweeps) + 1 /\ Len(acc.sweeps) \in Nat
          /\ Close(acc).sweeps[Len(acc.sweeps) + 1] = cut
      BY <1>1, <2>1, <2>2, AppendProperties, LenProperties
    <2>4. Len(acc.sweeps) + 1 \in 1..Len(Close(acc).sweeps)
      BY <2>3
    <2>5. GrowsInto(acc.sweeps, Close(acc).sweeps)
      BY <1>1, <2>1, <2>2, GrowsByOne
    <2> QED BY <2>1, <2>3, <2>4, <2>5
  <1> QED BY <1>2, <1>3

\* Reading a record only adds sweeps; a start status closes the open one first.
LEMMA ReadGrows ==
    ASSUME NEW stream, NEW i \in Nat, NEW r \in Records, stream[i] = r, NEW acc \in Reading
    PROVE  /\ GrowsInto(acc.sweeps, ReadRecord(stream, acc, i).sweeps)
           /\ r.status = "start" =>
                GrowsInto(Close(acc).sweeps, ReadRecord(stream, acc, i).sweeps)
  <1> DEFINE before == IF r.status = "start" THEN Close(acc) ELSE acc
             next == Plain(before, r, i)
  <1>1. before \in Reading /\ GrowsInto(acc.sweeps, before.sweeps)
    <2>1. acc.sweeps \in Seq(SweepType)
      BY DEF Reading
    <2>2. GrowsInto(acc.sweeps, acc.sweeps)
      BY <2>1, LenProperties DEF GrowsInto
    <2> QED BY <2>2, CloseIs, CloseGrows
  <1>2. ReadRecord(stream, acc, i) = next
    BY ReadIs
  <1> HIDE DEF before
  <1>3. GrowsInto(before.sweeps, next.sweeps) /\ next \in Reading
    BY <1>1, PlainGrows, PlainType
  <1> HIDE DEF next
  <1>4. acc.sweeps \in Seq(SweepType) /\ before.sweeps \in Seq(SweepType) /\ next.sweeps \in Seq(SweepType)
    BY <1>1, <1>3 DEF Reading
  <1>5. GrowsInto(acc.sweeps, next.sweeps)
    BY <1>1, <1>3, <1>4, GrowsOn
  <1>6. r.status = "start" => Close(acc) = before
    BY DEF before
  <1> QED BY <1>2, <1>3, <1>5, <1>6

\* What has been read of a stream is the beginning of what it holds.
LEMMA ReadingGrows ==
    ASSUME NEW stream \in Seq(Records), NEW g, Reads(g, stream), NEW i \in 0..Len(stream)
    PROVE  GrowsInto(g[i].sweeps, Sweeps(stream))
  <1> DEFINE N == Len(stream)
             Grown == {k \in Nat : i + k <= N => GrowsInto(g[i].sweeps, g[i + k].sweeps)}
  <1>1. N \in Nat /\ \A k \in 1..N : stream[k] \in Records
    BY LenProperties, ElementOfSeq
  <1>2. \A k \in 0..N : g[k] \in Reading /\ g[k].sweeps \in Seq(SweepType)
    BY DEF Reads, Reading
  <1>3. 0 \in Grown
    <2>1. g[i].sweeps \in Seq(SweepType) /\ i + 0 = i
      BY <1>2
    <2> QED BY <2>1, LenProperties DEF GrowsInto
  <1>4. ASSUME NEW k \in Nat, k \in Grown PROVE k + 1 \in Grown
    <2> SUFFICES ASSUME i + (k + 1) <= N PROVE GrowsInto(g[i].sweeps, g[i + (k + 1)].sweeps)
      OBVIOUS
    <2> DEFINE m == i + k
    <2>1. m \in 0..N /\ m + 1 \in 1..N /\ (m + 1) - 1 = m /\ i + (k + 1) = m + 1 /\ m + 1 \in Nat
          /\ m + 1 \in 0..N
      BY <1>1
    <2>2. GrowsInto(g[i].sweeps, g[m].sweeps)
      BY <1>1, <1>4
    <2> HIDE DEF m, N
    <2>3. g[m + 1] = ReadRecord(stream, g[m], m + 1)
      BY <2>1 DEF Reads, N
    <2>4. g[m] \in Reading /\ stream[m + 1] \in Records
      BY <1>1, <1>2, <2>1
    <2>5. GrowsInto(g[m].sweeps, g[m + 1].sweeps)
      BY <2>1, <2>3, <2>4, ReadGrows
    <2>6. g[i].sweeps \in Seq(SweepType) /\ g[m].sweeps \in Seq(SweepType)
          /\ g[m + 1].sweeps \in Seq(SweepType)
      BY <1>2, <2>1 DEF N
    <2>7. GrowsInto(g[i].sweeps, g[m + 1].sweeps)
      BY <2>2, <2>5, <2>6, GrowsOn
    <2> QED BY <2>1, <2>7
  <1>5. Nat \subseteq Grown
    <2> HIDE DEF Grown
    <2> QED BY <1>3, <1>4, NumbersOneByOne
  <1>6. GrowsInto(g[i].sweeps, g[N].sweeps)
    <2>1. N - i \in Nat /\ i + (N - i) = N
      BY <1>1
    <2>2. N - i \in Grown
      BY <1>5, <2>1
    <2> QED BY <2>1, <2>2
  <1>7. /\ Sweeps(stream) = Close(g[N]).sweeps /\ g[N] \in Reading /\ g[i] \in Reading
        /\ GrowsInto(g[N].sweeps, Sweeps(stream))
    <2>1. N \in 0..N
      BY <1>1
    <2>2. g[N] \in Reading /\ g[i] \in Reading
      BY <1>2, <2>1
    <2> QED BY <2>2, CloseGrows DEF Reads
  <1>8. Sweeps(stream) \in Seq(SweepType)
    <2>1. Close(g[N]) \in Reading
      BY <1>7, CloseIs
    <2> QED BY <1>7, <2>1 DEF Reading
  <1>9. g[i].sweeps \in Seq(SweepType) /\ g[N].sweeps \in Seq(SweepType)
    BY <1>7 DEF Reading
  <1> QED BY <1>6, <1>7, <1>8, <1>9, GrowsOn

\* A stream whose sweeps are all whole: none was open when one began, nor at the end.
WholeReading(g, stream) ==
    /\ g \in [0..Len(stream) -> Reading]
    /\ g[0] = NothingRead
    /\ \A i \in 1..Len(stream) :
         /\ g[i] = Plain(g[i - 1], stream[i], i)
         /\ stream[i].status = "start" => g[i - 1].open = <<>>
    /\ g[Len(stream)].open = <<>>
    /\ Sweeps(stream) = g[Len(stream)].sweeps

\* When all sweeps are whole, a start status never finds one open, nor does the end.
LEMMA WholeIs ==
    ASSUME NEW stream \in Seq(Records),
           \A j \in DOMAIN Sweeps(stream) : Sweeps(stream)[j].whole
    PROVE  \E g : WholeReading(g, stream)
  <1> DEFINE N == Len(stream)
             all == Sweeps(stream)
  <1>1. N \in Nat /\ \A k \in 1..N : stream[k] \in Records
    BY LenProperties, ElementOfSeq
  <1>2. PICK g : Reads(g, stream)
    BY ReadSteps
  <1>3. /\ all = Close(g[N]).sweeps /\ g \in [0..N -> Reading] /\ g[0] = NothingRead
        /\ \A i \in 1..N : g[i] = ReadRecord(stream, g[i - 1], i)
    BY <1>2 DEF Reads
  <1>4. N \in 0..N /\ g[N] \in Reading /\ Close(g[N]) \in Reading
    BY <1>1, <1>3, CloseIs
  <1>5. all \in Seq(SweepType) /\ DOMAIN all = 1..Len(all) /\ Len(all) \in Nat
    <2>1. Close(g[N]).sweeps \in Seq(SweepType)
      BY <1>4 DEF Reading
    <2> HIDE DEF all
    <2> QED BY <1>3, <2>1, LenProperties
  <1> HIDE DEF all
  \* A sweep that was cut short would be there at the end.
  <1>6. ASSUME NEW t \in Seq(SweepType), GrowsInto(t, all) PROVE \A j \in 1..Len(t) : t[j].whole
    <2> SUFFICES ASSUME NEW j \in 1..Len(t) PROVE t[j].whole
      OBVIOUS
    <2>1. Len(t) \in Nat
      BY LenProperties
    <2>2. j \in DOMAIN all /\ all[j] = t[j]
      BY <1>5, <1>6, <2>1 DEF GrowsInto
    <2> QED BY <2>2 DEF all
  <1>7. ASSUME NEW acc \in Reading, GrowsInto(Close(acc).sweeps, all) PROVE acc.open = <<>>
    <2>1. Close(acc).sweeps \in Seq(SweepType)
      BY CloseIs DEF Reading
    <2>2. \A j \in 1..Len(Close(acc).sweeps) : Close(acc).sweeps[j].whole
      BY <1>6, <1>7, <2>1
    <2> QED BY <2>2, CloseGrows
  <1>8. g[N].open = <<>> /\ all = g[N].sweeps
    <2>1. GrowsInto(all, all)
      BY <1>5 DEF GrowsInto
    <2>2. g[N].open = <<>>
      BY <1>3, <1>4, <1>7, <2>1
    <2> QED BY <1>3, <1>4, <2>2, CloseIs
  <1>9. ASSUME NEW i \in 1..N
        PROVE  /\ stream[i].status = "start" => g[i - 1].open = <<>>
               /\ g[i] = Plain(g[i - 1], stream[i], i)
    <2>1. i \in 0..N /\ i - 1 \in 0..N /\ i \in Nat
      BY <1>1
    <2>2. g[i - 1] \in Reading /\ g[i] \in Reading /\ stream[i] \in Records
      BY <1>1, <1>3, <2>1
    <2>3. g[i] = ReadRecord(stream, g[i - 1], i)
      BY <1>3
    <2>4. ASSUME stream[i].status = "start" PROVE g[i - 1].open = <<>>
      <3>1. GrowsInto(Close(g[i - 1]).sweeps, g[i].sweeps)
        BY <2>1, <2>2, <2>3, <2>4, ReadGrows
      <3>2. GrowsInto(g[i].sweeps, all)
        BY <1>2, <2>1, ReadingGrows DEF all
      <3>3. Close(g[i - 1]).sweeps \in Seq(SweepType) /\ g[i].sweeps \in Seq(SweepType)
        BY <2>2, CloseIs DEF Reading
      <3>4. GrowsInto(Close(g[i - 1]).sweeps, all)
        BY <1>5, <3>1, <3>2, <3>3, GrowsOn
      <3> QED BY <1>7, <2>2, <3>4
    <2>5. (IF stream[i].status = "start" THEN Close(g[i - 1]) ELSE g[i - 1]) = g[i - 1]
      BY <2>2, <2>4, CloseIs
    <2>6. g[i] = Plain(g[i - 1], stream[i], i)
      <3>1. ReadRecord(stream, g[i - 1], i)
              = Plain(IF stream[i].status = "start" THEN Close(g[i - 1]) ELSE g[i - 1], stream[i], i)
        BY <2>1, <2>2, ReadIs
      <3> QED BY <2>3, <2>5, <3>1
    <2> QED BY <2>4, <2>6
  <1>10. WholeReading(g, stream)
    BY <1>3, <1>8, <1>9 DEF WholeReading, all
  <1> QED BY <1>10

\* A record read while nothing that it closes is open.
LEMMA ReadWhole ==
    ASSUME NEW stream, NEW i \in Nat, stream[i] \in Records, NEW acc \in Reading,
           stream[i].status = "start" => acc.open = <<>>
    PROVE  ReadRecord(stream, acc, i) = Plain(acc, stream[i], i)
  <1>1. (IF stream[i].status = "start" THEN Close(acc) ELSE acc) = acc
    BY CloseIs
  <1>2. ReadRecord(stream, acc, i)
          = Plain(IF stream[i].status = "start" THEN Close(acc) ELSE acc, stream[i], i)
    BY ReadIs
  <1> QED BY <1>1, <1>2

\* The first records are read as they are in the whole stream.
LEMMA PrefixReading ==
    ASSUME NEW stream \in Seq(Records), NEW g, WholeReading(g, stream), NEW n \in 0..Len(stream)
    PROVE  Sweeps(SubSeq(stream, 1, n)) = Close(g[n]).sweeps
  <1> DEFINE N == Len(stream)
             p == SubSeq(stream, 1, n)
  <1>1. N \in Nat /\ n \in Nat /\ \A k \in 1..N : stream[k] \in Records
    BY LenProperties, ElementOfSeq
  <1>2. p \in Seq(Records) /\ Len(p) = n /\ \A i \in 1..n : p[i] = stream[i]
    BY <1>1, SubSeqProperties
  <1>3. PICK h : Reads(h, p)
    BY <1>2, ReadSteps
  <1> HIDE DEF p
  <1> DEFINE Same == {i \in Nat : i <= n => h[i] = g[i]}
  <1>4. 0 \in Same
    BY <1>3 DEF Reads, WholeReading
  <1>5. ASSUME NEW i \in Nat, i \in Same PROVE i + 1 \in Same
    <2> SUFFICES ASSUME i + 1 <= n PROVE h[i + 1] = g[i + 1]
      OBVIOUS
    <2>1. i + 1 \in 1..n /\ i + 1 \in 1..N /\ (i + 1) - 1 = i /\ i \in 0..N /\ i + 1 \in Nat
      BY <1>1
    <2>2. h[i] = g[i]
      BY <1>5, <1>1
    <2>3. h[i + 1] = ReadRecord(p, h[i], i + 1)
      BY <1>2, <1>3, <2>1 DEF Reads
    <2>4. /\ g[i] \in Reading /\ g[i + 1] = Plain(g[i], stream[i + 1], i + 1)
          /\ stream[i + 1].status = "start" => g[i].open = <<>>
      BY <2>1 DEF WholeReading
    <2>5. p[i + 1] = stream[i + 1] /\ p[i + 1] \in Records
      BY <1>1, <1>2, <2>1
    <2>6. ReadRecord(p, g[i], i + 1) = Plain(g[i], p[i + 1], i + 1)
      BY <2>1, <2>4, <2>5, ReadWhole
    <2> QED BY <2>2, <2>3, <2>4, <2>5, <2>6
  <1>6. Nat \subseteq Same
    <2> HIDE DEF Same
    <2> QED BY <1>4, <1>5, NumbersOneByOne
  <1>7. h[n] = g[n]
    BY <1>1, <1>6
  <1> QED BY <1>2, <1>3, <1>7 DEF Reads, p

-----------------------------------------------------------------------------
(***************************************************************************)
(* Which records a reading holds: every one that is not low.               *)
(***************************************************************************)
\* The members of a list with one more, and the records of one more sweep.
LEMMA SetOfAppend ==
    ASSUME NEW E, NEW q \in Seq(E), NEW x \in E
    PROVE  ToSet(Append(q, x)) = ToSet(q) \cup {x}
  <1> DEFINE a == Append(q, x)
  <1>1. /\ Len(q) \in Nat /\ DOMAIN q = 1..Len(q) /\ DOMAIN a = 1..Len(q) + 1
        /\ \A j \in 1..Len(q) : a[j] = q[j]
        /\ a[Len(q) + 1] = x
    BY AppendProperties, LenProperties
  <1> HIDE DEF a
  <1>2. ASSUME NEW j \in 1..Len(q) + 1 PROVE j \in 1..Len(q) \/ j = Len(q) + 1
    BY <1>1
  <1>3. ASSUME NEW y \in ToSet(a) PROVE y \in ToSet(q) \cup {x}
    BY <1>1, <1>2 DEF ToSet
  <1>4. ASSUME NEW y \in ToSet(q) \cup {x} PROVE y \in ToSet(a)
    <2>1. CASE y = x
      <3>1. Len(q) + 1 \in DOMAIN a
        BY <1>1
      <3> QED BY <1>1, <2>1, <3>1 DEF ToSet
    <2>2. CASE y \in ToSet(q)
      <3>1. PICK j \in 1..Len(q) : q[j] = y
        BY <1>1, <2>2 DEF ToSet
      <3>2. j \in DOMAIN a
        BY <1>1
      <3> QED BY <1>1, <3>1, <3>2 DEF ToSet
    <2> QED BY <2>1, <2>2
  <1> QED BY <1>3, <1>4 DEF a

LEMMA SetOfNone == ToSet(<<>>) = {}
  BY DEF ToSet

\* The records of one sweep more.
LEMMA RecordsOfOneMore ==
    /\ RecordsOf({}) = {}
    /\ \A S, x : RecordsOf(S \cup {x}) = RecordsOf(S) \cup ToSet(x.records)
  BY DEF RecordsOf, ToSet

\* The records that have been read into sweeps, and into the one that is open.
RecordsIn(acc) == RecordsOf(ToSet(acc.sweeps)) \cup ToSet(acc.open)

\* A record that is not low is kept.
LEMMA PlainRecords ==
    ASSUME NEW acc \in Reading, NEW r \in Records, NEW i \in Nat
    PROVE  RecordsIn(Plain(acc, r, i)) = RecordsIn(acc) \cup (IF r.low THEN {} ELSE {i})
  <1> DEFINE j == Joined(acc, r, i)
             next == Plain(acc, r, i)
  <1>1. acc.sweeps \in Seq(SweepType) /\ acc.open \in Seq(Nat)
    BY DEF Reading
  <1>2. j \in SweepType /\ j.records = Append(acc.open, i)
    <2>1. j \in SweepType
      BY JoinedType
    <2> QED BY <2>1 DEF Joined
  <1>3. ToSet(j.records) = ToSet(acc.open) \cup {i}
    BY <1>1, <1>2, SetOfAppend
  <1> HIDE DEF j
  <1>4. CASE r.low
    BY <1>4 DEF Plain
  <1>5. CASE ~r.low /\ r.status # "end"
    <2>1. next.sweeps = acc.sweeps /\ next.open = j.records
      BY <1>5 DEF Plain, j
    <2> HIDE DEF next
    <2>2. RecordsIn(next) = RecordsOf(ToSet(acc.sweeps)) \cup (ToSet(acc.open) \cup {i})
      BY <1>3, <2>1 DEF RecordsIn
    <2> QED BY <1>5, <2>2 DEF RecordsIn, next
  <1>6. CASE ~r.low /\ r.status = "end"
    <2>1. next.sweeps = Append(acc.sweeps, j) /\ next.open = <<>>
      BY <1>6 DEF Plain, j
    <2>2. ToSet(Append(acc.sweeps, j)) = ToSet(acc.sweeps) \cup {j}
      BY <1>1, <1>2, SetOfAppend
    <2>3. RecordsOf(ToSet(acc.sweeps) \cup {j}) = RecordsOf(ToSet(acc.sweeps)) \cup ToSet(j.records)
      BY RecordsOfOneMore
    <2> HIDE DEF next
    <2>4. RecordsIn(next) = (RecordsOf(ToSet(acc.sweeps)) \cup (ToSet(acc.open) \cup {i})) \cup {}
      BY <1>3, <2>1, <2>2, <2>3, SetOfNone DEF RecordsIn
    <2> QED BY <1>6, <2>4 DEF RecordsIn, next
  <1> QED BY <1>4, <1>5, <1>6

\* Closing keeps the records.
LEMMA CloseRecords ==
    ASSUME NEW acc \in Reading
    PROVE  RecordsOf(ToSet(Close(acc).sweeps)) = RecordsIn(acc)
  <1>1. acc.sweeps \in Seq(SweepType) /\ acc.open \in Seq(Nat) /\ acc.wave \in Waves
    BY DEF Reading
  <1>2. CASE acc.open = <<>>
    BY <1>2, CloseIs, SetOfNone DEF RecordsIn
  <1>3. CASE acc.open # <<>>
    <2> DEFINE cut == [records |-> acc.open, wave |-> acc.wave, whole |-> FALSE]
    <2>1. cut \in SweepType /\ cut.records = acc.open
      BY <1>1 DEF SweepType
    <2>2. Close(acc).sweeps = Append(acc.sweeps, cut)
      BY <1>3, CloseIs
    <2> HIDE DEF cut
    <2>3. ToSet(Close(acc).sweeps) = ToSet(acc.sweeps) \cup {cut}
      BY <1>1, <2>1, <2>2, SetOfAppend
    <2> QED BY <2>1, <2>3, RecordsOfOneMore DEF RecordsIn
  <1> QED BY <1>2, <1>3

\* Every record that is not low is read once, and no other.
LEMMA RecordsRead ==
    ASSUME NEW stream \in Seq(Records), NEW g, WholeReading(g, stream), NEW n \in 0..Len(stream)
    PROVE  RecordsIn(g[n]) = {k \in 1..n : ~stream[k].low}
  <1> DEFINE N == Len(stream)
             Right == {i \in Nat : i <= N => RecordsIn(g[i]) = {k \in 1..i : ~stream[k].low}}
  <1>1. N \in Nat /\ \A k \in 1..N : stream[k] \in Records
    BY LenProperties, ElementOfSeq
  <1>2. 0 \in Right
    <2>1. g[0].sweeps = <<>> /\ g[0].open = <<>>
      BY DEF WholeReading, NothingRead
    <2>2. RecordsIn(g[0]) = {}
      BY <2>1, SetOfNone, RecordsOfOneMore DEF RecordsIn
    <2> QED BY <2>2
  <1>3. ASSUME NEW i \in Nat, i \in Right PROVE i + 1 \in Right
    <2> SUFFICES ASSUME i + 1 <= N
                 PROVE  RecordsIn(g[i + 1]) = {k \in 1..i + 1 : ~stream[k].low}
      OBVIOUS
    <2>1. i + 1 \in 1..N /\ i \in 0..N /\ (i + 1) - 1 = i /\ i + 1 \in Nat
      BY <1>1
    <2>2. RecordsIn(g[i]) = {k \in 1..i : ~stream[k].low}
      BY <1>1, <1>3
    <2>3. g[i] \in Reading /\ g[i + 1] = Plain(g[i], stream[i + 1], i + 1) /\ stream[i + 1] \in Records
      BY <1>1, <2>1 DEF WholeReading
    <2>4. RecordsIn(g[i + 1])
            = RecordsIn(g[i]) \cup (IF stream[i + 1].low THEN {} ELSE {i + 1})
      BY <2>1, <2>3, PlainRecords
    <2>5. {k \in 1..i + 1 : ~stream[k].low}
            = {k \in 1..i : ~stream[k].low} \cup (IF stream[i + 1].low THEN {} ELSE {i + 1})
      <3>1. \A k \in 1..i + 1 : k \in 1..i \/ k = i + 1
        OBVIOUS
      <3>2. \A k \in 1..i : k \in 1..i + 1
        OBVIOUS
      <3>3. i + 1 \in 1..i + 1
        OBVIOUS
      <3> QED BY <3>1, <3>2, <3>3
    <2> QED BY <2>2, <2>4, <2>5
  <1>4. Nat \subseteq Right
    <2> HIDE DEF Right
    <2> QED BY <1>2, <1>3, NumbersOneByOne
  <1> QED BY <1>1, <1>4

\* What a whole stream holds so far is the beginning of what it holds.
LEMMA WholeGrows ==
    ASSUME NEW stream \in Seq(Records), NEW g, WholeReading(g, stream),
           NEW n \in 0..Len(stream), NEW e \in 0..n
    PROVE  GrowsInto(g[e].sweeps, g[n].sweeps)
  <1> DEFINE N == Len(stream)
             Grown == {k \in Nat : e + k <= n => GrowsInto(g[e].sweeps, g[e + k].sweeps)}
  <1>1. N \in Nat /\ n \in Nat /\ e \in Nat /\ \A k \in 1..N : stream[k] \in Records
    BY LenProperties, ElementOfSeq
  <1>2. \A k \in 0..N : g[k] \in Reading /\ g[k].sweeps \in Seq(SweepType)
    BY DEF WholeReading, Reading
  <1>3. 0 \in Grown
    <2>1. g[e].sweeps \in Seq(SweepType) /\ e + 0 = e
      BY <1>1, <1>2
    <2> QED BY <2>1, LenProperties DEF GrowsInto
  <1>4. ASSUME NEW k \in Nat, k \in Grown PROVE k + 1 \in Grown
    <2> SUFFICES ASSUME e + (k + 1) <= n PROVE GrowsInto(g[e].sweeps, g[e + (k + 1)].sweeps)
      OBVIOUS
    <2> DEFINE m == e + k
    <2>1. m \in 0..N /\ m + 1 \in 1..N /\ (m + 1) - 1 = m /\ e + (k + 1) = m + 1 /\ m + 1 \in Nat
          /\ m + 1 \in 0..N /\ e \in 0..N
      BY <1>1
    <2>2. GrowsInto(g[e].sweeps, g[m].sweeps)
      BY <1>1, <1>4
    <2> HIDE DEF m
    <2>3. g[m + 1] = Plain(g[m], stream[m + 1], m + 1)
      BY <2>1 DEF WholeReading
    <2>4. g[m] \in Reading /\ stream[m + 1] \in Records
      BY <1>1, <1>2, <2>1
    <2>5. GrowsInto(g[m].sweeps, g[m + 1].sweeps)
      BY <2>1, <2>3, <2>4, PlainGrows
    <2>6. g[e].sweeps \in Seq(SweepType) /\ g[m].sweeps \in Seq(SweepType)
          /\ g[m + 1].sweeps \in Seq(SweepType)
      BY <1>2, <2>1
    <2>7. GrowsInto(g[e].sweeps, g[m + 1].sweeps)
      BY <2>2, <2>5, <2>6, GrowsOn
    <2> QED BY <2>1, <2>7
  <1>5. Nat \subseteq Grown
    <2> HIDE DEF Grown
    <2> QED BY <1>3, <1>4, NumbersOneByOne
  <1>6. n - e \in Nat /\ e + (n - e) = n
    BY <1>1
  <1>7. n - e \in Grown
    BY <1>5, <1>6
  <1> QED BY <1>6, <1>7

\* Each number of sweeps was once all there was, with nothing open.
LEMMA StopsAt ==
    ASSUME NEW stream \in Seq(Records), NEW g, WholeReading(g, stream), NEW n \in 0..Len(stream),
           NEW d \in 0..Len(g[n].sweeps)
    PROVE  \E e \in 0..n : Len(g[e].sweeps) = d /\ g[e].open = <<>>
  <1> DEFINE N == Len(stream)
             Stops(i) == \A c \in 0..Len(g[i].sweeps) :
                           \E e \in 0..i : Len(g[e].sweeps) = c /\ g[e].open = <<>>
             Right == {i \in Nat : i <= N => Stops(i)}
  <1>1. N \in Nat /\ \A k \in 1..N : stream[k] \in Records
    BY LenProperties, ElementOfSeq
  <1>2. 0 \in Right
    <2>1. g[0].sweeps = <<>> /\ g[0].open = <<>> /\ Len(<<>>) = 0
      BY DEF WholeReading, NothingRead
    <2>2. \A c \in 0..Len(g[0].sweeps) : c = 0
      BY <2>1
    <2>3. 0 \in 0..0
      OBVIOUS
    <2> QED BY <2>1, <2>2, <2>3
  <1>3. ASSUME NEW i \in Nat, i \in Right PROVE i + 1 \in Right
    <2> SUFFICES ASSUME i + 1 <= N PROVE Stops(i + 1)
      OBVIOUS
    <2>1. i + 1 \in 1..N /\ i \in 0..N /\ (i + 1) - 1 = i /\ i + 1 \in Nat /\ Stops(i)
      BY <1>1, <1>3
    <2> DEFINE acc == g[i]
               r == stream[i + 1]
               next == g[i + 1]
               j == Joined(acc, r, i + 1)
    <2>2. acc \in Reading /\ next = Plain(acc, r, i + 1) /\ r \in Records
      BY <1>1, <2>1 DEF WholeReading
    <2>3. acc.sweeps \in Seq(SweepType) /\ Len(acc.sweeps) \in Nat /\ j \in SweepType
      <3>1. acc.sweeps \in Seq(SweepType)
        BY <2>2 DEF Reading
      <3>2. j \in SweepType
        BY <2>1, <2>2, JoinedType
      <3> HIDE DEF j, acc
      <3> QED BY <3>1, <3>2, LenProperties
    <2> HIDE DEF j, r, next
    <2>4. \/ next.sweeps = acc.sweeps
          \/ next.sweeps = Append(acc.sweeps, j) /\ next.open = <<>>
      BY <2>2 DEF Plain, j
    <2> SUFFICES ASSUME NEW c \in 0..Len(next.sweeps)
                 PROVE  \E e \in 0..i + 1 : Len(g[e].sweeps) = c /\ g[e].open = <<>>
      BY DEF next
    <2>5. CASE c \in 0..Len(acc.sweeps)
      <3>1. PICK e \in 0..i : Len(g[e].sweeps) = c /\ g[e].open = <<>>
        BY <2>1, <2>5
      <3>2. e \in 0..i + 1
        OBVIOUS
      <3> QED BY <3>1, <3>2
    <2>6. CASE c \notin 0..Len(acc.sweeps)
      <3>1. next.sweeps = Append(acc.sweeps, j) /\ next.open = <<>>
        BY <2>4, <2>6
      <3>2. Len(next.sweeps) = Len(acc.sweeps) + 1
        BY <2>3, <3>1, AppendProperties
      <3>3. c = Len(next.sweeps)
        BY <2>3, <2>6, <3>2
      <3>4. i + 1 \in 0..i + 1
        OBVIOUS
      <3> QED BY <3>1, <3>3, <3>4 DEF next
    <2> QED BY <2>5, <2>6
  <1>4. Nat \subseteq Right
    <2> HIDE DEF Right
    <2> QED BY <1>2, <1>3, NumbersOneByOne
  <1>5. Stops(n)
    <2> HIDE DEF Stops
    <2> QED BY <1>1, <1>4
  <1> QED BY <1>5

-----------------------------------------------------------------------------
(***************************************************************************)
(* Reading a stream from where nothing is open, some low records left out: *)
(* kept has the numbers of the records that are read.                      *)
(***************************************************************************)
Mapped(kept, q) == [j \in 1..Len(q) |-> kept[q[j]]]

\* The same sweep, by the numbers the records have in the stream.
Image(x, y, kept) ==
    y.records = Mapped(kept, x.records) /\ y.wave = x.wave /\ y.whole = x.whole

\* The list all is that of the first d sweeps and the images of u.
Resumes(u, all, d, kept) ==
    /\ Len(all) = d + Len(u)
    /\ \A j \in 1..Len(u) : Image(u[j], all[d + j], kept)

\* The reading b of the rest agrees with the reading a of the whole.
Follows(b, a, d, kept) ==
    /\ Resumes(b.sweeps, a.sweeps, d, kept)
    /\ a.open = Mapped(kept, b.open)
    /\ b.open # <<>> => a.wave = b.wave

\* One record more, by its number at first.
LEMMA MappedAppend ==
    ASSUME NEW kept, NEW q \in Seq(Nat), NEW x \in Nat
    PROVE  /\ Mapped(kept, Append(q, x)) = Append(Mapped(kept, q), kept[x])
           /\ Mapped(kept, q) = <<>> <=> q = <<>>
  <1> DEFINE E == {kept[y] : y \in Nat}
             a == Append(q, x)
             m == Mapped(kept, q)
             n == Len(q)
  <1>1. /\ n \in Nat /\ DOMAIN q = 1..n /\ Len(a) = n + 1 /\ a[n + 1] = x
        /\ \A j \in 1..n : a[j] = q[j] /\ q[j] \in Nat
    BY AppendProperties, LenProperties, ElementOfSeq
  <1>2. m \in Seq(E) /\ Len(m) = n /\ kept[x] \in E /\ \A j \in 1..n : m[j] = kept[q[j]]
    <2>1. \A j \in 1..n : kept[q[j]] \in E
      BY <1>1
    <2>2. m = [j \in 1..n |-> kept[q[j]]]
      BY DEF Mapped
    <2>3. m \in [1..n -> E]
      <3> HIDE DEF E, n, m
      <3> QED BY <2>1, <2>2
    <2> HIDE DEF E, n, m
    <2>4. m \in Seq(E) /\ Len(m) = n
      BY <1>1, <2>3
    <2>5. kept[x] \in E
      BY DEF E
    <2> QED BY <2>2, <2>4, <2>5
  <1> HIDE DEF a, m, n, E
  <1>3. Mapped(kept, a) = [j \in 1..n + 1 |-> kept[a[j]]]
    BY <1>1 DEF Mapped
  <1>4. /\ Append(m, kept[x]) \in Seq(E) /\ Len(Append(m, kept[x])) = n + 1
        /\ Append(m, kept[x])[n + 1] = kept[x]
        /\ \A j \in 1..n : Append(m, kept[x])[j] = m[j]
    BY <1>2, AppendProperties
  <1>5. Append(m, kept[x]) = [j \in 1..n + 1 |-> Append(m, kept[x])[j]]
    BY <1>4, LenProperties
  <1>6. ASSUME NEW j \in 1..n + 1 PROVE Append(m, kept[x])[j] = kept[a[j]]
    <2>1. CASE j = n + 1
      BY <1>1, <1>4, <2>1
    <2>2. CASE j # n + 1
      <3>1. j \in 1..n
        BY <1>1, <2>2
      <3> QED BY <1>1, <1>2, <1>4, <3>1
    <2> QED BY <2>1, <2>2
  <1>7. Mapped(kept, a) = Append(m, kept[x])
    BY <1>3, <1>5, <1>6
  <1>8. m = <<>> <=> q = <<>>
    <2>1. (m = <<>> <=> Len(m) = 0) /\ (q = <<>> <=> n = 0)
      BY <1>2, EmptySeq DEF n
    <2> QED BY <1>2, <2>1
  <1> QED BY <1>7, <1>8 DEF a, m

LEMMA MappedNone ==
    ASSUME NEW kept, NEW q \in Seq(Nat)
    PROVE  Mapped(kept, q) = <<>> <=> q = <<>>
  <1>1. 0 \in Nat
    OBVIOUS
  <1> QED BY <1>1, MappedAppend

\* The next record is read the same way.
LEMMA PlainFollows ==
    ASSUME NEW a \in Reading, NEW b \in Reading, NEW r \in Records,
           NEW i \in Nat, NEW k \in Nat, NEW kept, kept[k] = i, NEW d \in Nat,
           Follows(b, a, d, kept)
    PROVE  Follows(Plain(b, r, k), Plain(a, r, i), d, kept)
  <1> DEFINE ja == Joined(a, r, i)
             jb == Joined(b, r, k)
             na == Plain(a, r, i)
             nb == Plain(b, r, k)
  <1>1. /\ a.sweeps \in Seq(SweepType) /\ b.sweeps \in Seq(SweepType)
        /\ a.open \in Seq(Nat) /\ b.open \in Seq(Nat)
    BY DEF Reading
  <1>2. ja \in SweepType /\ jb \in SweepType
    BY JoinedType
  <1>3. Image(jb, ja, kept)
    <2>1. a.open = Mapped(kept, b.open) /\ (b.open # <<>> => a.wave = b.wave)
      BY DEF Follows
    <2>2. Mapped(kept, Append(b.open, k)) = Append(a.open, i)
      BY <1>1, <2>1, MappedAppend
    <2>3. a.open = <<>> <=> b.open = <<>>
      BY <1>1, <2>1, MappedAppend
    <2>4. ja.records = Append(a.open, i) /\ jb.records = Append(b.open, k)
      BY DEF Joined
    <2>5. ja.wave = (IF a.open = <<>> THEN r.wave ELSE a.wave)
          /\ jb.wave = (IF b.open = <<>> THEN r.wave ELSE b.wave)
      BY DEF Joined
    <2>6. ja.whole = TRUE /\ jb.whole = TRUE
      BY DEF Joined
    <2> HIDE DEF ja, jb
    <2>7. ja.wave = jb.wave
      BY <2>1, <2>3, <2>5
    <2> QED BY <2>2, <2>4, <2>6, <2>7 DEF Image
  <1>4. Resumes(b.sweeps, a.sweeps, d, kept)
    BY DEF Follows
  <1> HIDE DEF ja, jb
  <1>5. CASE r.low
    BY <1>5 DEF Plain
  <1>6. CASE ~r.low /\ r.status # "end"
    <2>1. /\ na.sweeps = a.sweeps /\ na.open = ja.records /\ na.wave = ja.wave
          /\ nb.sweeps = b.sweeps /\ nb.open = jb.records /\ nb.wave = jb.wave
      BY <1>6 DEF Plain, ja, jb
    <2> HIDE DEF na, nb
    <2>2. Follows(nb, na, d, kept)
      BY <1>3, <1>4, <2>1 DEF Follows, Image
    <2> QED BY <2>2 DEF na, nb
  <1>7. CASE ~r.low /\ r.status = "end"
    <2>1. /\ na.sweeps = Append(a.sweeps, ja) /\ na.open = <<>>
          /\ nb.sweeps = Append(b.sweeps, jb) /\ nb.open = <<>>
      BY <1>7 DEF Plain, ja, jb
    <2> HIDE DEF na, nb
    <2>2. na.open = Mapped(kept, nb.open)
      <3>1. <<>> \in Seq(Nat)
        BY EmptySeq
      <3>2. Mapped(kept, <<>>) = <<>>
        BY <3>1, MappedAppend
      <3> QED BY <2>1, <3>2
    <2>3. /\ Len(a.sweeps) \in Nat /\ Len(b.sweeps) \in Nat
          /\ Len(na.sweeps) = Len(a.sweeps) + 1 /\ Len(nb.sweeps) = Len(b.sweeps) + 1
          /\ na.sweeps[Len(a.sweeps) + 1] = ja /\ nb.sweeps[Len(b.sweeps) + 1] = jb
          /\ \A j \in 1..Len(a.sweeps) : na.sweeps[j] = a.sweeps[j]
          /\ \A j \in 1..Len(b.sweeps) : nb.sweeps[j] = b.sweeps[j]
      BY <1>1, <1>2, <2>1, AppendProperties, LenProperties
    <2>4. Len(a.sweeps) = d + Len(b.sweeps)
      BY <1>4 DEF Resumes
    <2>5. ASSUME NEW j \in 1..Len(nb.sweeps)
          PROVE  Image(nb.sweeps[j], na.sweeps[d + j], kept)
      <3>1. CASE j = Len(b.sweeps) + 1
        <4>1. d + j = Len(a.sweeps) + 1
          BY <2>3, <2>4, <3>1
        <4> QED BY <1>3, <2>3, <3>1, <4>1
      <3>2. CASE j # Len(b.sweeps) + 1
        <4>1. j \in 1..Len(b.sweeps) /\ d + j \in 1..Len(a.sweeps)
          BY <2>3, <2>4, <3>2
        <4>2. Image(b.sweeps[j], a.sweeps[d + j], kept)
          BY <1>4, <4>1 DEF Resumes
        <4> QED BY <2>3, <4>1, <4>2
      <3> QED BY <3>1, <3>2
    <2>6. Resumes(nb.sweeps, na.sweeps, d, kept)
      BY <2>3, <2>4, <2>5 DEF Resumes
    <2>7. Follows(nb, na, d, kept)
      BY <2>1, <2>2, <2>6 DEF Follows
    <2> QED BY <2>7 DEF na, nb
  <1> QED BY <1>5, <1>6, <1>7

\* What is left of a stream when its first e records are gone, but not the new ones.
Remains(records, stream, n, e) ==
    records = {i \in (e + 1)..Len(stream) : i > n \/ ~stream[i].low}

\* The list t holds the records of a stream at the places kept, K in number.
Trims(t, stream, kept, records, K) ==
    /\ K \in Nat /\ kept \in Seq(records) /\ Len(kept) = K
    /\ \A x \in records : \E j \in 1..K : kept[j] = x
    /\ \A i, j \in 1..K : i < j => kept[i] < kept[j]
    /\ t = [k \in DOMAIN kept |-> stream[kept[k]]]

\* The rest of a whole stream, from a point where nothing is open and without some
\* of the low records, holds the rest of its sweeps.
LEMMA RestIsRead ==
    ASSUME NEW stream \in Seq(Records), NEW g, WholeReading(g, stream),
           NEW e \in 0..Len(stream), g[e].open = <<>>, NEW n \in e..Len(stream),
           NEW records, Remains(records, stream, n, e),
           NEW kept, NEW K, NEW t, Trims(t, stream, kept, records, K)
    PROVE  Resumes(Sweeps(t), Sweeps(stream), Len(g[e].sweeps), kept)
  <1> DEFINE N == Len(stream)
             d == Len(g[e].sweeps)
  <1> USE DEF Remains, Trims
  <1>1. N \in Nat /\ e \in Nat /\ n \in Nat /\ \A i \in 1..N : stream[i] \in Records
    BY LenProperties, ElementOfSeq
  <1>2. \A i \in 0..N : g[i] \in Reading /\ g[i].sweeps \in Seq(SweepType)
    BY DEF WholeReading, Reading
  <1>3. d \in Nat
    BY <1>2, LenProperties
  <1>4. DOMAIN kept = 1..K /\ \A j \in 1..K : kept[j] \in records /\ kept[j] \in (e + 1)..N /\ kept[j] \in 1..N
    <2>1. DOMAIN kept = 1..K /\ \A j \in 1..K : kept[j] \in records
      BY LenProperties, ElementOfSeq
    <2>2. \A x \in records : x \in (e + 1)..N /\ x \in 1..N
      BY <1>1
    <2> QED BY <2>1, <2>2
  <1>5. t \in Seq(Records) /\ Len(t) = K /\ \A k \in 1..K : t[k] = stream[kept[k]] /\ t[k] \in Records
    <2>1. t = [k \in 1..K |-> stream[kept[k]]]
      BY <1>4
    <2>2. \A k \in 1..K : stream[kept[k]] \in Records
      BY <1>1, <1>4
    <2>3. t \in [1..K -> Records]
      BY <2>1, <2>2
    <2> QED BY <2>1, <2>2, <2>3
  <1>6. PICK b : Reads(b, t)
    BY <1>5, ReadSteps
  <1>7. /\ b \in [0..K -> Reading] /\ b[0] = NothingRead
        /\ \A k \in 1..K : b[k] = ReadRecord(t, b[k - 1], k)
        /\ Sweeps(t) = Close(b[K]).sweeps
    BY <1>5, <1>6 DEF Reads
  <1> HIDE DEF d, N
  <1> DEFINE At(i, k) ==
               /\ \A j \in 1..K : kept[j] <= i <=> j <= k
               /\ Follows(b[k], g[i], d, kept)
             Right == {i \in Nat : e + i <= N => \E k \in 0..K : At(e + i, k)}
  <1>8. 0 \in Right
    <2>1. \A j \in 1..K : ~(kept[j] <= e + 0) /\ ~(j <= 0)
      BY <1>1, <1>4
    <2>2. Follows(b[0], g[e + 0], d, kept)
      <3>1. b[0].sweeps = <<>> /\ b[0].open = <<>> /\ Len(<<>>) = 0
        BY <1>7 DEF NothingRead
      <3>2. Mapped(kept, <<>>) = <<>>
        <4>1. <<>> \in Seq(Nat) /\ 0 \in Nat
          BY EmptySeq
        <4> QED BY <4>1, MappedAppend
      <3>3. Resumes(b[0].sweeps, g[e].sweeps, d, kept)
        BY <1>3, <3>1 DEF Resumes, d
      <3>4. e + 0 = e
        BY <1>1
      <3> QED BY <3>1, <3>2, <3>3, <3>4 DEF Follows
    <2>3. 0 \in 0..K
      OBVIOUS
    <2>4. At(e + 0, 0)
      BY <2>1, <2>2
    <2> HIDE DEF At
    <2> QED BY <2>3, <2>4
  <1>9. ASSUME NEW i \in Nat, i \in Right PROVE i + 1 \in Right
    <2> SUFFICES ASSUME e + (i + 1) <= N PROVE \E k \in 0..K : At(e + (i + 1), k)
      <3> HIDE DEF At
      <3>1. i + 1 \in Nat
        OBVIOUS
      <3> QED BY <3>1
    <2> DEFINE m == e + i
    <2>1. m \in Nat /\ m \in 0..N /\ m + 1 \in 1..N /\ (m + 1) - 1 = m /\ e + (i + 1) = m + 1
          /\ m + 1 \in Nat /\ m + 1 \in (e + 1)..N
      BY <1>1
    <2>2. PICK k \in 0..K : At(m, k)
      <3>1. e + i <= N
        BY <1>1, <2>1
      <3> QED BY <1>9, <3>1
    <2> HIDE DEF m
    <2>3. \A j \in 1..K : kept[j] <= m <=> j <= k
      BY <2>2
    <2>4. Follows(b[k], g[m], d, kept)
      BY <2>2
    <2>5. /\ g[m] \in Reading /\ g[m + 1] = Plain(g[m], stream[m + 1], m + 1)
          /\ stream[m + 1] \in Records
          /\ stream[m + 1].status = "start" => g[m].open = <<>>
      BY <1>1, <1>2, <2>1 DEF WholeReading, N
    <2>6. CASE m + 1 \in records
      <3>1. PICK j \in 1..K : kept[j] = m + 1
        BY <2>6
      <3>2. ~(j <= k)
        <4>1. kept[j] <= m <=> j <= k
          BY <2>3
        <4>2. ~(m + 1 <= m)
          BY <2>1
        <4> QED BY <3>1, <4>1, <4>2
      <3>3. k + 1 \in 1..K /\ k \in 0..K /\ (k + 1) - 1 = k /\ k + 1 \in 0..K /\ k + 1 \in Nat
        BY <3>2
      <3>4. j = k + 1
        <4>1. CASE k + 1 < j
          <5>1. kept[k + 1] < m + 1 /\ ~(kept[k + 1] <= m) /\ kept[k + 1] \in Int
            BY <1>4, <2>3, <3>1, <3>3, <4>1
          <5> QED BY <2>1, <5>1
        <4> QED BY <3>2, <4>1
      <3>5. kept[k + 1] = m + 1 /\ t[k + 1] = stream[m + 1]
        BY <1>5, <3>1, <3>3, <3>4
      <3>6. ASSUME NEW l \in 1..K PROVE kept[l] <= m + 1 <=> l <= k + 1
        <4>1. kept[l] \in Int /\ (kept[l] <= m <=> l <= k)
          BY <1>4, <2>3
        <4>2. k + 1 < l => kept[k + 1] < kept[l]
          BY <3>3
        <4>3. l = k + 1 => kept[l] = m + 1
          BY <3>5
        <4> QED BY <2>1, <3>3, <3>5, <4>1, <4>2, <4>3
      <3>7. b[k] \in Reading /\ b[k + 1] = ReadRecord(t, b[k], k + 1)
        BY <1>7, <3>3
      <3>8. b[k].open = <<>> <=> g[m].open = <<>>
        <4>1. b[k].open \in Seq(Nat)
          BY <3>7 DEF Reading
        <4>2. g[m].open = Mapped(kept, b[k].open)
          BY <2>4 DEF Follows
        <4>3. Mapped(kept, b[k].open) = <<>> <=> b[k].open = <<>>
          <5>1. PICK q \in Seq(Nat) : q = b[k].open
            BY <4>1
          <5>2. Mapped(kept, q) = <<>> <=> q = <<>>
            BY MappedNone
          <5> QED BY <5>1, <5>2
        <4> QED BY <4>2, <4>3
      <3>9. b[k + 1] = Plain(b[k], stream[m + 1], k + 1)
        <4>1. PICK q \in Nat : q = k + 1
          BY <3>3
        <4>2. t[q] \in Records /\ b[k] \in Reading
          BY <2>5, <3>5, <3>7, <4>1
        <4>3. t[q].status = "start" => b[k].open = <<>>
          BY <2>5, <3>5, <3>8, <4>1
        <4>4. ReadRecord(t, b[k], q) = Plain(b[k], t[q], q)
          BY <4>2, <4>3, ReadWhole
        <4> QED BY <3>5, <3>7, <4>1, <4>4
      <3>10. Follows(b[k + 1], g[m + 1], d, kept)
        <4>1. PICK p \in Nat, q \in Nat : p = m + 1 /\ q = k + 1
          BY <2>1, <3>3
        <4>2. kept[q] = p
          BY <3>5, <4>1
        <4>3. Follows(Plain(b[k], stream[m + 1], q), Plain(g[m], stream[m + 1], p), d, kept)
          BY <1>3, <2>4, <2>5, <3>7, <4>2, PlainFollows
        <4> QED BY <2>5, <3>9, <4>1, <4>3
      <3>11. At(m + 1, k + 1)
        BY <3>6, <3>10
      <3> HIDE DEF At
      <3> QED BY <2>1, <3>3, <3>11
    <2>7. CASE m + 1 \notin records
      <3>1. stream[m + 1].low
        BY <2>1, <2>7 DEF N
      <3>2. g[m + 1] = g[m]
        BY <2>5, <3>1 DEF Plain
      <3>3. ASSUME NEW j \in 1..K PROVE kept[j] <= m + 1 <=> j <= k
        <4>1. kept[j] # m + 1 /\ kept[j] \in Int /\ (kept[j] <= m <=> j <= k)
          BY <1>4, <2>3, <2>7
        <4> QED BY <2>1, <4>1
      <3>4. At(m + 1, k)
        BY <2>4, <3>2, <3>3
      <3> HIDE DEF At
      <3> QED BY <2>1, <3>4
    <2> QED BY <2>6, <2>7
  <1>10. Nat \subseteq Right
    <2> HIDE DEF Right
    <2> QED BY <1>8, <1>9, NumbersOneByOne
  <1>11. PICK k \in 0..K : At(N, k)
    <2>1. N - e \in Nat /\ e + (N - e) = N
      BY <1>1 DEF N
    <2>2. N - e \in Right
      BY <1>10, <2>1
    <2> HIDE DEF At
    <2> QED BY <1>1, <2>1, <2>2
  <1>12. k = K
    <2>1. CASE k # K
      <3>1. K \in 1..K /\ ~(K <= k)
        BY <2>1
      <3>2. kept[K] <= N
        BY <1>1, <1>4, <3>1
      <3> QED BY <1>11, <3>1, <3>2
    <2> QED BY <2>1
  <1>13. Follows(b[K], g[N], d, kept)
    BY <1>11, <1>12
  <1>14. b[K].open = <<>>
    <2>1. g[N].open = <<>> /\ b[K] \in Reading
      BY <1>7 DEF WholeReading, N
    <2>2. b[K].open \in Seq(Nat) /\ g[N].open = Mapped(kept, b[K].open) /\ 0 \in Nat
      BY <1>13, <2>1 DEF Follows, Reading
    <2> QED BY <2>1, <2>2, MappedAppend
  <1>15. Sweeps(t) = b[K].sweeps /\ Sweeps(stream) = g[N].sweeps
    <2>1. b[K] \in Reading
      BY <1>7
    <2> QED BY <1>7, <1>14, <2>1, CloseIs DEF WholeReading, N
  <1> QED BY <1>13, <1>15 DEF Follows, d

-----------------------------------------------------------------------------
(***************************************************************************)
(* Grouping sweeps: _group_by_waveform.                                    *)
(***************************************************************************)
Grouping == [groups : Seq(Seq(SweepType)), open : Seq(SweepType)]

\* h has the groups after each sweep.
Groups(h, u) ==
    /\ GroupsOf(u) = Finalize(h[Len(u)]).groups
    /\ h \in [0..Len(u) -> Grouping]
    /\ h[0] = NoGroups
    /\ \A i \in 1..Len(u) : h[i] = GroupSweep(h[i - 1], u[i])

\* A group that is not a surveillance sweep alone.
Paired(q) == \E i \in DOMAIN q : q[i].wave # "cs"

\* The open group replaced.
LEMMA OpenReplaced ==
    ASSUME NEW acc \in Grouping, NEW q \in Seq(SweepType)
    PROVE  /\ [acc EXCEPT !.open = q] = [groups |-> acc.groups, open |-> q]
           /\ [acc EXCEPT !.open = q] \in Grouping
  <1>1. PICK a, b : acc = [groups |-> a, open |-> b]
    BY DEF Grouping
  <1>2. acc.groups = a /\ acc.groups \in Seq(Seq(SweepType))
    BY <1>1 DEF Grouping
  <1>3. [acc EXCEPT !.open = q] = [groups |-> a, open |-> q]
    BY <1>1
  <1>4. [groups |-> acc.groups, open |-> q] \in Grouping
    BY <1>2 DEF Grouping
  <1> QED BY <1>2, <1>3, <1>4

\* What closing a group does.
LEMMA FinalizeIs ==
    ASSUME NEW acc \in Grouping
    PROVE  /\ Finalize(acc) \in Grouping
           /\ Finalize(acc).open = <<>>
           /\ Finalize(acc).groups =
                IF Paired(acc.open) THEN Append(acc.groups, acc.open) ELSE acc.groups
  <1>1. acc.groups \in Seq(Seq(SweepType)) /\ acc.open \in Seq(SweepType)
    BY DEF Grouping
  <1>2. <<>> \in Seq(SweepType) /\ Append(acc.groups, acc.open) \in Seq(Seq(SweepType))
    BY <1>1, EmptySeq, AppendProperties
  <1>3. CASE Paired(acc.open)
    <2>1. Finalize(acc) = [groups |-> Append(acc.groups, acc.open), open |-> <<>>]
      BY <1>3 DEF Finalize, Paired
    <2> QED BY <1>2, <1>3, <2>1 DEF Grouping
  <1>4. CASE ~Paired(acc.open)
    <2>1. Finalize(acc) = [acc EXCEPT !.open = <<>>]
      BY <1>4 DEF Finalize, Paired
    <2>2. Finalize(acc) = [groups |-> acc.groups, open |-> <<>>]
      BY <2>1 DEF Grouping
    <2> QED BY <1>1, <1>2, <1>4, <2>2 DEF Grouping
  <1> QED BY <1>3, <1>4

\* What a sweep does, by its wave.
LEMMA GroupSweepIs ==
    ASSUME NEW acc \in Grouping, NEW s \in SweepType
    PROVE  /\ GroupSweep(acc, s) \in Grouping
           /\ s.wave = "cs" =>
                GroupSweep(acc, s).open = <<s>> /\ GroupSweep(acc, s).groups = Finalize(acc).groups
           /\ s.wave = "cd" /\ acc.open # <<>> =>
                /\ GroupSweep(acc, s).open = Append(acc.open, s)
                /\ GroupSweep(acc, s).groups = acc.groups
           /\ s.wave = "batch" =>
                /\ GroupSweep(acc, s).open = <<>>
                /\ GroupSweep(acc, s).groups = Append(Finalize(acc).groups, <<s>>)
  <1>1. acc.groups \in Seq(Seq(SweepType)) /\ acc.open \in Seq(SweepType) /\ s.wave \in Waves
    BY DEF Grouping, SweepType
  <1>2. <<s>> \in Seq(SweepType) /\ Append(acc.open, s) \in Seq(SweepType)
    BY <1>1, AppendProperties
  <1>3. PICK f \in Grouping : f = Finalize(acc)
    BY FinalizeIs
  <1>4. PICK alone \in Seq(SweepType) : alone = <<s>>
    BY <1>2
  <1>5. [f EXCEPT !.open = alone] = [groups |-> f.groups, open |-> alone]
        /\ [f EXCEPT !.open = alone] \in Grouping
    BY OpenReplaced
  <1>6. CASE s.wave = "cs"
    <2>1. GroupSweep(acc, s) = [f EXCEPT !.open = alone]
      BY <1>3, <1>4, <1>6 DEF GroupSweep
    <2> QED BY <1>3, <1>4, <1>5, <1>6, <2>1
  <1>7. CASE s.wave = "cd"
    <2>1. GroupSweep(acc, s) = IF acc.open = <<>> THEN acc ELSE [acc EXCEPT !.open = Append(@, s)]
      BY <1>7 DEF GroupSweep
    <2>2. CASE acc.open = <<>>
      BY <1>7, <2>1, <2>2
    <2>3. CASE acc.open # <<>>
      <3>1. PICK q \in Seq(SweepType) : q = Append(acc.open, s)
        BY <1>2
      <3>2. [acc EXCEPT !.open = q] = [groups |-> acc.groups, open |-> q]
        BY OpenReplaced
      <3>3. GroupSweep(acc, s) = [groups |-> acc.groups, open |-> q]
        BY <2>1, <2>3, <3>1, <3>2
      <3>4. GroupSweep(acc, s) \in Grouping
        BY <1>1, <3>1, <3>3 DEF Grouping
      <3> QED BY <1>7, <3>1, <3>3, <3>4
    <2> QED BY <2>2, <2>3
  <1>8. CASE s.wave = "batch"
    <2>1. PICK a \in Grouping : a = [f EXCEPT !.open = alone]
      BY <1>5
    <2>2. a.groups = f.groups /\ a.open = alone
      BY <1>5, <2>1
    <2>3. GroupSweep(acc, s) = Finalize(a)
      BY <1>3, <1>4, <1>8, <2>1 DEF GroupSweep
    <2>4. Paired(a.open)
      <3>1. 1 \in DOMAIN alone /\ alone[1] = s
        BY <1>4
      <3> QED BY <1>8, <2>2, <3>1 DEF Paired
    <2>5. Finalize(a) \in Grouping /\ Finalize(a).open = <<>> /\ Finalize(a).groups = Append(a.groups, a.open)
      BY <2>4, FinalizeIs
    <2> QED BY <1>3, <1>4, <1>8, <2>2, <2>3, <2>5
  <1> QED BY <1>1, <1>6, <1>7, <1>8 DEF Waves

\* Sweeps are grouped one by one.
LEMMA GroupSteps ==
    ASSUME NEW u \in Seq(SweepType)
    PROVE  \E h : Groups(h, u)
  <1> DEFINE N == Len(u)
             A == Grouping
             base == NoGroups
             step == [x \in (1..N) \X A |-> GroupSweep(x[2], u[x[1]])]
             Step(g, n) == IF n = 0 THEN base ELSE GroupSweep(g[n - 1], u[n])
             Solves(g) == g = [n \in 0..N |-> Step(g, n)]
  <1>1. N \in Nat /\ \A n \in 1..N : u[n] \in SweepType
    BY LenProperties, ElementOfSeq
  <1>2. step \in [(1..N) \X A -> A]
    <2> SUFFICES ASSUME NEW x \in (1..N) \X A PROVE GroupSweep(x[2], u[x[1]]) \in A
      OBVIOUS
    <2>1. x[2] \in Grouping /\ u[x[1]] \in SweepType
      BY <1>1
    <2> QED BY <2>1, GroupSweepIs
  <1>3. base \in A
    <2>1. <<>> \in Seq(SweepType) /\ <<>> \in Seq(Seq(SweepType))
      BY EmptySeq
    <2> QED BY <2>1 DEF NoGroups, Grouping
  <1>f. PICK f : Iterates(f, N, A, base, step)
    <2> HIDE DEF A, N, step, base
    <2> QED BY <1>1, <1>2, <1>3, Recursion
  <1> HIDE DEF base
  <1>4. f \in [0..N -> A] /\ f[0] = base /\ \A n \in 1..N : f[n] = step[<<n, f[n - 1]>>]
    BY <1>f DEF Iterates
  <1>5. ASSUME NEW n \in 1..N, NEW h, h[n - 1] \in A
        PROVE  step[<<n, h[n - 1]>>] = GroupSweep(h[n - 1], u[n])
    <2>1. <<n, h[n - 1]>> \in (1..N) \X A
      <3> HIDE DEF A, N
      <3> QED BY <1>5
    <2>2. <<n, h[n - 1]>>[1] = n /\ <<n, h[n - 1]>>[2] = h[n - 1]
      OBVIOUS
    <2> HIDE DEF A, N
    <2> QED BY <2>1, <2>2
  <1>6. Solves(f)
    <2>1. ASSUME NEW n \in 0..N PROVE f[n] = Step(f, n)
      <3>1. CASE n = 0
        BY <1>4, <3>1
      <3>2. CASE n # 0
        <4>1. n \in 1..N /\ n - 1 \in 0..N
          BY <1>1, <3>2
        <4> HIDE DEF N, A, step
        <4>2. f[n] = GroupSweep(f[n - 1], u[n])
          BY <1>4, <1>5, <4>1
        <4> QED BY <3>2, <4>2
      <3> QED BY <3>1, <3>2
    <2> HIDE DEF Step, A, N, step
    <2>2. f = [n \in 0..N |-> f[n]]
      BY <1>4
    <2> QED BY <2>1, <2>2
  <1>7. PICK g : g = CHOOSE h : Solves(h)
    OBVIOUS
  <1>8. Solves(g)
    <2> HIDE DEF Solves
    <2> QED BY <1>6, <1>7
  <1>9. \A n \in 0..N : g[n] = Step(g, n)
    <2> HIDE DEF Step, N
    <2> QED BY <1>8
  <1>10. g[0] = base /\ \A n \in 1..N : g[n] = GroupSweep(g[n - 1], u[n])
    <2>1. 0 \in 0..N /\ \A n \in 1..N : n \in 0..N /\ n # 0
      BY <1>1
    <2>2. Step(g, 0) = base /\ \A n \in 1..N : Step(g, n) = GroupSweep(g[n - 1], u[n])
      BY <1>1
    <2> HIDE DEF Step, N
    <2> QED BY <1>9, <2>1, <2>2
  <1>11. g \in [0..N -> Grouping]
    <2> DEFINE Typed == {n \in Nat : n <= N => g[n] \in Grouping}
    <2>1. 0 \in Typed
      BY <1>3, <1>10
    <2>2. ASSUME NEW n \in Nat, n \in Typed PROVE n + 1 \in Typed
      <3> SUFFICES ASSUME n + 1 <= N PROVE g[n + 1] \in Grouping
        OBVIOUS
      <3>1. n + 1 \in 1..N /\ n + 1 \in Nat /\ (n + 1) - 1 = n /\ g[n] \in Grouping
        BY <1>1, <2>2
      <3>2. g[n + 1] = GroupSweep(g[n], u[n + 1]) /\ u[n + 1] \in SweepType
        BY <1>1, <1>10, <3>1
      <3> QED BY <3>1, <3>2, GroupSweepIs
    <2>3. Nat \subseteq Typed
      <3> HIDE DEF Typed
      <3> QED BY <2>1, <2>2, NumbersOneByOne
    <2>4. \A n \in 0..N : g[n] \in Grouping
      BY <1>1, <2>3
    <2>5. g = [n \in 0..N |-> g[n]]
      <3>1. g = [n \in 0..N |-> Step(g, n)]
        BY <1>8
      <3> HIDE DEF Step, N
      <3> QED BY <3>1
    <2> HIDE DEF N
    <2> QED BY <2>4, <2>5
  <1>12. GroupsOf(u) = Finalize(g[N]).groups
    BY <1>7 DEF GroupsOf, base
  <1> QED BY <1>10, <1>11, <1>12 DEF Groups, base

\* The records of a group: of a sweep alone, or of two.
Rec(s) == ToSet(s.records)

\* The records of a group of one or two sweeps.
LEMMA RecordsOfGroup ==
    ASSUME NEW a, NEW b
    PROVE  /\ RecordsOf(ToSet(<<a>>)) = Rec(a)
           /\ RecordsOf(ToSet(<<a, b>>)) = Rec(a) \cup Rec(b)
  <1>1. ToSet(<<a>>) = {} \cup {a}
    BY DEF ToSet
  <1>2. ToSet(<<a, b>>) = {a} \cup {b}
    <2>1. DOMAIN <<a, b>> = {1, 2} /\ <<a, b>>[1] = a /\ <<a, b>>[2] = b
      OBVIOUS
    <2> QED BY <2>1 DEF ToSet
  <1>3. RecordsOf({} \cup {a}) = {} \cup Rec(a)
    BY RecordsOfOneMore DEF Rec
  <1>4. RecordsOf({a}) = Rec(a)
    BY <1>3
  <1>5. RecordsOf({a} \cup {b}) = Rec(a) \cup Rec(b)
    BY <1>4, RecordsOfOneMore DEF Rec
  <1> QED BY <1>1, <1>2, <1>3, <1>5

\* The records of one group more.
LEMMA RecordSetsOfOneMore ==
    ASSUME NEW E, NEW q \in Seq(E), NEW x \in E
    PROVE  RecordSets(Append(q, x)) = RecordSets(q) \cup {RecordsOf(ToSet(x))}
  <1>2. ASSUME NEW w PROVE RecordSets(w) = {RecordsOf(ToSet(y)) : y \in ToSet(w)}
    <2>1. RecordSets(w) = {RecordsOf(ToSet(w[i])) : i \in DOMAIN w}
      BY DEF RecordSets, ToSet
    <2>2. ToSet(w) = {w[i] : i \in DOMAIN w}
      BY DEF ToSet
    <2>3. {RecordsOf(ToSet(w[i])) : i \in DOMAIN w}
            = {RecordsOf(ToSet(y)) : y \in {w[i] : i \in DOMAIN w}}
      OBVIOUS
    <2> QED BY <2>1, <2>2, <2>3
  <1>3. ToSet(Append(q, x)) = ToSet(q) \cup {x}
    BY SetOfAppend
  <1> QED BY <1>2, <1>3

\* The elevations of the first n sweeps: a batch sweep, or a surveillance sweep and
\* the one after it.
Elevations(u, n) ==
    {Rec(u[i]) : i \in {k \in 1..n : u[k].wave = "batch"}}
    \cup {Rec(u[i]) \cup Rec(u[i + 1]) : i \in {k \in 1..n - 1 : u[k].wave = "cs"}}

\* The elevations of one sweep more.
LEMMA ElevationsOfOneMore ==
    ASSUME NEW u, NEW n \in Nat
    PROVE  Elevations(u, n + 1) = Elevations(u, n)
             \cup (IF u[n + 1].wave = "batch" THEN {Rec(u[n + 1])} ELSE {})
             \cup (IF n > 0 /\ u[n].wave = "cs" THEN {Rec(u[n]) \cup Rec(u[n + 1])} ELSE {})
  <1> DEFINE B(m) == {k \in 1..m : u[k].wave = "batch"}
             C(m) == {k \in 1..m - 1 : u[k].wave = "cs"}
  <1>1. B(n + 1) = B(n) \cup (IF u[n + 1].wave = "batch" THEN {n + 1} ELSE {})
    <2>1. \A k \in 1..n + 1 : k \in 1..n \/ k = n + 1
      OBVIOUS
    <2>2. n + 1 \in 1..n + 1 /\ \A k \in 1..n : k \in 1..n + 1
      OBVIOUS
    <2> QED BY <2>1, <2>2
  <1>2. C(n + 1) = C(n) \cup (IF n > 0 /\ u[n].wave = "cs" THEN {n} ELSE {})
    <2>1. \A k \in 1..(n + 1) - 1 : k \in 1..n - 1 \/ (k = n /\ n > 0)
      OBVIOUS
    <2>2. (n > 0 => n \in 1..(n + 1) - 1) /\ \A k \in 1..n - 1 : k \in 1..(n + 1) - 1
      OBVIOUS
    <2> QED BY <2>1, <2>2
  <1>3. \A m : Elevations(u, m) = {Rec(u[i]) : i \in B(m)} \cup {Rec(u[i]) \cup Rec(u[i + 1]) : i \in C(m)}
    BY DEF Elevations
  <1> HIDE DEF B, C
  <1> QED BY <1>1, <1>2, <1>3

\* A list of two.
LEMMA ListOfTwo ==
    ASSUME NEW E, NEW a \in E, NEW b \in E
    PROVE  <<a>> # <<>> /\ Append(<<a>>, b) = <<a, b>>
  <1>1. PICK one \in Seq(E) : one = <<a>> /\ Len(one) = 1 /\ one[1] = a
    <2>1. <<a>> \in Seq(E) /\ Len(<<a>>) = 1 /\ <<a>>[1] = a
      OBVIOUS
    <2> QED BY <2>1, Zenon
  <1>2. PICK two \in Seq(E) : two = <<a, b>> /\ Len(two) = 2 /\ two[1] = a /\ two[2] = b
    <2>1. <<a, b>> \in Seq(E) /\ Len(<<a, b>>) = 2 /\ <<a, b>>[1] = a /\ <<a, b>>[2] = b
      OBVIOUS
    <2> QED BY <2>1, Zenon
  <1>3. PICK q : q = Append(one, b)
    OBVIOUS
  <1>4. /\ q \in Seq(E) /\ Len(q) = Len(one) + 1 /\ q[Len(one) + 1] = b
        /\ \A i \in 1..Len(one) : q[i] = one[i]
    BY <1>3, AppendProperties
  <1>5. Len(q) = Len(two)
    BY <1>1, <1>2, <1>4
  <1>6. \A i \in 1..Len(q) : q[i] = two[i]
    <2>1. \A i \in 1..Len(q) : i = 1 \/ i = 2
      BY <1>1, <1>4
    <2>2. 1 \in 1..Len(one) /\ Len(one) + 1 = 2
      BY <1>1
    <2>3. q[1] = one[1] /\ q[2] = b
      BY <1>4, <2>2
    <2> QED BY <1>1, <1>2, <2>1, <2>3
  <1>7. q = two
    BY <1>2, <1>4, <1>5, <1>6, SeqEqual
  <1>8. one # <<>>
    BY <1>1, EmptySeq
  <1> QED BY <1>1, <1>2, <1>3, <1>7, <1>8

\* The groups of a regular pattern are its elevations.
LEMMA RegularGroups ==
    ASSUME NEW u \in Seq(SweepType), Regular(u)
    PROVE  RecordSets(GroupsOf(u)) = Elevations(u, Len(u))
  <1> DEFINE N == Len(u)
  <1>1. N \in Nat /\ DOMAIN u = 1..N /\ \A i \in 1..N : u[i] \in SweepType /\ u[i].wave \in Waves
    <2>1. N \in Nat /\ DOMAIN u = 1..N /\ \A i \in 1..N : u[i] \in SweepType
      BY LenProperties, ElementOfSeq
    <2>2. \A s \in SweepType : s.wave \in Waves
      BY DEF SweepType
    <2> QED BY <2>1, <2>2
  <1>2. PICK h : Groups(h, u)
    BY GroupSteps
  <1>3. /\ GroupsOf(u) = Finalize(h[N]).groups /\ h \in [0..N -> Grouping] /\ h[0] = NoGroups
        /\ \A i \in 1..N : h[i] = GroupSweep(h[i - 1], u[i])
    BY <1>2 DEF Groups
  <1>4. ASSUME NEW i \in 1..N
        PROVE  /\ u[i].wave = "cd" => i > 1 /\ u[i - 1].wave = "cs"
               /\ i > 1 /\ u[i - 1].wave = "cs" => u[i].wave = "cd"
    BY <1>1 DEF Regular
  <1> HIDE DEF N
  <1> DEFINE Good(i) ==
               /\ i > 0 /\ u[i].wave = "cs" => h[i].open = <<u[i]>>
               /\ RecordSets(Finalize(h[i]).groups) = Elevations(u, i)
             Right == {i \in Nat : i <= N => Good(i)}
  <1>5. 0 \in Right
    <2>1. h[0] \in Grouping /\ h[0].groups = <<>> /\ h[0].open = <<>>
      BY <1>1, <1>3 DEF NoGroups
    <2>2. ~Paired(<<>>)
      BY DEF Paired
    <2>3. Finalize(h[0]).groups = <<>>
      BY <2>1, <2>2, FinalizeIs
    <2>4. RecordSets(<<>>) = {}
      BY DEF RecordSets
    <2>5. Elevations(u, 0) = {}
      BY DEF Elevations
    <2>6. RecordSets(Finalize(h[0]).groups) = Elevations(u, 0)
      BY <2>3, <2>4, <2>5
    <2>7. ~(0 > 0)
      OBVIOUS
    <2> QED BY <2>6, <2>7
  <1>6. ASSUME NEW i \in Nat, i \in Right PROVE i + 1 \in Right
    <2> SUFFICES ASSUME i + 1 <= N PROVE Good(i + 1)
      OBVIOUS
    <2>1. i + 1 \in 1..N /\ i \in 0..N /\ i + 1 \in 0..N /\ (i + 1) - 1 = i /\ i + 1 > 0 /\ Good(i)
      BY <1>1, <1>6
    <2> DEFINE s == u[i + 1]
               a == h[i]
               b == h[i + 1]
    <2>2. /\ a \in Grouping /\ b \in Grouping /\ s \in SweepType /\ s.wave \in Waves
          /\ b = GroupSweep(a, s)
      BY <1>1, <1>3, <2>1
    <2>3. /\ i > 0 /\ u[i].wave = "cs" => a.open = <<u[i]>>
          /\ RecordSets(Finalize(a).groups) = Elevations(u, i)
      BY <2>1
    <2>4. /\ s.wave = "cd" => i > 0 /\ u[i].wave = "cs"
          /\ i > 0 /\ u[i].wave = "cs" => s.wave = "cd"
      BY <1>4, <2>1
    <2>5. /\ a.groups \in Seq(Seq(SweepType)) /\ a.open \in Seq(SweepType)
          /\ Finalize(a).groups \in Seq(Seq(SweepType)) /\ <<s>> \in Seq(SweepType)
      BY <2>2, FinalizeIs DEF Grouping
    <2>6. Elevations(u, i + 1) = Elevations(u, i)
             \cup (IF s.wave = "batch" THEN {Rec(s)} ELSE {})
             \cup (IF i > 0 /\ u[i].wave = "cs" THEN {Rec(u[i]) \cup Rec(s)} ELSE {})
      BY ElevationsOfOneMore
    <2> SUFFICES /\ s.wave = "cs" => b.open = <<s>>
                 /\ RecordSets(Finalize(b).groups) = Elevations(u, i + 1)
      OBVIOUS
    <2> HIDE DEF s, a, b
    <2>7. CASE s.wave = "cs"
      <3>1. b.open = <<s>> /\ b.groups = Finalize(a).groups
        BY <2>2, <2>7, GroupSweepIs
      <3>2. ~Paired(<<s>>)
        BY <2>7 DEF Paired
      <3>3. Finalize(b).groups = Finalize(a).groups
        BY <2>2, <3>1, <3>2, FinalizeIs
      <3>4. Elevations(u, i + 1) = Elevations(u, i)
        BY <2>4, <2>6, <2>7
      <3> QED BY <2>3, <3>1, <3>3, <3>4
    <2>8. CASE s.wave = "cd"
      <3>0. i > 0 /\ u[i].wave = "cs" /\ a.open = <<u[i]>> /\ u[i] \in SweepType
        BY <1>1, <2>1, <2>3, <2>4, <2>8
      <3>1. i > 0 /\ u[i].wave = "cs" /\ a.open = <<u[i]>> /\ a.open # <<>>
        BY <2>2, <3>0, ListOfTwo
      <3>2. b.open = Append(<<u[i]>>, s) /\ b.groups = a.groups
        <4>1. s.wave = "cd" /\ a.open # <<>> =>
                 b.open = Append(a.open, s) /\ b.groups = a.groups
          BY <2>2, GroupSweepIs
        <4> QED BY <2>8, <3>1, <4>1
      <3>3. Append(<<u[i]>>, s) = <<u[i], s>>
        BY <2>2, <3>0, ListOfTwo
      <3>4. ~Paired(<<u[i]>>)
        BY <3>1 DEF Paired
      <3>5. Finalize(a).groups = a.groups
        BY <2>2, <3>1, <3>4, FinalizeIs
      <3>6. Paired(<<u[i], s>>)
        <4>1. 2 \in DOMAIN <<u[i], s>> /\ <<u[i], s>>[2] = s
          OBVIOUS
        <4> QED BY <2>8, <4>1 DEF Paired
      <3>7. Finalize(b).groups = Append(a.groups, <<u[i], s>>)
        BY <2>2, <3>2, <3>3, <3>6, FinalizeIs
      <3>8. <<u[i], s>> \in Seq(SweepType)
        BY <2>2, <3>2, <3>3 DEF Grouping
      <3>9. RecordSets(Append(a.groups, <<u[i], s>>))
              = RecordSets(a.groups) \cup {RecordsOf(ToSet(<<u[i], s>>))}
        <4>1. PICK q : q = <<u[i], s>>
          OBVIOUS
        <4>2. q \in Seq(SweepType)
          BY <3>8, <4>1
        <4>3. RecordSets(Append(a.groups, q)) = RecordSets(a.groups) \cup {RecordsOf(ToSet(q))}
          BY <2>5, <4>2, RecordSetsOfOneMore
        <4> QED BY <4>1, <4>3
      <3>10. RecordsOf(ToSet(<<u[i], s>>)) = Rec(u[i]) \cup Rec(s)
        BY RecordsOfGroup
      <3>11. Elevations(u, i + 1) = Elevations(u, i) \cup {Rec(u[i]) \cup Rec(s)}
        BY <2>6, <2>8, <3>1
      <3> QED BY <2>3, <2>8, <3>5, <3>7, <3>9, <3>10, <3>11
    <2>9. CASE s.wave = "batch"
      <3>1. b.open = <<>> /\ b.groups = Append(Finalize(a).groups, <<s>>)
        BY <2>2, <2>9, GroupSweepIs
      <3>2. ~Paired(<<>>)
        BY DEF Paired
      <3>3. Finalize(b).groups = Append(Finalize(a).groups, <<s>>)
        BY <2>2, <3>1, <3>2, FinalizeIs
      <3>4. RecordSets(Append(Finalize(a).groups, <<s>>))
              = RecordSets(Finalize(a).groups) \cup {RecordsOf(ToSet(<<s>>))}
        BY <2>5, RecordSetsOfOneMore
      <3>5. RecordsOf(ToSet(<<s>>)) = Rec(s)
        BY RecordsOfGroup
      <3>6. Elevations(u, i + 1) = Elevations(u, i) \cup {Rec(s)}
        BY <2>4, <2>6, <2>9
      <3> QED BY <2>3, <2>9, <3>3, <3>4, <3>5, <3>6
    <2> QED BY <2>2, <2>7, <2>8, <2>9 DEF Waves
  <1>7. Nat \subseteq Right
    <2> HIDE DEF Right
    <2> QED BY <1>5, <1>6, NumbersOneByOne
  <1>8. Good(N)
    <2> HIDE DEF Good
    <2> QED BY <1>1, <1>7
  <1> QED BY <1>3, <1>8 DEF N

-----------------------------------------------------------------------------
(***************************************************************************)
(* Exporting and trimming: parse_and_export, twice.                        *)
(***************************************************************************)
\* The whole sweeps, when those that are not whole come last.
LEMMA WholesSelected ==
    ASSUME NEW u \in Seq(SweepType), NEW v \in Seq(SweepType), GrowsInto(v, u),
           \A i \in 1..Len(v) : v[i].whole,
           \A i \in 1..Len(u) : i > Len(v) => ~u[i].whole
    PROVE  Selected(u, {i \in DOMAIN u : u[i].whole}) = v
  <1> DEFINE wholes == {i \in DOMAIN u : u[i].whole}
             a == Len(v)
             b == Len(u) + 1
  <1>1. a \in Nat /\ b \in Nat /\ Len(u) \in Nat /\ DOMAIN u = 1..Len(u) /\ DOMAIN v = 1..a
        /\ a < b /\ b <= Len(u) + 1 /\ a <= Len(u)
    BY LenProperties DEF GrowsInto
  <1>2. ASSUME NEW i \in DOMAIN u PROVE i \in wholes <=> i <= a \/ b <= i
    <2>1. i \in 1..Len(u) /\ ~(b <= i)
      BY <1>1
    <2>2. CASE i <= a
      <3>1. i \in 1..Len(v) /\ v[i] = u[i]
        BY <1>1, <2>1, <2>2 DEF GrowsInto
      <3> QED BY <2>2, <3>1
    <2>3. CASE ~(i <= a)
      <3>1. ~u[i].whole
        BY <1>1, <2>1, <2>3
      <3> QED BY <2>1, <2>3, <3>1
    <2> QED BY <2>2, <2>3
  <1>3. Selected(u, wholes) = Ends(u, a, b)
    <2> HIDE DEF wholes, a, b
    <2> QED BY <1>1, <1>2, SelectedEnds
  <1>4. Ends(u, a, b) = [i \in 1..a |-> u[i]]
    <2>1. Len(u) + 1 + a - b = a
      BY <1>1
    <2>2. \A i \in 1..a : i <= a
      BY <1>1
    <2>3. Ends(u, a, b) = [i \in 1..a |-> IF i <= a THEN u[i] ELSE u[i - a + b - 1]]
      BY <2>1 DEF Ends
    <2> HIDE DEF a, b
    <2> QED BY <2>2, <2>3
  <1>5. v = [i \in 1..a |-> v[i]]
    BY <1>1, LenProperties
  <1>6. \A i \in 1..a : v[i] = u[i]
    BY DEF GrowsInto
  <1> HIDE DEF a, b
  <1> QED BY <1>3, <1>4, <1>5, <1>6

\* A beginning of a regular pattern is regular.
LEMMA RegularBeginning ==
    ASSUME NEW u \in Seq(SweepType), NEW v \in Seq(SweepType), GrowsInto(v, u), Regular(u)
    PROVE  Regular(v)
  <1>1. Len(u) \in Nat /\ DOMAIN u = 1..Len(u) /\ Len(v) \in Nat /\ DOMAIN v = 1..Len(v)
        /\ Len(v) <= Len(u) /\ \A i \in 1..Len(v) : v[i] = u[i]
    BY LenProperties DEF GrowsInto
  <1> SUFFICES ASSUME NEW i \in DOMAIN v
               PROVE  /\ v[i].whole
                      /\ v[i].wave = "cd" => i > 1 /\ v[i - 1].wave = "cs"
                      /\ i > 1 /\ v[i - 1].wave = "cs" => v[i].wave = "cd"
    BY DEF Regular
  <1>2. i \in DOMAIN u /\ v[i] = u[i]
    BY <1>1
  <1>3. /\ u[i].whole
        /\ u[i].wave = "cd" => i > 1 /\ u[i - 1].wave = "cs"
        /\ i > 1 /\ u[i - 1].wave = "cs" => u[i].wave = "cd"
    BY <1>2 DEF Regular
  <1>4. i > 1 => v[i - 1] = u[i - 1]
    <2>1. i > 1 => i - 1 \in 1..Len(v)
      BY <1>1
    <2> QED BY <1>1, <2>1
  <1> QED BY <1>2, <1>3, <1>4

\* The elevations of a list without a surveillance sweep at its end.
LEMMA LastElevation ==
    ASSUME NEW v \in Seq(SweepType), Regular(v)
    PROVE  \E d \in 0..Len(v) :
             /\ d > 0 => v[d].wave # "cs"
             /\ Elevations(v, Len(v)) = Elevations(v, d)
  <1> DEFINE m == Len(v)
  <1>1. m \in Nat /\ DOMAIN v = 1..m
    BY LenProperties
  <1>2. CASE m > 0 /\ v[m].wave = "cs"
    <2>1. m \in DOMAIN v /\ m - 1 \in Nat /\ (m - 1) + 1 = m /\ m - 1 \in 0..m
      BY <1>1, <1>2
    <2>2. m > 1 /\ v[m - 1].wave = "cs" => v[m].wave = "cd"
      BY <2>1 DEF Regular
    <2>3. m - 1 > 0 => v[m - 1].wave # "cs"
      <3>1. m - 1 > 0 => m > 1
        BY <1>1
      <3> HIDE DEF m
      <3> QED BY <1>2, <2>2, <3>1
    <2>4. Elevations(v, m) = Elevations(v, m - 1)
      <3>1. Elevations(v, (m - 1) + 1) = Elevations(v, m - 1)
               \cup (IF v[(m - 1) + 1].wave = "batch" THEN {Rec(v[(m - 1) + 1])} ELSE {})
               \cup (IF m - 1 > 0 /\ v[m - 1].wave = "cs"
                     THEN {Rec(v[m - 1]) \cup Rec(v[(m - 1) + 1])} ELSE {})
        BY <2>1, ElevationsOfOneMore
      <3> HIDE DEF m
      <3> QED BY <1>2, <2>1, <2>3, <3>1
    <2> HIDE DEF m
    <2>5. \E d \in 0..m : (d > 0 => v[d].wave # "cs") /\ Elevations(v, m) = Elevations(v, d)
      BY <2>1, <2>3, <2>4
    <2> QED BY <2>5 DEF m
  <1>3. CASE ~(m > 0 /\ v[m].wave = "cs")
    <2>1. m \in 0..m
      BY <1>1
    <2> QED BY <1>3, <2>1
  <1> QED BY <1>2, <1>3

\* The elevations of the same sweeps are the same.
LEMMA ElevationsAgree ==
    ASSUME NEW u, NEW v, NEW d \in Nat, \A i \in 1..d : v[i] = u[i]
    PROVE  Elevations(v, d) = Elevations(u, d)
  <1>1. {k \in 1..d : v[k].wave = "batch"} = {k \in 1..d : u[k].wave = "batch"}
    OBVIOUS
  <1>2. \A k \in 1..d - 1 : v[k] = u[k] /\ v[k + 1] = u[k + 1]
    <2> SUFFICES ASSUME NEW k \in 1..d - 1 PROVE v[k] = u[k] /\ v[k + 1] = u[k + 1]
      OBVIOUS
    <2>1. k \in 1..d /\ k + 1 \in 1..d
      OBVIOUS
    <2> QED BY <2>1
  <1>3. {k \in 1..d - 1 : v[k].wave = "cs"} = {k \in 1..d - 1 : u[k].wave = "cs"}
    BY <1>2
  <1> DEFINE B == {k \in 1..d : u[k].wave = "batch"}
             C == {k \in 1..d - 1 : u[k].wave = "cs"}
  <1>4. {Rec(v[i]) : i \in B} = {Rec(u[i]) : i \in B}
    OBVIOUS
  <1>5. {Rec(v[i]) \cup Rec(v[i + 1]) : i \in C} = {Rec(u[i]) \cup Rec(u[i + 1]) : i \in C}
    BY <1>2
  <1> QED BY <1>1, <1>3, <1>4, <1>5 DEF Elevations

\* Every sweep of a regular pattern is in an elevation, but a surveillance sweep at
\* the end.
LEMMA ElevationsCover ==
    ASSUME NEW v \in Seq(SweepType), Regular(v), NEW d \in 0..Len(v), d > 0 => v[d].wave # "cs"
    PROVE  UNION Elevations(v, d) = UNION {Rec(v[i]) : i \in 1..d}
  <1>1. Len(v) \in Nat /\ DOMAIN v = 1..Len(v)
    BY LenProperties
  <1>2. \A i \in 1..d : i \in DOMAIN v /\ v[i].wave \in Waves
    <2>1. \A i \in 1..d : i \in DOMAIN v /\ v[i] \in SweepType
      BY <1>1, ElementOfSeq
    <2>2. \A s \in SweepType : s.wave \in Waves
      BY DEF SweepType
    <2> QED BY <2>1, <2>2
  <1>3. ASSUME NEW i \in 1..d PROVE \E x \in Elevations(v, d) : Rec(v[i]) \subseteq x
    <2>1. CASE v[i].wave = "batch"
      BY <2>1 DEF Elevations
    <2>2. CASE v[i].wave = "cs"
      <3>1. i # d
        BY <2>2
      <3>2. i \in 1..d - 1
        BY <3>1
      <3>3. Rec(v[i]) \cup Rec(v[i + 1]) \in Elevations(v, d)
        BY <2>2, <3>2 DEF Elevations
      <3> QED BY <3>3
    <2>3. CASE v[i].wave = "cd"
      <3>1. i > 1 /\ v[i - 1].wave = "cs"
        BY <1>2, <2>3 DEF Regular
      <3>2. i - 1 \in 1..d - 1 /\ (i - 1) + 1 = i
        BY <3>1
      <3>3. Rec(v[i - 1]) \cup Rec(v[(i - 1) + 1]) \in Elevations(v, d)
        BY <3>1, <3>2 DEF Elevations
      <3> QED BY <3>2, <3>3
    <2> QED BY <1>2, <2>1, <2>2, <2>3 DEF Waves
  <1>4. ASSUME NEW x \in Elevations(v, d) PROVE x \subseteq UNION {Rec(v[i]) : i \in 1..d}
    <2>1. \/ \E i \in 1..d : x = Rec(v[i])
          \/ \E i \in 1..d - 1 : x = Rec(v[i]) \cup Rec(v[i + 1])
      BY DEF Elevations
    <2>2. \A i \in 1..d - 1 : i \in 1..d /\ i + 1 \in 1..d
      OBVIOUS
    <2> QED BY <2>1, <2>2
  <1> QED BY <1>3, <1>4

\* What follows on a point where no surveillance sweep waits is regular as well.
LEMMA RegularRest ==
    ASSUME NEW all \in Seq(SweepType), Regular(all), NEW w \in Seq(SweepType), NEW d \in Nat,
           NEW kept, Resumes(w, all, d, kept), d > 0 => all[d].wave # "cs"
    PROVE  Regular(w)
  <1>1. /\ Len(all) \in Nat /\ DOMAIN all = 1..Len(all) /\ Len(w) \in Nat /\ DOMAIN w = 1..Len(w)
        /\ Len(all) = d + Len(w)
    BY LenProperties DEF Resumes
  <1>2. \A j \in 1..Len(w) : all[d + j].wave = w[j].wave /\ all[d + j].whole = w[j].whole
    BY DEF Resumes, Image
  <1> SUFFICES ASSUME NEW j \in DOMAIN w
               PROVE  /\ w[j].whole
                      /\ w[j].wave = "cd" => j > 1 /\ w[j - 1].wave = "cs"
                      /\ j > 1 /\ w[j - 1].wave = "cs" => w[j].wave = "cd"
    BY DEF Regular
  <1>3. d + j \in DOMAIN all /\ j \in 1..Len(w)
    BY <1>1
  <1>4. /\ all[d + j].whole
        /\ all[d + j].wave = "cd" => d + j > 1 /\ all[d + j - 1].wave = "cs"
        /\ d + j > 1 /\ all[d + j - 1].wave = "cs" => all[d + j].wave = "cd"
    BY <1>3 DEF Regular
  <1>5. CASE j = 1
    <2>1. d + j - 1 = d
      BY <1>1, <1>5
    <2>2. d + j > 1 => d > 0
      BY <1>1, <1>5
    <2> QED BY <1>2, <1>3, <1>4, <1>5, <2>1, <2>2
  <1>6. CASE j # 1
    <2>1. j - 1 \in 1..Len(w) /\ d + (j - 1) = d + j - 1 /\ j > 1 /\ d + j > 1
      BY <1>1, <1>6
    <2>2. all[d + j - 1].wave = w[j - 1].wave
      BY <1>2, <2>1
    <2> QED BY <1>2, <1>3, <1>4, <2>1, <2>2
  <1> QED BY <1>5, <1>6

\* What an elevation is.
LEMMA InElevations ==
    ASSUME NEW u, NEW n, NEW x
    PROVE  x \in Elevations(u, n)
             <=> \/ \E i \in 1..n : u[i].wave = "batch" /\ x = Rec(u[i])
                 \/ \E i \in 1..n - 1 : u[i].wave = "cs" /\ x = Rec(u[i]) \cup Rec(u[i + 1])
  BY DEF Elevations

\* The elevations are those before such a point and the images of those after it.
LEMMA ElevationsResume ==
    ASSUME NEW all \in Seq(SweepType), NEW w \in Seq(SweepType), NEW d \in Nat,
           NEW kept, Resumes(w, all, d, kept), d > 0 => all[d].wave # "cs"
    PROVE  Elevations(all, Len(all))
             = Elevations(all, d) \cup {{kept[k] : k \in x} : x \in Elevations(w, Len(w))}
  <1> DEFINE m == Len(w)
             Im(x) == {kept[k] : k \in x}
  <1>1. m \in Nat /\ Len(all) = d + m
    BY LenProperties DEF Resumes
  <1>2. ASSUME NEW j \in 1..m PROVE Rec(all[d + j]) = Im(Rec(w[j])) /\ all[d + j].wave = w[j].wave
    <2>1. all[d + j].records = Mapped(kept, w[j].records) /\ all[d + j].wave = w[j].wave
      BY DEF Resumes, Image
    <2>2. w[j].records \in Seq(Nat)
      <3>1. w[j] \in SweepType
        BY ElementOfSeq
      <3> QED BY <3>1 DEF SweepType
    <2>3. PICK q \in Seq(Nat) : q = w[j].records
      BY <2>2
    <2>4. DOMAIN q = 1..Len(q)
      BY LenProperties
    <2>5. ToSet(Mapped(kept, q)) = {kept[q[i]] : i \in 1..Len(q)}
      BY DEF Mapped, ToSet
    <2>6. {kept[k] : k \in ToSet(q)} = {kept[q[i]] : i \in 1..Len(q)}
      BY <2>4 DEF ToSet
    <2> QED BY <2>1, <2>3, <2>5, <2>6 DEF Rec
  <1>3. \A x, y : Im(x \cup y) = Im(x) \cup Im(y)
    OBVIOUS
  <1> HIDE DEF m, Im
  <1>8. PICK N \in Nat : N = d + m
    BY <1>1
  <1>4. ASSUME NEW x \in Elevations(all, N)
        PROVE  x \in Elevations(all, d) \/ \E y \in Elevations(w, m) : x = Im(y)
    <2>1. CASE \E i \in 1..N : x = Rec(all[i]) /\ all[i].wave = "batch"
      <3>1. PICK i \in 1..N : x = Rec(all[i]) /\ all[i].wave = "batch"
        BY <2>1
      <3>2. CASE i <= d
        <4>1. i \in 1..d
          BY <3>2
        <4> QED BY <3>1, <4>1 DEF Elevations
      <3>3. CASE ~(i <= d)
        <4>1. PICK j \in 1..m : i = d + j
          <5>1. i - d \in 1..m /\ i = d + (i - d)
            BY <1>1, <1>8, <3>3
          <5> QED BY <5>1
        <4>2. x = Im(Rec(w[j])) /\ w[j].wave = "batch"
          BY <1>2, <3>1, <4>1
        <4>3. Rec(w[j]) \in Elevations(w, m)
          BY <4>2 DEF Elevations
        <4> QED BY <4>2, <4>3
      <3> QED BY <3>2, <3>3
    <2>2. CASE \E i \in 1..N - 1 : x = Rec(all[i]) \cup Rec(all[i + 1]) /\ all[i].wave = "cs"
      <3>1. PICK i \in 1..N - 1 : x = Rec(all[i]) \cup Rec(all[i + 1]) /\ all[i].wave = "cs"
        BY <2>2
      <3>2. CASE i <= d
        <4>1. i # d
          BY <3>1
        <4>2. i \in 1..d - 1
          BY <3>2, <4>1
        <4> QED BY <3>1, <4>2 DEF Elevations
      <3>3. CASE ~(i <= d)
        <4>1. PICK j \in 1..m - 1 : i = d + j
          <5>1. i - d \in 1..m - 1 /\ i = d + (i - d)
            BY <1>1, <1>8, <3>3
          <5> QED BY <5>1
        <4>2. j \in 1..m /\ j + 1 \in 1..m /\ i + 1 = d + (j + 1)
          BY <1>1, <4>1
        <4>3. Rec(all[i]) = Im(Rec(w[j])) /\ Rec(all[i + 1]) = Im(Rec(w[j + 1])) /\ w[j].wave = "cs"
          BY <1>2, <3>1, <4>1, <4>2
        <4>4. x = Im(Rec(w[j]) \cup Rec(w[j + 1]))
          <5>1. x = Im(Rec(w[j])) \cup Im(Rec(w[j + 1]))
            BY <3>1, <4>3
          <5> QED BY <1>3, <5>1
        <4>5. Rec(w[j]) \cup Rec(w[j + 1]) \in Elevations(w, m)
          BY <4>1, <4>3, InElevations
        <4> QED BY <4>4, <4>5
      <3> QED BY <3>2, <3>3
    <2> QED BY <2>1, <2>2, InElevations
  <1>5. Elevations(all, d) \subseteq Elevations(all, N)
    <2>1. \A i \in 1..d : i \in 1..N
      BY <1>1, <1>8
    <2>2. \A i \in 1..d - 1 : i \in 1..N - 1
      BY <1>1, <1>8
    <2> QED BY <2>1, <2>2 DEF Elevations
  <1>6. ASSUME NEW y \in Elevations(w, m) PROVE Im(y) \in Elevations(all, N)
    <2>1. CASE \E j \in 1..m : y = Rec(w[j]) /\ w[j].wave = "batch"
      <3>1. PICK j \in 1..m : y = Rec(w[j]) /\ w[j].wave = "batch"
        BY <2>1
      <3>2. d + j \in 1..N
        BY <1>1, <1>8
      <3>3. Rec(all[d + j]) = Im(y) /\ all[d + j].wave = "batch"
        BY <1>2, <3>1
      <3> QED BY <3>2, <3>3, InElevations
    <2>2. CASE \E j \in 1..m - 1 : y = Rec(w[j]) \cup Rec(w[j + 1]) /\ w[j].wave = "cs"
      <3>1. PICK j \in 1..m - 1 : y = Rec(w[j]) \cup Rec(w[j + 1]) /\ w[j].wave = "cs"
        BY <2>2
      <3>2. d + j \in 1..N - 1 /\ j \in 1..m /\ j + 1 \in 1..m /\ d + (j + 1) = (d + j) + 1
        BY <1>1, <1>8, <3>1
      <3>3. Rec(all[d + j]) = Im(Rec(w[j])) /\ all[d + j].wave = "cs"
        BY <1>2, <3>1, <3>2
      <3>4. Rec(all[(d + j) + 1]) = Im(Rec(w[j + 1]))
        BY <1>2, <3>2
      <3>5. Im(y) = Rec(all[d + j]) \cup Rec(all[(d + j) + 1])
        <4>1. Im(y) = Im(Rec(w[j])) \cup Im(Rec(w[j + 1]))
          BY <1>3, <3>1
        <4> QED BY <3>3, <3>4, <4>1
      <3> QED BY <3>2, <3>3, <3>5, InElevations
    <2> QED BY <2>1, <2>2, InElevations
  <1>7. Elevations(all, N) = Elevations(all, d) \cup {Im(y) : y \in Elevations(w, m)}
    BY <1>4, <1>5, <1>6
  <1> QED BY <1>1, <1>7, <1>8 DEF m, Im

\* The complete sweeps of the first records.
LEMMA PrefixComplete ==
    ASSUME NEW stream \in Seq(Records), NEW g, WholeReading(g, stream),
           Regular(Sweeps(stream)), NEW n \in 0..Len(stream)
    PROVE  /\ CompleteSweeps(SubSeq(stream, 1, n)) = g[n].sweeps
           /\ g[n].sweeps \in Seq(SweepType)
           /\ GrowsInto(g[n].sweeps, Sweeps(stream))
           /\ Regular(g[n].sweeps)
  <1> DEFINE v == g[n].sweeps
             u == Close(g[n]).sweeps
             all == Sweeps(stream)
             N == Len(stream)
  <1>1. N \in Nat /\ N \in 0..N /\ n \in 0..N
    BY LenProperties
  <1>2. /\ g[n] \in Reading /\ g[N] \in Reading /\ Close(g[n]) \in Reading
        /\ all = g[N].sweeps
    BY <1>1, CloseIs DEF WholeReading
  <1>3. v \in Seq(SweepType) /\ u \in Seq(SweepType) /\ all \in Seq(SweepType)
    BY <1>2 DEF Reading
  <1>4. GrowsInto(v, all)
    BY <1>1, <1>2, WholeGrows
  <1>5. Regular(v)
    <2>1. Regular(all)
      OBVIOUS
    <2> HIDE DEF v, all
    <2> QED BY <1>3, <1>4, <2>1, RegularBeginning
  <1>6. GrowsInto(v, u)
    BY <1>2, CloseGrows
  <1>7. \A i \in 1..Len(v) : v[i].whole
    <2>1. DOMAIN v = 1..Len(v)
      BY <1>3, LenProperties
    <2> HIDE DEF v
    <2> QED BY <1>5, <2>1 DEF Regular
  <1>8. \A i \in 1..Len(u) : i > Len(v) => ~u[i].whole
    <2>1. CASE g[n].open = <<>>
      <3>1. u = v
        BY <1>2, <2>1, CloseIs
      <3>2. Len(v) \in Nat
        BY <1>3, LenProperties
      <3> HIDE DEF u, v
      <3> QED BY <3>1, <3>2
    <2>2. CASE g[n].open # <<>>
      <3>1. PICK s : s = [records |-> g[n].open, wave |-> g[n].wave, whole |-> FALSE]
        OBVIOUS
      <3>2. u = Append(v, s) /\ ~s.whole
        BY <1>2, <2>2, <3>1, CloseIs
      <3>3. s \in SweepType
        BY <1>2, <3>1 DEF SweepType, Reading
      <3>4. Len(u) = Len(v) + 1 /\ Len(v) \in Nat /\ u[Len(v) + 1] = s
        <4> HIDE DEF u, v
        <4> QED BY <1>3, <3>2, <3>3, AppendProperties, LenProperties
      <3> HIDE DEF u, v
      <3>5. \A i \in 1..Len(u) : i > Len(v) => i = Len(v) + 1
        BY <3>4
      <3> QED BY <3>2, <3>4, <3>5
    <2> QED BY <2>1, <2>2
  <1>9. Selected(u, {i \in DOMAIN u : u[i].whole}) = v
    <2> HIDE DEF u, v
    <2> QED BY <1>3, <1>6, <1>7, <1>8, WholesSelected
  <1>10. Sweeps(SubSeq(stream, 1, n)) = u
    BY PrefixReading
  <1>11. CompleteSweeps(SubSeq(stream, 1, n)) = v
    <2> HIDE DEF u, v
    <2> QED BY <1>9, <1>10 DEF CompleteSweeps
  <1> QED BY <1>3, <1>4, <1>5, <1>11

\* The complete sweeps of a stream whose sweeps are all whole.
LEMMA AllComplete ==
    ASSUME NEW all \in Seq(SweepType), Regular(all)
    PROVE  Selected(all, {i \in DOMAIN all : all[i].whole}) = all
  <1>1. GrowsInto(all, all) /\ DOMAIN all = 1..Len(all) /\ Len(all) \in Nat
    BY LenProperties DEF GrowsInto
  <1>2. \A i \in 1..Len(all) : all[i].whole
    BY <1>1 DEF Regular
  <1>3. \A i \in 1..Len(all) : i > Len(all) => ~all[i].whole
    BY <1>1
  <1> QED BY <1>1, <1>2, <1>3, WholesSelected

\* The records of the sweeps of some groups.
LEMMA MembersRecords ==
    ASSUME NEW groups
    PROVE  RecordsOf(Members(groups)) = UNION RecordSets(groups)
  <1> DEFINE In(i) == {groups[i][j] : j \in DOMAIN groups[i]}
  <1>1. Members(groups) = UNION {In(i) : i \in DOMAIN groups}
    BY DEF Members
  <1>2. RecordSets(groups) = {RecordsOf(In(i)) : i \in DOMAIN groups}
    BY DEF RecordSets
  <1> HIDE DEF In
  <1> QED BY <1>1, <1>2 DEF RecordsOf

\* The sweeps of a stream are sweeps.
LEMMA SweepsTyped ==
    ASSUME NEW stream \in Seq(Records)
    PROVE  Sweeps(stream) \in Seq(SweepType)
  <1>1. PICK g : Reads(g, stream)
    BY ReadSteps
  <1>2. Len(stream) \in 0..Len(stream)
    BY LenProperties
  <1>3. g[Len(stream)] \in Reading
    BY <1>1, <1>2 DEF Reads
  <1>4. Close(g[Len(stream)]) \in Reading
    BY <1>3, CloseIs
  <1> QED BY <1>1, <1>4 DEF Reads, Reading

\* What the second parse makes of the records it finds.
LEMMA SecondParse ==
    ASSUME NEW t \in Seq(Records), Regular(Sweeps(t))
    PROVE  RecordSets(Seen(t, Len(t))) = Elevations(Sweeps(t), Len(Sweeps(t)))
  <1>1. SubSeq(t, 1, Len(t)) = t
    <2>1. Len(t) \in Nat
      BY LenProperties
    <2> DEFINE p == SubSeq(t, 1, Len(t))
    <2>2. p \in Seq(Records) /\ Len(p) = Len(t) /\ \A i \in 1..Len(t) : p[i] = t[i]
      BY <2>1, SubSeqProperties, ElementOfSeq
    <2> HIDE DEF p
    <2>3. p = t
      BY <2>2, SeqEqual
    <2> QED BY <2>3 DEF p
  <1>2. Sweeps(t) \in Seq(SweepType)
    BY SweepsTyped
  <1>3. CompleteSweeps(t) = Sweeps(t)
    BY <1>2, AllComplete DEF CompleteSweeps
  <1>4. RecordSets(GroupsOf(Sweeps(t))) = Elevations(Sweeps(t), Len(Sweeps(t)))
    BY <1>2, RegularGroups
  <1> QED BY <1>1, <1>3, <1>4 DEF Seen

\* The records exported by the first parse are those up to a record at which no
\* sweep is open, and the elevations exported are those of the sweeps till then.
LEMMA FirstParse ==
    ASSUME NEW stream \in Seq(Records), NEW g, WholeReading(g, stream),
           Regular(Sweeps(stream)), NEW n \in 0..Len(stream)
    PROVE  \E e \in 0..n :
             LET d == Len(g[e].sweeps) IN
             /\ g[e].open = <<>>
             /\ d > 0 => Sweeps(stream)[d].wave # "cs"
             /\ RecordSets(Seen(stream, n)) = Elevations(Sweeps(stream), d)
             /\ RecordsOf(Members(Seen(stream, n))) = {k \in 1..e : ~stream[k].low}
  <1> DEFINE v == g[n].sweeps
             all == Sweeps(stream)
  <1>1. /\ CompleteSweeps(SubSeq(stream, 1, n)) = v /\ v \in Seq(SweepType)
        /\ GrowsInto(v, all) /\ Regular(v)
    BY PrefixComplete
  <1>2. PICK d \in 0..Len(v) :
           (d > 0 => v[d].wave # "cs") /\ Elevations(v, Len(v)) = Elevations(v, d)
    <2> HIDE DEF v
    <2> QED BY <1>1, LastElevation
  <1>3. Len(v) \in Nat /\ DOMAIN v = 1..Len(v) /\ d \in Nat /\ \A i \in 1..d : v[i] = all[i]
    <2>1. Len(v) \in Nat /\ DOMAIN v = 1..Len(v)
      BY <1>1, LenProperties
    <2>2. d \in Nat /\ \A i \in 1..d : i \in 1..Len(v)
      BY <1>2, <2>1
    <2> QED BY <1>1, <2>1, <2>2 DEF GrowsInto
  <1>4. PICK e \in 0..n : Len(g[e].sweeps) = d /\ g[e].open = <<>>
    BY <1>2, StopsAt
  <1>5. Elevations(v, d) = Elevations(all, d)
    <2> HIDE DEF v, all
    <2> QED BY <1>3, ElevationsAgree
  <1>6. RecordSets(Seen(stream, n)) = Elevations(v, d)
    <2>1. Seen(stream, n) = GroupsOf(v)
      BY <1>1 DEF Seen
    <2> HIDE DEF v
    <2> QED BY <1>1, <1>2, <2>1, RegularGroups
  <1>7. d > 0 => all[d].wave # "cs"
    BY <1>2, <1>3
  <1>8. RecordsOf(Members(Seen(stream, n))) = UNION {Rec(v[i]) : i \in 1..d}
    <2>1. UNION Elevations(v, d) = UNION {Rec(v[i]) : i \in 1..d}
      <3> HIDE DEF v
      <3> QED BY <1>1, <1>2, ElevationsCover
    <2> QED BY <1>6, <2>1, MembersRecords
  <1>9. UNION {Rec(v[i]) : i \in 1..d} = {k \in 1..e : ~stream[k].low}
    <2> DEFINE q == g[e].sweeps
    <2>1. e \in 0..Len(stream) /\ Len(stream) \in Nat
      BY <1>4, LenProperties
    <2>2. GrowsInto(q, v) /\ Len(q) = d
      BY <1>4, WholeGrows
    <2>3. RecordsIn(g[e]) = {k \in 1..e : ~stream[k].low}
      BY <2>1, RecordsRead
    <2>4. RecordsIn(g[e]) = RecordsOf(ToSet(q))
      BY <1>4, SetOfNone DEF RecordsIn
    <2>5. q \in Seq(SweepType) /\ DOMAIN q = 1..d
      <3>1. q \in Seq(SweepType)
        BY <2>1 DEF WholeReading, Reading
      <3> QED BY <2>2, <3>1, LenProperties
    <2> HIDE DEF q, v
    <2>6. ToSet(q) = {v[i] : i \in 1..d}
      BY <2>2, <2>5 DEF ToSet, GrowsInto
    <2>7. RecordsOf(ToSet(q)) = UNION {Rec(s) : s \in ToSet(q)}
      BY DEF RecordsOf, Rec, ToSet
    <2>8. UNION {Rec(s) : s \in {v[i] : i \in 1..d}} = UNION {Rec(v[i]) : i \in 1..d}
      OBVIOUS
    <2> QED BY <2>3, <2>4, <2>6, <2>7, <2>8
  <1> HIDE DEF v, all
  <1>10. RecordsOf(Members(Seen(stream, n))) = {k \in 1..e : ~stream[k].low}
    BY <1>8, <1>9
  <1>11. RecordSets(Seen(stream, n)) = Elevations(all, Len(g[e].sweeps))
    BY <1>4, <1>5, <1>6
  <1> QED BY <1>4, <1>7, <1>10, <1>11 DEF all

\* The records left when those up to e are gone.
LEMMA RecordsLeft ==
    ASSUME NEW stream \in Seq(Records), NEW g, WholeReading(g, stream),
           Regular(Sweeps(stream)), NEW n \in 0..Len(stream), NEW e \in 0..n,
           RecordsOf(Members(Seen(stream, n))) = {k \in 1..e : ~stream[k].low},
           NEW records, Remains(records, stream, n, e)
    PROVE  /\ IsFiniteSet(records) /\ records \subseteq Nat
           /\ Unexported(stream, n) = Ranked(records, [i \in records |-> i])
  <1> DEFINE known == RecordsOf(ToSet(Sweeps(SubSeq(stream, 1, n))))
             gone == RecordsOf(Members(Seen(stream, n)))
             N == Len(stream)
  <1>1. N \in Nat /\ n \in 0..N /\ e \in 0..n
    BY LenProperties
  <1>2. known = {k \in 1..n : ~stream[k].low}
    <2>1. Sweeps(SubSeq(stream, 1, n)) = Close(g[n]).sweeps
      BY PrefixReading
    <2>2. g[n] \in Reading
      BY DEF WholeReading
    <2> QED BY <2>1, <2>2, CloseRecords, RecordsRead
  <1>3. gone = {k \in 1..e : ~stream[k].low}
    OBVIOUS
  <1> HIDE DEF known, gone, N
  <1>4. (known \ gone) \cup ((n + 1)..N) = records
    <2>1. records = {i \in (e + 1)..N : i > n \/ ~stream[i].low}
      BY DEF N, Remains
    <2> QED BY <1>1, <1>2, <1>3, <2>1
  <1>5. IsFiniteSet(records) /\ records \subseteq Nat
    <2>1. IsFiniteSet((e + 1)..N)
      BY <1>1, FS_Interval
    <2>2. records \subseteq (e + 1)..N
      BY DEF N, Remains
    <2>3. (e + 1)..N \subseteq Nat
      BY <1>1
    <2> QED BY <2>1, <2>2, <2>3, FS_Subset
  <1>6. Unexported(stream, n) = LET all == (known \ gone) \cup ((n + 1)..N)
                                IN  Ranked(all, [i \in all |-> i])
    BY DEF Unexported, known, gone, N
  <1> QED BY <1>4, <1>5, <1>6

\* The elevations of both parses are those of one.
LEMMA TrimmedOnce ==
    ASSUME NEW stream \in Seq(Records), Regular(Sweeps(stream)), NEW n \in 0..Len(stream)
    PROVE  RecordSets(Seen(stream, n)) \cup FoundLater(stream, n)
             = RecordSets(GroupsOf(CompleteSweeps(stream)))
  <1> DEFINE all == Sweeps(stream)
             kept == Unexported(stream, n)
             t == [k \in DOMAIN kept |-> stream[kept[k]]]
  <1>1. PICK g : WholeReading(g, stream)
    BY WholeIs DEF Regular
  <1>2. PICK e \in 0..n :
             LET d == Len(g[e].sweeps) IN
             /\ g[e].open = <<>>
             /\ d > 0 => all[d].wave # "cs"
             /\ RecordSets(Seen(stream, n)) = Elevations(all, d)
             /\ RecordsOf(Members(Seen(stream, n))) = {k \in 1..e : ~stream[k].low}
    BY <1>1, FirstParse
  <1>3. PICK d : d = Len(g[e].sweeps)
    OBVIOUS
  <1>4. PICK records : Remains(records, stream, n, e)
    BY DEF Remains
  <1>5. /\ IsFiniteSet(records) /\ records \subseteq Nat
        /\ kept = Ranked(records, [i \in records |-> i])
    BY <1>1, <1>2, <1>4, RecordsLeft
  <1>6. PICK K : K = Cardinality(records)
    OBVIOUS
  <1>7. K \in Nat
    BY <1>5, <1>6, FS_CardinalityType
  <1>8. InOrder(kept, records, [i \in records |-> i])
    <2> DEFINE key == [i \in records |-> i]
    <2>1. (\A x \in records : key[x] \in Int)
          /\ \A x, y \in records : key[x] = key[y] => x = y
      BY <1>5
    <2> HIDE DEF key
    <2>2. InOrder(Ranked(records, key), records, key)
      BY <1>5, <2>1, RankedIs
    <2> QED BY <1>5, <2>2 DEF key
  <1>9. /\ kept \in [1..K -> records]
        /\ \A x \in records : \E j \in 1..K : kept[j] = x
        /\ \A i, j \in 1..K : i < j => kept[i] < kept[j]
    BY <1>6, <1>8 DEF InOrder
  <1>10. kept \in Seq(records) /\ Len(kept) = K /\ DOMAIN kept = 1..K
    <2> HIDE DEF kept
    <2>1. kept \in Seq(records)
      BY <1>7, <1>9
    <2>2. DOMAIN kept = 1..K
      BY <1>9
    <2> QED BY <1>7, <2>1, <2>2, LenProperties
  <1>11. e \in 0..Len(stream) /\ n \in e..Len(stream) /\ Len(stream) \in Nat
    BY <1>2, LenProperties
  <1>12. t \in Seq(Records) /\ Len(t) = K
    <2> HIDE DEF kept
    <2>1. \A k \in 1..K : stream[kept[k]] \in Records
      <3> SUFFICES ASSUME NEW k \in 1..K PROVE stream[kept[k]] \in Records
        OBVIOUS
      <3>1. kept[k] \in records
        BY <1>9
      <3>2. kept[k] \in 1..Len(stream)
        BY <1>4, <1>11, <3>1 DEF Remains
      <3> QED BY <3>2, ElementOfSeq
    <2>2. t = [k \in 1..K |-> stream[kept[k]]]
      BY <1>10
    <2>3. t \in [1..K -> Records]
      BY <2>1, <2>2
    <2> HIDE DEF t
    <2>4. t \in Seq(Records) /\ DOMAIN t = 1..K
      BY <1>7, <2>3
    <2> QED BY <1>7, <2>4, LenProperties
  <1> DEFINE w == Sweeps(t)
  <1>13. w \in Seq(SweepType) /\ all \in Seq(SweepType)
    BY <1>12, SweepsTyped
  <1>14. Resumes(w, all, d, kept)
    <2>1. Trims(t, stream, kept, records, K)
      <3>1. t = [k \in DOMAIN kept |-> stream[kept[k]]]
        OBVIOUS
      <3> HIDE DEF kept, t
      <3> QED BY <1>7, <1>9, <1>10, <3>1 DEF Trims
    <2>2. g[e].open = <<>> /\ Remains(records, stream, n, e)
      BY <1>2, <1>4
    <2> HIDE DEF kept, t
    <2>3. Resumes(Sweeps(t), Sweeps(stream), Len(g[e].sweeps), kept)
      BY <1>1, <1>11, <2>1, <2>2, RestIsRead
    <2> QED BY <1>3, <2>3
  <1>15. d \in Nat /\ (d > 0 => all[d].wave # "cs")
    <2>1. g[e].sweeps \in Seq(SweepType)
      BY <1>1, <1>11 DEF WholeReading, Reading
    <2> QED BY <1>2, <1>3, <2>1, LenProperties
  <1>16. Regular(all)
    OBVIOUS
  <1>17. Regular(w)
    <2> HIDE DEF w, all, kept
    <2> QED BY <1>13, <1>14, <1>15, <1>16, RegularRest
  <1>18. RecordSets(Seen(t, K)) = Elevations(w, Len(w))
    <2> HIDE DEF t
    <2> QED BY <1>12, <1>17, SecondParse
  <1>19. FoundLater(stream, n) = {{kept[k] : k \in x} : x \in Elevations(w, Len(w))}
    <2>1. FoundLater(stream, n) = {{kept[k] : k \in x} : x \in RecordSets(Seen(t, Len(kept)))}
      BY DEF FoundLater
    <2> QED BY <1>10, <1>18, <2>1
  <1>20. RecordSets(GroupsOf(CompleteSweeps(stream))) = Elevations(all, Len(all))
    <2> HIDE DEF all
    <2>1. Selected(all, {i \in DOMAIN all : all[i].whole}) = all
      BY <1>13, <1>16, AllComplete
    <2>2. CompleteSweeps(stream) = all
      BY <2>1 DEF CompleteSweeps, all
    <2> QED BY <1>13, <1>16, <2>2, RegularGroups
  <1>21. RecordSets(Seen(stream, n)) = Elevations(all, d)
    BY <1>2, <1>3
  <1>22. Elevations(all, Len(all))
           = Elevations(all, d) \cup {{kept[k] : k \in x} : x \in Elevations(w, Len(w))}
    <2> HIDE DEF all, w, kept
    <2> QED BY <1>13, <1>14, <1>15, ElevationsResume
  <1> HIDE DEF all, w, kept
  <1> QED BY <1>19, <1>20, <1>21, <1>22

-----------------------------------------------------------------------------
(***************************************************************************)
(* The samples.                                                            *)
(***************************************************************************)
\* The samples: a window of volumes, a listing of chunks, a record stream.
Windows == [kind : {"volumes"}, first : 1..Cycle, count : 1..Cycle - 1]
SampleListings == [kind : {"chunks"}, listing : {S \in SUBSET ListedChunks : IsFiniteSet(S)}]
Streams == [kind : {"stream"}, records : Seq(Records)]

SampleType == sample \in Windows \cup SampleListings \cup Streams

\* Every step of a sample leaves one.
LEMMA FirstSample == ParsingInit => SampleType
  <1> SUFFICES ASSUME ParsingInit PROVE SampleType
    OBVIOUS
  <1>1. CASE \E f \in 1..Cycle : sample = [kind |-> "volumes", first |-> f, count |-> 1]
    BY <1>1, ParsingAssumption DEF SampleType, Windows
  <1>2. CASE sample = [kind |-> "chunks", listing |-> {}]
    <2>1. IsFiniteSet({}) /\ {} \subseteq ListedChunks
      BY FS_EmptySet
    <2> QED BY <1>2, <2>1 DEF SampleType, SampleListings
  <1>3. CASE sample = [kind |-> "stream", records |-> <<>>]
    <2>1. <<>> \in Seq(Records)
      BY EmptySeq
    <2> QED BY <1>3, <2>1 DEF SampleType, Streams
  <1> QED BY <1>1, <1>2, <1>3 DEF ParsingInit

LEMMA WindowGrows ==
    ASSUME SampleType, NextVolume
    PROVE  SampleType'
  <1>1. sample \in Windows
    BY DEF SampleType, NextVolume, SampleListings, Streams
  <1>2. sample.count + 1 \in 1..Cycle - 1
    BY <1>1, ParsingAssumption DEF NextVolume, Windows
  <1>3. sample' = [sample EXCEPT !.count = sample.count + 1]
    BY DEF NextVolume
  <1>4. sample' \in Windows
    BY <1>1, <1>2, <1>3 DEF Windows
  <1> QED BY <1>4 DEF SampleType

LEMMA ListingGrows ==
    ASSUME SampleType, NextChunk
    PROVE  SampleType'
  <1>1. sample \in SampleListings
    BY DEF SampleType, NextChunk, Windows, Streams
  <1>2. PICK n \in 1..MaxChunks, k \in {"E", "I", "S"} :
           sample' = [sample EXCEPT !.listing = @ \cup {[number |-> n, kind |-> k]}]
    BY DEF NextChunk
  <1>3. PICK c \in ListedChunks : c = [number |-> n, kind |-> k]
    <2>1. [number |-> n, kind |-> k] \in ListedChunks
      BY <1>2, ParsingAssumption DEF ListedChunks
    <2> QED BY <2>1
  <1>4. sample.listing \subseteq ListedChunks /\ IsFiniteSet(sample.listing)
    BY <1>1 DEF SampleListings
  <1>5. sample.listing \cup {c} \subseteq ListedChunks /\ IsFiniteSet(sample.listing \cup {c})
    BY <1>4, FS_AddElement
  <1>6. sample' = [sample EXCEPT !.listing = sample.listing \cup {c}]
    BY <1>2, <1>3
  <1>7. sample' \in SampleListings
    BY <1>1, <1>5, <1>6 DEF SampleListings
  <1> QED BY <1>7 DEF SampleType

LEMMA StreamGrows ==
    ASSUME SampleType, NextRecord
    PROVE  SampleType'
  <1>1. sample \in Streams
    BY DEF SampleType, NextRecord, Windows, SampleListings
  <1>2. PICK r \in Records : sample' = [sample EXCEPT !.records = Append(@, r)]
    BY DEF NextRecord
  <1>3. Append(sample.records, r) \in Seq(Records)
    BY <1>1, AppendProperties DEF Streams
  <1>4. sample' \in Streams
    BY <1>1, <1>2, <1>3 DEF Streams
  <1> QED BY <1>4 DEF SampleType

\* What a sample of a kind is.
LEMMA SampleIs ==
    ASSUME SampleType
    PROVE  /\ sample.kind = "volumes" => sample.first \in 1..Cycle /\ sample.count \in 1..Cycle - 1
           /\ sample.kind = "chunks" =>
                sample.listing \in SUBSET ListedChunks /\ IsFiniteSet(sample.listing)
           /\ sample.kind = "stream" => sample.records \in Seq(Records)
  BY DEF SampleType, Windows, SampleListings, Streams

\* Every sample is treated as it should be.
LEMMA SampleIsSound ==
    ASSUME SampleType
    PROVE  ParsingIsSound
  <1>1. NewestVolumeFirst
    <2> SUFFICES ASSUME sample.kind = "volumes"
                 PROVE  LET id(k) == ((sample.first + k - 2) % Cycle) + 1
                            n == sample.count
                        IN  OrderRecent({id(k) : k \in 1..n}) = [k \in 1..n |-> id(n + 1 - k)]
      BY DEF NewestVolumeFirst
    <2>1. PICK f \in 1..Cycle, n \in 1..Cycle - 1 :
             f = sample.first /\ n = sample.count
      BY SampleIs
    <2>2. LET id(k) == ((f + k - 2) % Cycle) + 1
          IN  OrderRecent({id(k) : k \in 1..n}) = [k \in 1..n |-> id(n + 1 - k)]
      BY <2>1, WindowInOrder
    <2> QED BY <2>1, <2>2
  <1>2. ChunksAreContiguous
    <2> SUFFICES ASSUME sample.kind = "chunks"
                 PROVE  LET numbers == {c.number : c \in sample.listing}
                            run == {n \in numbers : 1..n \subseteq numbers}
                            used == RequiredChunks(sample.listing)
                        IN  /\ Len(used) = (IF Cardinality(run) < FirstChunks THEN 0
                                            ELSE Cardinality(run))
                            /\ \A i \in DOMAIN used :
                                 used[i].number = i /\ used[i] \in sample.listing
                            /\ used # <<>> /\ [number |-> 1, kind |-> "S"] \in sample.listing =>
                                 used[1].kind = "S"
      BY DEF ChunksAreContiguous
    <2>1. PICK listing \in SUBSET ListedChunks : listing = sample.listing /\ IsFiniteSet(listing)
      BY SampleIs
    <2> QED BY <2>1, ContiguousListing
  <1>3. TrimmingIsHarmless
    <2> SUFFICES ASSUME sample.kind = "stream", Regular(Sweeps(sample.records)),
                        NEW n \in DOMAIN sample.records
                 PROVE  RecordSets(Seen(sample.records, n)) \cup FoundLater(sample.records, n)
                          = RecordSets(GroupsOf(CompleteSweeps(sample.records)))
      BY DEF TrimmingIsHarmless
    <2>1. sample.records \in Seq(Records)
      BY SampleIs
    <2>2. n \in 0..Len(sample.records)
      BY <2>1, LenProperties
    <2> QED BY <2>1, <2>2, TrimmedOnce
  <1> QED BY <1>1, <1>2, <1>3 DEF ParsingIsSound

\* For a bucket of any size, a listing of any chunks and a stream of any length:
\* the newest volume comes first, the chunks used are those up to the first hole,
\* and a stream of a regular pattern trimmed after any record goes on as if it had
\* been parsed at once (s3_chunks.py order_recent_volume_ids and
\* required_volume_chunks; parser.py _walk_records and parse_and_export;
\* grouping.py _group_by_waveform).
THEOREM ParsingIsRight == ParsingSpec => []ParsingIsSound
  <1>1. ParsingInit => SampleType
    BY FirstSample
  <1>2. SampleType /\ [ParsingNext]_sample => SampleType'
    <2> SUFFICES ASSUME SampleType, [ParsingNext]_sample PROVE SampleType'
      OBVIOUS
    <2>1. CASE NextVolume
      BY <2>1, WindowGrows
    <2>2. CASE NextChunk
      BY <2>2, ListingGrows
    <2>3. CASE NextRecord
      BY <2>3, StreamGrows
    <2>4. CASE UNCHANGED sample
      BY <2>4 DEF SampleType
    <2> QED BY <2>1, <2>2, <2>3, <2>4 DEF ParsingNext
  <1>3. SampleType => ParsingIsSound
    BY SampleIsSound
  <1> QED BY <1>1, <1>2, <1>3, PTL DEF ParsingSpec

=============================================================================
