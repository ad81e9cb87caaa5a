--------------------------- MODULE InsightsPageProofs --------------------------
(***************************************************************************)
(* Proofs about InsightsPage, for any number of links and clicks: what is  *)
(* loaded, and that the pie is whole and the pictures agree on colours.    *)
(*                                                                         *)
(* What is derived from the links is computed by folds and by ranking.  A  *)
(* fold is followed through the prefixes of its sequence; a total is the   *)
(* size of a pile with one item for each click, which no reordering        *)
(* changes; and a rank is a number of links, which leaving links without   *)
(* clicks out does not change for the others.                              *)
(***************************************************************************)
EXTENDS InsightsPage, SequenceTheorems, FiniteSetTheorems,
        WellFoundedInduction, TLAPS

----------------------------------------------------------------------------
(* Induction, and folds.                                                   *)

\* What holds of 0 and of the successor of each number up to n holds up to n.
LEMMA UpTo ==
    ASSUME NEW n \in Nat, NEW T, 0 \in T,
           \A k \in 0..(n - 1) : k \in T => k + 1 \in T
    PROVE  \A k \in 0..n : k \in T
<1> DEFINE Bad == {k \in Nat : k <= n /\ k \notin T}
<1>1. SUFFICES Bad = {}
    OBVIOUS
<1>2. SUFFICES ASSUME Bad # {} PROVE FALSE
    OBVIOUS
<1>3. PICK k \in Bad : \A j \in Bad : ~(<<j, k>> \in OpToRel(<, Nat))
    <2>1. Bad \subseteq Nat
        OBVIOUS
    <2> HIDE DEF Bad
    <2> QED BY <1>2, <2>1, NatLessThanWellFounded, WFMin
<1>4. k \in Nat /\ k <= n /\ k \notin T /\ k # 0
    OBVIOUS
<1>5. k - 1 \in 0..(n - 1) /\ k - 1 \notin T
    BY <1>4
<1>6. k - 1 \in Bad
    BY <1>4, <1>5
<1>7. <<k - 1, k>> \in OpToRel(<, Nat)
    BY <1>4 DEF OpToRel
<1> QED BY <1>3, <1>6, <1>7

LEMMA MaxFacts ==
    ASSUME NEW k \in Nat, NEW S \in SUBSET (1..(k + 1)), k + 1 \in S
    PROVE  Max(S) = k + 1
<1>1. \A y \in S : k + 1 >= y
    OBVIOUS
<1>2. \A x \in S : (\A y \in S : x >= y) => x = k + 1
    OBVIOUS
<1> QED BY <1>1, <1>2 DEF Max

\* A fold over the places 1..n of a sequence, as the community modules define
\* it, from the last place down: `step' takes what the places before give.
Folds(f, base, step, n) ==
    \A S \in SUBSET (1..n) :
        f[S] = IF S = {} THEN base
               ELSE step[<<f[S \ {Max(S)}], Max(S)>>]

\* There is a function that folds.
LEMMA FoldExists ==
    ASSUME NEW V, NEW base \in V, NEW n \in Nat,
           NEW step \in [V \X (1..n) -> V]
    PROVE  \E f \in [SUBSET (1..n) -> V] : Folds(f, base, step, n)
<1> DEFINE T == {k \in 0..n : \E f \in [SUBSET (1..k) -> V] : Folds(f, base, step, k)}
<1>1. 0 \in T
    <2> DEFINE f == [S \in SUBSET (1..0) |-> base]
    <2>1. f \in [SUBSET (1..0) -> V]
        OBVIOUS
    <2>2. \A S \in SUBSET (1..0) : S = {}
        OBVIOUS
    <2>3. Folds(f, base, step, 0)
        BY <2>2 DEF Folds
    <2> QED BY <2>1, <2>3
<1>2. ASSUME NEW k \in 0..(n - 1), k \in T PROVE k + 1 \in T
    <2>1. PICK f \in [SUBSET (1..k) -> V] : Folds(f, base, step, k)
        BY <1>2
    <2> DEFINE g == [S \in SUBSET (1..(k + 1)) |->
                        IF k + 1 \in S
                        THEN step[<<f[S \ {k + 1}], k + 1>>] ELSE f[S]]
    <2>2. \A S \in SUBSET (1..(k + 1)) :
            /\ k + 1 \in S => S \ {k + 1} \in SUBSET (1..k)
            /\ k + 1 \notin S => S \in SUBSET (1..k)
        BY <1>2
    <2>3. g \in [SUBSET (1..(k + 1)) -> V]
        <3>1. k + 1 \in 1..n
            BY <1>2
        <3> QED BY <2>2, <3>1
    <2>4. \A S \in SUBSET (1..k) : S \in SUBSET (1..(k + 1)) /\ g[S] = f[S]
        BY <1>2
    <2>5. ASSUME NEW S \in SUBSET (1..(k + 1))
          PROVE  g[S] = IF S = {} THEN base
                        ELSE step[<<g[S \ {Max(S)}], Max(S)>>]
        <3>1. CASE k + 1 \in S
            <4>1. Max(S) = k + 1
                BY <1>2, <3>1, MaxFacts
            <4>2. S \ {k + 1} \in SUBSET (1..k)
                BY <2>2, <3>1
            <4>3. g[S] = step[<<f[S \ {k + 1}], k + 1>>]
                BY <3>1
            <4> HIDE DEF g
            <4> QED BY <2>4, <3>1, <4>1, <4>2, <4>3
        <3>2. CASE k + 1 \notin S
            <4>1. S \in SUBSET (1..k) /\ S \ {Max(S)} \in SUBSET (1..k)
                BY <2>2, <3>2
            <4> HIDE DEF g
            <4> QED BY <2>1, <2>4, <4>1 DEF Folds
        <3> QED BY <3>1, <3>2
    <2>6. Folds(g, base, step, k + 1)
        <3> HIDE DEF g
        <3> QED BY <2>5 DEF Folds
    <2> HIDE DEF g
    <2> QED BY <1>2, <2>3, <2>6
<1>3. \A k \in 0..n : k \in T
    <2> HIDE DEF T
    <2> QED BY <1>1, <1>2, UpTo
<1>4. n \in T
    <2> HIDE DEF T
    <2> QED BY <1>3
<1> QED BY <1>4


\* A set of places has a last one.
LEMMA MaxIn ==
    ASSUME NEW n \in Nat, NEW S \in SUBSET (1..n), S # {}
    PROVE  Max(S) \in S
<1> DEFINE HasLast(R) == \E x \in R : \A y \in R : x >= y
           T == {k \in 0..n : \A R \in SUBSET (1..k) : R # {} => HasLast(R)}
<1>1. 0 \in T
    <2>1. \A R \in SUBSET (1..0) : R = {}
        OBVIOUS
    <2>2. 0 \in 0..n
        OBVIOUS
    <2> HIDE DEF HasLast
    <2> QED BY <2>1, <2>2
<1>2. ASSUME NEW k \in 0..(n - 1), k \in T PROVE k + 1 \in T
    <2>1. ASSUME NEW R \in SUBSET (1..(k + 1)), R # {} PROVE HasLast(R)
        <3>1. CASE k + 1 \in R
            BY <3>1
        <3>2. CASE k + 1 \notin R
            <4>1. R \in SUBSET (1..k)
                BY <3>2
            <4> QED BY <1>2, <2>1, <4>1
        <3> QED BY <3>1, <3>2
    <2> QED BY <1>2, <2>1
<1>3. n \in T
    <2> HIDE DEF T
    <2> QED BY <1>1, <1>2, UpTo
<1>4. HasLast(S)
    BY <1>3
<1> QED BY <1>4 DEF Max

----------------------------------------------------------------------------
(* Totals.                                                                 *)

\* The partial sums of the first n members of a.
Sums(g, a, n) ==
    /\ n \in Nat /\ a \in [1..n -> Nat]
    /\ g \in [0..n -> Nat] /\ g[0] = 0
    /\ \A k \in 1..n : g[k] = g[k - 1] + a[k]

\* A fold that adds up computes partial sums, whatever iter is chosen for it.
LEMMA AddingFolds ==
    ASSUME NEW n \in Nat, NEW a \in [1..n -> Nat]
    PROVE  /\ \E f : f = [S \in SUBSET (1..n) |->
                            IF S = {} THEN 0 ELSE f[S \ {Max(S)}] + a[Max(S)]]
           /\ \A f : f = [S \in SUBSET (1..n) |->
                            IF S = {} THEN 0 ELSE f[S \ {Max(S)}] + a[Max(S)]]
                => Sums([k \in 0..n |-> f[1..k]], a, n)
<1> DEFINE step == [p \in Nat \X (1..n) |-> p[1] + a[p[2]]]
<1>1. step \in [Nat \X (1..n) -> Nat]
    OBVIOUS
<1>2. \A v \in Nat, i \in 1..n : step[<<v, i>>] = v + a[i]
    OBVIOUS
<1> HIDE DEF step
<1>3. PICK f \in [SUBSET (1..n) -> Nat] : Folds(f, 0, step, n)
    BY <1>1, FoldExists
<1>4. ASSUME NEW S \in SUBSET (1..n)
      PROVE  f[S] = IF S = {} THEN 0 ELSE f[S \ {Max(S)}] + a[Max(S)]
    <2>1. CASE S = {}
        BY <1>3, <2>1 DEF Folds
    <2>2. CASE S # {}
        <3>1. Max(S) \in 1..n /\ S \ {Max(S)} \in SUBSET (1..n)
            BY <2>2, MaxIn
        <3>2. f[S] = step[<<f[S \ {Max(S)}], Max(S)>>]
            BY <1>3, <2>2 DEF Folds
        <3> QED BY <1>2, <2>2, <3>1, <3>2
    <2> QED BY <2>1, <2>2
<1>5. f = [S \in SUBSET (1..n) |->
            IF S = {} THEN 0 ELSE f[S \ {Max(S)}] + a[Max(S)]]
    BY <1>4
<1>6. ASSUME NEW h,
             h = [S \in SUBSET (1..n) |->
                    IF S = {} THEN 0 ELSE h[S \ {Max(S)}] + a[Max(S)]]
      PROVE  Sums([k \in 0..n |-> h[1..k]], a, n)
    <2>1. ASSUME NEW S \in SUBSET (1..n)
          PROVE  h[S] = IF S = {} THEN 0 ELSE h[S \ {Max(S)}] + a[Max(S)]
        BY <1>6
    <2>2. h[1..0] = 0
        <3>1. 1..0 = {} /\ {} \in SUBSET (1..n)
            OBVIOUS
        <3> QED BY <2>1, <3>1
    <2>3. ASSUME NEW j \in 0..(n - 1) PROVE h[1..(j + 1)] = h[1..j] + a[j + 1]
        <3>1. j \in Nat /\ j + 1 \in 1..(j + 1)
            OBVIOUS
        <3>2. 1..(j + 1) \in SUBSET (1..n)
            OBVIOUS
        <3>3. 1..(j + 1) # {}
            BY <3>1
        <3>4. (1..(j + 1)) \ {j + 1} = 1..j
            OBVIOUS
        <3>5. Max(1..(j + 1)) = j + 1
            <4>1. 1..(j + 1) \in SUBSET (1..(j + 1))
                OBVIOUS
            <4> QED BY <3>1, <4>1, MaxFacts
        <3> QED BY <2>1, <3>2, <3>3, <3>4, <3>5
    <2> DEFINE T == {k \in 0..n : h[1..k] \in Nat}
    <2>4. 0 \in T
        BY <2>2
    <2>5. ASSUME NEW j \in 0..(n - 1), j \in T PROVE j + 1 \in T
        <3>1. a[j + 1] \in Nat /\ h[1..j] \in Nat /\ j + 1 \in 0..n
            BY <2>5
        <3> QED BY <2>3, <3>1
    <2>6. \A k \in 0..n : k \in T
        <3> HIDE DEF T
        <3> QED BY <2>4, <2>5, UpTo
    <2> DEFINE g == [k \in 0..n |-> h[1..k]]
    <2>7. g \in [0..n -> Nat] /\ g[0] = 0
        BY <2>2, <2>6
    <2>8. ASSUME NEW k \in 1..n PROVE g[k] = g[k - 1] + a[k]
        <3>1. k - 1 \in 0..(n - 1) /\ (k - 1) + 1 = k /\ k \in 0..n /\ k - 1 \in 0..n
            OBVIOUS
        <3>2. h[1..k] = h[1..(k - 1)] + a[k]
            BY <2>3, <3>1
        <3> QED BY <3>1, <3>2
    <2> HIDE DEF g
    <2>9. Sums(g, a, n)
        BY <2>7, <2>8 DEF Sums
    <2> QED BY <2>9 DEF g
<1> QED BY <1>5, <1>6

LEMMA ClicksOf ==
    ASSUME clicksSeen \in Seq(Nat), NEW s \in Seq(DOMAIN clicksSeen),
           NEW i \in 1..Len(s)
    PROVE  s[i] \in DOMAIN clicksSeen /\ clicksSeen[s[i]] \in Nat
<1>1. s[i] \in DOMAIN clicksSeen
    OBVIOUS
<1> DEFINE u == s[i]
<1>2. u \in DOMAIN clicksSeen
    BY <1>1
<1> HIDE DEF u
<1>3. clicksSeen[u] \in Nat
    BY <1>2
<1> QED BY <1>1, <1>3 DEF u

\* The total of the clicks of a sequence of links is a partial sum.
LEMMA TotalSums ==
    ASSUME clicksSeen \in Seq(Nat), NEW s \in Seq(DOMAIN clicksSeen)
    PROVE  \E g : /\ Sums(g, [i \in 1..Len(s) |-> clicksSeen[s[i]]], Len(s))
                  /\ Total(s) = g[Len(s)]
<1> DEFINE n == Len(s)
           a == [i \in 1..n |-> clicksSeen[s[i]]]
           P(f) == f = [S \in SUBSET DOMAIN s |->
                            IF S = {} THEN 0
                            ELSE f[S \ {Max(S)}] + clicksSeen[s[Max(S)]]]
           it == CHOOSE f : P(f)
           g == [k \in 0..n |-> it[1..k]]
<1>1. n \in Nat /\ DOMAIN s = 1..n /\ a \in [1..n -> Nat]
    <2>1. n \in Nat /\ DOMAIN s = 1..n
        OBVIOUS
    <2>2. \A i \in 1..n : clicksSeen[s[i]] \in Nat
        BY ClicksOf
    <2> QED BY <2>1, <2>2
<1>2. ASSUME NEW f
      PROVE  P(f) <=> f = [S \in SUBSET (1..n) |->
                            IF S = {} THEN 0 ELSE f[S \ {Max(S)}] + a[Max(S)]]
    <2>1. \A S \in SUBSET (1..n) : S # {} => a[Max(S)] = clicksSeen[s[Max(S)]]
        <3>1. \A S \in SUBSET (1..n) : S # {} => Max(S) \in 1..n
            BY <1>1, MaxIn
        <3> QED BY <3>1
    <2> HIDE DEF a, n
    <2> QED BY <1>1, <2>1
<1>3. \E f : P(f)
    <2> HIDE DEF a, n, P
    <2>1. \E f : f = [S \in SUBSET (1..n) |->
                        IF S = {} THEN 0 ELSE f[S \ {Max(S)}] + a[Max(S)]]
        BY <1>1, AddingFolds
    <2> QED BY <1>2, <2>1
<1>4. P(it)
    <2> HIDE DEF P
    <2> QED BY <1>3
<1>5. Sums(g, a, n)
    <2> HIDE DEF a, n, P, it
    <2> QED BY <1>1, <1>2, <1>4, AddingFolds
<1>6. Total(s) = it[DOMAIN s]
    BY DEF Total, FoldLeft, MapThenFoldSet
<1>7. Total(s) = g[n]
    BY <1>1, <1>6
<1> QED BY <1>5, <1>7

\* The first l members of b are those of a after the first k.
GoesOn(a, k, b, l) == \A i \in 1..l : b[i] = a[k + i]

\* Equal numbers have equal partial sums, and they go on from where others end.
LEMMA SumsContinue ==
    ASSUME NEW n, NEW a, NEW g, Sums(g, a, n),
           NEW m, NEW b, NEW h, Sums(h, b, m),
           NEW k, NEW l, NEW e, GoesOn(a, k, b, l),
           k \in Nat, l \in 0..m, e \in 0..n, e = k + l
    PROVE  g[e] = g[k] + h[l]
<1> DEFINE T == {j \in 0..l : g[k + j] = g[k] + h[j]}
<1>0. /\ n \in Nat /\ m \in Nat
      /\ a \in [1..n -> Nat] /\ b \in [1..m -> Nat]
      /\ \A i \in 0..n : g[i] \in Nat
      /\ \A i \in 0..m : h[i] \in Nat
      /\ \A i \in 1..n : g[i] = g[i - 1] + a[i]
      /\ \A i \in 1..m : h[i] = h[i - 1] + b[i]
      /\ h[0] = 0
    BY DEF Sums
<1>bound. k + l <= n /\ l \in Nat
    BY <1>0
<1>1. 0 \in T
    <2>1. k + 0 = k /\ k \in 0..n /\ 0 \in 0..l
        BY <1>0, <1>bound
    <2> QED BY <1>0, <2>1
<1>2. ASSUME NEW j \in 0..(l - 1), j \in T PROVE j + 1 \in T
    <2>1. /\ j + 1 \in 1..m /\ j + 1 \in 1..l /\ k + (j + 1) \in 1..n
          /\ (j + 1) - 1 = j /\ (k + (j + 1)) - 1 = k + j
          /\ j \in 0..m /\ k + j \in 0..n /\ k \in 0..n
        BY <1>0, <1>bound
    <2>2. g[k + (j + 1)] = g[k + j] + a[k + (j + 1)]
        BY <1>0, <2>1
    <2>3. h[j + 1] = h[j] + b[j + 1]
        BY <1>0, <2>1
    <2>4. b[j + 1] = a[k + (j + 1)]
        BY <2>1 DEF GoesOn
    <2>5. g[k + j] = g[k] + h[j]
        BY <1>2
    <2>6. /\ g[k] \in Nat /\ h[j] \in Nat /\ h[j + 1] \in Nat
          /\ g[k + (j + 1)] \in Nat /\ g[k + j] \in Nat
          /\ b[j + 1] \in Nat
        <3>1. j + 1 \in 0..m /\ k + (j + 1) \in 0..n
            BY <2>1
        <3> QED BY <1>0, <2>1, <3>1
    <2>7. g[k + (j + 1)] = g[k] + h[j + 1]
        <3> DEFINE x == g[k]
                   y == h[j]
                   z == b[j + 1]
                   u == h[j + 1]
                   v == g[k + j]
                   w == g[k + (j + 1)]
        <3>1. {x, y, z, u, v, w} \subseteq Nat
            BY <2>6
        <3>2. w = v + z /\ v = x + y /\ u = y + z
            BY <2>2, <2>3, <2>4, <2>5
        <3> HIDE DEF x, y, z, u, v, w
        <3>3. w = x + u
            BY <3>1, <3>2
        <3> QED BY <3>3 DEF w, x, u
    <2>8. j + 1 \in 0..l
        OBVIOUS
    <2> QED BY <2>7, <2>8
<1>3. l \in T
    <2>1. \A j \in 0..l : j \in T
        <3> HIDE DEF T
        <3> QED BY <1>1, <1>2, <1>bound, UpTo
    <2> QED BY <2>1
<1> QED BY <1>3

\* The first l members of b are those of a.
Begins(a, b, l) == \A i \in 1..l : b[i] = a[i]

LEMMA SumsBegin ==
    ASSUME NEW n, NEW a, NEW g, Sums(g, a, n),
           NEW m, NEW b, NEW h, Sums(h, b, m),
           NEW l, Begins(a, b, l), l \in 0..m, l \in 0..n
    PROVE  g[l] = h[l]
<1>1. ASSUME NEW z \in Nat, z = 0 PROVE g[l] = g[z] + h[l]
    <2>1. l = z + l /\ l \in 0..n /\ l \in 0..m /\ z \in Nat
        BY <1>1
    <2>2. \A i \in 1..l : z + i = i
        BY <1>1
    <2>3. GoesOn(a, z, b, l)
        BY <2>2 DEF GoesOn, Begins
    <2> QED BY <2>1, <2>3, SumsContinue
<1>2. g[0] = 0 /\ h[l] \in Nat
    BY DEF Sums
<1>3. g[l] = g[0] + h[l]
    BY <1>1
<1> QED BY <1>2, <1>3

\* One item for each click of the links in R.
ClickPile(R) ==
    {p \in R \X Nat : 1 <= p[2] /\ p[2] <= clicksSeen[p[1]]}

\* No link is twice in s.
Distinct(s) == \A i, j \in 1..Len(s) : s[i] = s[j] => i = j

\* A link added to others adds as many items as it has clicks.
LEMMA PileGrows ==
    ASSUME NEW R, NEW u, u \notin R, clicksSeen[u] \in Nat,
           IsFiniteSet(ClickPile(R))
    PROVE  /\ IsFiniteSet(ClickPile(R \cup {u}))
           /\ Cardinality(ClickPile(R \cup {u}))
                = Cardinality(ClickPile(R)) + clicksSeen[u]
<1> DEFINE New == {u} \X (1..clicksSeen[u])
<1>1. ClickPile(R \cup {u}) = ClickPile(R) \cup New
    <2>1. ASSUME NEW p \in ClickPile(R \cup {u}) PROVE p \in ClickPile(R) \cup New
        BY DEF ClickPile
    <2>2. ASSUME NEW p \in ClickPile(R) PROVE p \in ClickPile(R \cup {u})
        BY DEF ClickPile
    <2>3. ASSUME NEW p \in New PROVE p \in ClickPile(R \cup {u})
        BY DEF ClickPile
    <2> QED BY <2>1, <2>2, <2>3
<1>2. ClickPile(R) \cap New = {}
    BY DEF ClickPile
<1>3. IsFiniteSet(1..clicksSeen[u]) /\ Cardinality(1..clicksSeen[u]) = clicksSeen[u]
    <2>1. 1 \in Int /\ clicksSeen[u] \in Int
        OBVIOUS
    <2>2. /\ IsFiniteSet(1..clicksSeen[u])
          /\ Cardinality(1..clicksSeen[u])
                = IF 1 > clicksSeen[u] THEN 0 ELSE clicksSeen[u] - 1 + 1
        BY <2>1, FS_Interval
    <2> QED BY <2>2
<1>4. IsFiniteSet({u}) /\ Cardinality({u}) = 1
    BY FS_Singleton
<1>5. IsFiniteSet(New) /\ Cardinality(New) = clicksSeen[u]
    <2>1. IsFiniteSet(New) /\ Cardinality(New) = 1 * clicksSeen[u]
        <3> DEFINE S == {u}
                   N == 1..clicksSeen[u]
        <3>1. /\ IsFiniteSet(S) /\ Cardinality(S) = 1
              /\ IsFiniteSet(N) /\ Cardinality(N) = clicksSeen[u]
            BY <1>3, <1>4
        <3> HIDE DEF S, N
        <3>2. IsFiniteSet(S \X N) /\ Cardinality(S \X N) = Cardinality(S) * Cardinality(N)
            BY <3>1, FS_Product
        <3>3. New = S \X N
            BY DEF S, N
        <3> HIDE DEF New
        <3> QED BY <3>1, <3>2, <3>3
    <2> QED BY <2>1
<1> HIDE DEF New
<1>6. /\ IsFiniteSet(ClickPile(R) \cup New)
      /\ Cardinality(ClickPile(R) \cup New)
            = Cardinality(ClickPile(R)) + Cardinality(New)
                - Cardinality(ClickPile(R) \cap New)
    BY <1>5, FS_Union
<1>7. Cardinality(ClickPile(R) \cap New) = 0
    BY <1>2, FS_EmptySet
<1>8. Cardinality(ClickPile(R)) \in Nat
    BY FS_CardinalityType
<1>9. Cardinality(ClickPile(R) \cup New) = Cardinality(ClickPile(R)) + clicksSeen[u]
    BY <1>5, <1>6, <1>7, <1>8
<1> QED BY <1>1, <1>6, <1>9

\* The total of distinct links is the size of the pile of their clicks.
LEMMA TotalIsPile ==
    ASSUME clicksSeen \in Seq(Nat), NEW s \in Seq(DOMAIN clicksSeen), Distinct(s)
    PROVE  /\ IsFiniteSet(ClickPile(Range(s)))
           /\ Total(s) = Cardinality(ClickPile(Range(s)))
<1> DEFINE n == Len(s)
           a == [i \in 1..n |-> clicksSeen[s[i]]]
           First(k) == {s[i] : i \in 1..k}
<1>1. PICK g : Sums(g, a, n) /\ Total(s) = g[n]
    BY TotalSums
<1> DEFINE T == {k \in 0..n : /\ IsFiniteSet(ClickPile(First(k)))
                              /\ Cardinality(ClickPile(First(k))) = g[k]}
<1>2. 0 \in T
    <2>1. First(0) = {}
        OBVIOUS
    <2>2. ClickPile(First(0)) = {}
        BY <2>1 DEF ClickPile
    <2>3. g[0] = 0 /\ 0 \in 0..n
        BY <1>1 DEF Sums
    <2> HIDE DEF First
    <2> QED BY <2>2, <2>3, FS_EmptySet
<1>3. ASSUME NEW k \in 0..(n - 1), k \in T PROVE k + 1 \in T
    <2>1. k + 1 \in 1..n /\ k + 1 \in 0..n /\ (k + 1) - 1 = k
        OBVIOUS
    <2>2. s[k + 1] \notin First(k)
        BY <2>1 DEF Distinct
    <2>3. First(k + 1) = First(k) \cup {s[k + 1]}
        <3>1. \A i : i \in 1..(k + 1) <=> i \in 1..k \/ i = k + 1
            OBVIOUS
        <3> QED BY <3>1
    <2>4. clicksSeen[s[k + 1]] \in Nat
        <3>1. k + 1 \in 1..Len(s)
            BY <2>1
        <3> QED BY <3>1, ClicksOf
    <2>5. g[k + 1] = g[k] + clicksSeen[s[k + 1]]
        BY <1>1, <2>1 DEF Sums
    <2>6. IsFiniteSet(ClickPile(First(k))) /\ Cardinality(ClickPile(First(k))) = g[k]
        BY <1>3
    <2> DEFINE u == s[k + 1]
    <2> HIDE DEF First, a, n, T
    <2>7. /\ IsFiniteSet(ClickPile(First(k) \cup {u}))
          /\ Cardinality(ClickPile(First(k) \cup {u}))
                = Cardinality(ClickPile(First(k))) + clicksSeen[u]
        <3>1. u \notin First(k) /\ clicksSeen[u] \in Nat
            BY <2>2, <2>4
        <3> HIDE DEF u
        <3> QED BY <2>6, <3>1, PileGrows
    <2> QED BY <2>1, <2>3, <2>5, <2>6, <2>7 DEF T
<1>4. \A k \in 0..n : k \in T
    <2>1. n \in Nat
        OBVIOUS
    <2> HIDE DEF T, n
    <2> QED BY <1>2, <1>3, <2>1, UpTo
<1>5. n \in T
    <2>1. n \in 0..n
        OBVIOUS
    <2> HIDE DEF T, n
    <2> QED BY <1>4, <2>1
<1>6. Range(s) = First(n)
    <2>1. DOMAIN s = 1..n
        OBVIOUS
    <2> HIDE DEF n
    <2> QED BY <2>1 DEF Range
<1> QED BY <1>1, <1>5, <1>6

----------------------------------------------------------------------------
(* The links with clicks.                                                  *)

\* Newer links come first.
Falling(s) == \A i, j \in 1..Len(s) : i < j => s[i] > s[j]

LEMMA FallingIsDistinct ==
    ASSUME NEW s \in Seq(Nat), Falling(s)
    PROVE  Distinct(s)
<1> SUFFICES ASSUME NEW i \in 1..Len(s), NEW j \in 1..Len(s), s[i] = s[j]
             PROVE  i = j
    BY DEF Distinct
<1>1. s[i] \in Nat /\ s[j] \in Nat /\ i \in Nat /\ j \in Nat
    OBVIOUS
<1> QED BY <1>1 DEF Falling

LEMMA AppendFalls ==
    ASSUME NEW D \in SUBSET Nat, NEW s \in Seq(D), Falling(s),
           NEW u \in D, \A v \in Range(s) : v > u
    PROVE  /\ Append(s, u) \in Seq(D) /\ Falling(Append(s, u))
           /\ Range(Append(s, u)) = Range(s) \cup {u}
<1> DEFINE t == Append(s, u)
<1>1. /\ t \in Seq(D) /\ Len(s) \in Nat /\ Len(t) = Len(s) + 1
      /\ DOMAIN s = 1..Len(s) /\ DOMAIN t = 1..Len(t)
      /\ \A i \in 1..Len(s) : t[i] = s[i]
      /\ t[Len(s) + 1] = u
    OBVIOUS
<1> HIDE DEF t
<1>2. Falling(t)
    <2>1. ASSUME NEW i \in 1..Len(t), NEW j \in 1..Len(t), i < j
          PROVE  t[i] > t[j]
        <3>1. i \in 1..Len(s) /\ s[i] \in Range(s)
            BY <1>1, <2>1 DEF Range
        <3>2. CASE j = Len(s) + 1
            BY <1>1, <3>1, <3>2
        <3>3. CASE j # Len(s) + 1
            <4>1. j \in 1..Len(s)
                BY <1>1, <3>3
            <4> QED BY <1>1, <2>1, <3>1, <4>1 DEF Falling
        <3> QED BY <3>2, <3>3
    <2> QED BY <2>1 DEF Falling
<1>3. Range(t) = Range(s) \cup {u}
    <2>1. \A i : i \in 1..Len(t) <=> i \in 1..Len(s) \/ i = Len(s) + 1
        BY <1>1
    <2> QED BY <1>1, <2>1 DEF Range
<1> QED BY <1>1, <1>2, <1>3 DEF t

\* Exactly the links with clicks are kept, in their order.
LEMMA ActiveLinksAre ==
    ASSUME clicksSeen \in Seq(Nat), urls \in Seq(DOMAIN clicksSeen),
           Falling(urls)
    PROVE  /\ ActiveLinks \in Seq(DOMAIN clicksSeen)
           /\ Falling(ActiveLinks)
           /\ Range(ActiveLinks) = {u \in Range(urls) : Clicked(u)}
<1> DEFINE n == Len(urls)
           D == DOMAIN clicksSeen
           First(k) == {urls[i] : i \in 1..k}
           Wanted(k) == {u \in First(k) : Clicked(u)}
           step == [p \in Seq(D) \X (1..n) |->
                        IF Clicked(urls[p[2]]) THEN Append(p[1], urls[p[2]]) ELSE p[1]]
           P(f) == f = [S \in SUBSET DOMAIN urls |->
                            IF S = {} THEN <<>>
                            ELSE IF Clicked(urls[Max(S)])
                                 THEN Append(f[S \ {Max(S)}], urls[Max(S)])
                                 ELSE f[S \ {Max(S)}]]
           it == CHOOSE f : P(f)
<1>1. /\ n \in Nat /\ DOMAIN urls = 1..n /\ D \in SUBSET Nat
      /\ \A i \in 1..n : urls[i] \in D
    OBVIOUS
<1>2. step \in [Seq(D) \X (1..n) -> Seq(D)]
    <2> HIDE DEF n, D
    <2>1. ASSUME NEW p \in Seq(D) \X (1..n)
          PROVE  (IF Clicked(urls[p[2]]) THEN Append(p[1], urls[p[2]]) ELSE p[1])
                    \in Seq(D)
        <3>1. p[1] \in Seq(D) /\ urls[p[2]] \in D
            BY <1>1
        <3> QED BY <3>1
    <2> QED BY <2>1
<1>3. PICK f \in [SUBSET (1..n) -> Seq(D)] : Folds(f, <<>>, step, n)
    <2> HIDE DEF n, D, step
    <2>1. <<>> \in Seq(D)
        OBVIOUS
    <2> QED BY <1>1, <1>2, <2>1, FoldExists
<1>4. P(f)
    <2>1. ASSUME NEW S \in SUBSET (1..n)
          PROVE  f[S] = IF S = {} THEN <<>>
                        ELSE IF Clicked(urls[Max(S)])
                             THEN Append(f[S \ {Max(S)}], urls[Max(S)])
                             ELSE f[S \ {Max(S)}]
        <3>1. CASE S = {}
            BY <1>3, <3>1 DEF Folds
        <3>2. CASE S # {}
            <4> HIDE DEF n, D, step
            <4>1. Max(S) \in 1..n /\ S \ {Max(S)} \in SUBSET (1..n)
                BY <1>1, <3>2, MaxIn
            <4>2. f[S] = step[<<f[S \ {Max(S)}], Max(S)>>]
                BY <1>3, <3>2 DEF Folds
            <4>3. f[S \ {Max(S)}] \in Seq(D)
                BY <1>3, <4>1
            <4>4. \A v \in Seq(D), i \in 1..n :
                    step[<<v, i>>] = IF Clicked(urls[i]) THEN Append(v, urls[i]) ELSE v
                BY DEF step
            <4> QED BY <3>2, <4>1, <4>2, <4>3, <4>4
        <3> QED BY <3>1, <3>2
    <2> HIDE DEF n, D, step
    <2> QED BY <1>1, <1>3, <2>1
<1>5. P(it)
    <2> HIDE DEF P
    <2> QED BY <1>4
<1>6. ASSUME NEW S \in SUBSET (1..n)
      PROVE  it[S] = IF S = {} THEN <<>>
                     ELSE IF Clicked(urls[Max(S)])
                          THEN Append(it[S \ {Max(S)}], urls[Max(S)])
                          ELSE it[S \ {Max(S)}]
    <2> HIDE DEF it, n
    <2> QED BY <1>1, <1>5
<1>7. ActiveLinks = it[1..n]
    <2>1. ActiveLinks = it[DOMAIN urls]
        BY DEF ActiveLinks, FoldLeft, MapThenFoldSet
    <2> HIDE DEF it, n
    <2> QED BY <1>1, <2>1
<1> DEFINE Kept(k) == it[1..k]
           T == {k \in 0..n : /\ Kept(k) \in Seq(D) /\ Falling(Kept(k))
                              /\ Range(Kept(k)) = Wanted(k)}
<1>8. 0 \in T
    <2>1. 1..0 = {} /\ {} \in SUBSET (1..n) /\ 0 \in 0..n
        OBVIOUS
    <2>2. Kept(0) = <<>>
        <3> HIDE DEF it, n
        <3> QED BY <1>6, <2>1
    <2>3. <<>> \in Seq(D) /\ Falling(<<>>) /\ Range(<<>>) = {}
        BY DEF Falling, Range
    <2>4. Wanted(0) = {}
        BY <2>1
    <2> HIDE DEF Kept, Wanted, n, D
    <2> QED BY <2>1, <2>2, <2>3, <2>4
<1>9. ASSUME NEW k \in 0..(n - 1), k \in T PROVE k + 1 \in T
    <2>1. k + 1 \in 1..n /\ k + 1 \in 0..n /\ k \in Nat
        OBVIOUS
    <2> DEFINE u == urls[k + 1]
    <2>2. Kept(k + 1) = IF Clicked(u) THEN Append(Kept(k), u) ELSE Kept(k)
        <3> HIDE DEF it, n
        <3>1. 1..(k + 1) \in SUBSET (1..n)
            BY <1>1, <2>1
        <3>2. 1..(k + 1) # {}
            <4>1. k + 1 \in 1..(k + 1)
                BY <2>1
            <4> QED BY <4>1
        <3>3. (1..(k + 1)) \ {k + 1} = 1..k
            BY <2>1
        <3>4. Max(1..(k + 1)) = k + 1
            <4>1. 1..(k + 1) \in SUBSET (1..(k + 1)) /\ k + 1 \in 1..(k + 1)
                BY <2>1
            <4> QED BY <2>1, <4>1, MaxFacts
        <3> QED BY <1>6, <3>1, <3>2, <3>3, <3>4
    <2>3. /\ Kept(k) \in Seq(D) /\ Falling(Kept(k))
          /\ Range(Kept(k)) = Wanted(k)
        <3> HIDE DEF Kept, Wanted, n, D
        <3> QED BY <1>9
    <2>4. First(k + 1) = First(k) \cup {u}
        <3>1. \A i : i \in 1..(k + 1) <=> i \in 1..k \/ i = k + 1
            BY <2>1
        <3> QED BY <3>1
    <2>5. \A v \in First(k) : v > u
        <3>1. \A i \in 1..k : i \in 1..n /\ i < k + 1
            BY <2>1
        <3> HIDE DEF n
        <3> QED BY <2>1, <3>1 DEF Falling, n
    <2>6. u \in D
        <3> HIDE DEF n, D
        <3> QED BY <1>1, <2>1
    <2> HIDE DEF Kept, First, Wanted, n, D, u, T
    <2>7. CASE Clicked(u)
        <3>1. \A v \in Range(Kept(k)) : v > u
            BY <2>3, <2>5 DEF Wanted
        <3>2. Kept(k + 1) = Append(Kept(k), u)
            BY <2>2, <2>7
        <3>3. /\ Append(Kept(k), u) \in Seq(D) /\ Falling(Append(Kept(k), u))
              /\ Range(Append(Kept(k), u)) = Range(Kept(k)) \cup {u}
            <4>1. D \in SUBSET Nat /\ Kept(k) \in Seq(D) /\ Falling(Kept(k))
                BY <1>1, <2>3
            <4> QED BY <2>6, <3>1, <4>1, AppendFalls
        <3>4. Wanted(k) \cup {u} = Wanted(k + 1)
            BY <2>4, <2>7 DEF Wanted
        <3>5. /\ Kept(k + 1) \in Seq(D) /\ Falling(Kept(k + 1))
              /\ Range(Kept(k + 1)) = Wanted(k + 1)
            BY <2>3, <3>2, <3>3, <3>4
        <3> QED BY <2>1, <3>5 DEF T
    <2>8. CASE ~Clicked(u)
        <3>1. Kept(k + 1) = Kept(k)
            BY <2>2, <2>8
        <3>2. Wanted(k) = Wanted(k + 1)
            BY <2>4, <2>8 DEF Wanted
        <3>3. /\ Kept(k + 1) \in Seq(D) /\ Falling(Kept(k + 1))
              /\ Range(Kept(k + 1)) = Wanted(k + 1)
            BY <2>3, <3>1, <3>2
        <3> QED BY <2>1, <3>3 DEF T
    <2> QED BY <2>7, <2>8
<1>10. \A k \in 0..n : k \in T
    <2> HIDE DEF T, n
    <2> QED BY <1>1, <1>8, <1>9, UpTo
<1>11. n \in T
    <2>1. n \in 0..n
        BY <1>1
    <2> HIDE DEF T, n
    <2> QED BY <1>10, <2>1
<1>12. First(n) = Range(urls)
    <2> HIDE DEF n
    <2> QED BY <1>1 DEF Range
<1>13. /\ Kept(n) \in Seq(D) /\ Falling(Kept(n))
       /\ Range(Kept(n)) = Wanted(n)
    <2> HIDE DEF Kept, Wanted, n, D
    <2> QED BY <1>11
<1> QED BY <1>7, <1>12, <1>13

----------------------------------------------------------------------------
(* Ranking.                                                                *)

\* The order of the pictures: more clicks, and among equals the newer link.
RanksBefore(u, v) ==
    \/ clicksSeen[u] > clicksSeen[v]
    \/ clicksSeen[u] = clicksSeen[v] /\ u > v

Rank(u, R) == Cardinality({v \in R : RanksBefore(v, u)}) + 1

LEMMA RankFacts ==
    ASSUME clicksSeen \in Seq(Nat), NEW R \in SUBSET (DOMAIN clicksSeen)
    PROVE  /\ IsFiniteSet(R)
           /\ \A u \in R : Rank(u, R) \in 1..Cardinality(R)
           /\ \A u, v \in R : Rank(u, R) = Rank(v, R) => u = v
           /\ \A p \in 1..Cardinality(R) : \E u \in R : Rank(u, R) = p
<1> DEFINE D == DOMAIN clicksSeen
           N == Cardinality(R)
           Ahead(u) == {v \in R : RanksBefore(v, u)}
<1>0. /\ D = 1..Len(clicksSeen) /\ Len(clicksSeen) \in Nat
      /\ \A u \in R : u \in Nat /\ clicksSeen[u] \in Nat
    OBVIOUS
<1>1. IsFiniteSet(R) /\ N \in Nat
    <2>1. IsFiniteSet(1..Len(clicksSeen))
        BY <1>0, FS_Interval
    <2>2. IsFiniteSet(R)
        BY <1>0, <2>1, FS_Subset
    <2> QED BY <2>2, FS_CardinalityType
<1> HIDE DEF D
<1>2. ASSUME NEW u \in R
      PROVE  /\ IsFiniteSet(Ahead(u)) /\ Cardinality(Ahead(u)) \in Nat
             /\ Cardinality(Ahead(u)) <= N - 1
             /\ Rank(u, R) = Cardinality(Ahead(u)) + 1
    <2>1. u \notin Ahead(u)
        BY <1>0 DEF RanksBefore
    <2>2. Ahead(u) \in SUBSET (R \ {u})
        BY <2>1
    <2>3. IsFiniteSet(R \ {u}) /\ Cardinality(R \ {u}) = N - 1
        BY <1>1, FS_RemoveElement
    <2>4. Rank(u, R) = Cardinality(Ahead(u)) + 1
        BY DEF Rank
    <2> HIDE DEF Ahead
    <2>5. IsFiniteSet(Ahead(u)) /\ Cardinality(Ahead(u)) <= Cardinality(R \ {u})
        BY <2>2, <2>3, FS_Subset
    <2>6. Cardinality(Ahead(u)) \in Nat
        BY <2>5, FS_CardinalityType
    <2> QED BY <2>3, <2>4, <2>5, <2>6
<1>3. ASSUME NEW u \in R, NEW v \in R, RanksBefore(v, u)
      PROVE  Rank(v, R) < Rank(u, R)
    <2>1. v \in Ahead(u) /\ v \notin Ahead(v)
        BY <1>0, <1>3 DEF RanksBefore
    <2>2. Ahead(v) \subseteq Ahead(u)
        BY <1>0, <1>3 DEF RanksBefore
    <2> HIDE DEF Ahead
    <2>3. Cardinality(Ahead(v)) <= Cardinality(Ahead(u))
        BY <1>2, <2>2, FS_Subset
    <2>4. Cardinality(Ahead(v)) # Cardinality(Ahead(u))
        BY <1>2, <2>1, <2>2, FS_Subset
    <2> QED BY <1>2, <2>3, <2>4
<1>4. \A u \in R : Rank(u, R) \in 1..N
    <2> HIDE DEF Ahead, N
    <2> QED BY <1>1, <1>2
<1>5. ASSUME NEW u \in R, NEW v \in R, Rank(u, R) = Rank(v, R)
      PROVE  u = v
    <2>1. Rank(u, R) \in Nat /\ Rank(v, R) \in Nat
        BY <1>4
    <2>2. ~RanksBefore(u, v) /\ ~RanksBefore(v, u)
        BY <1>3, <1>5, <2>1
    <2> QED BY <1>0, <2>2 DEF RanksBefore
<1> DEFINE rank == [u \in R |-> Rank(u, R)]
<1>6. rank \in Injection(R, 1..N)
    <2>1. rank \in [R -> 1..N]
        BY <1>4
    <2>2. IsInjective(rank)
        BY <1>5 DEF IsInjective
    <2> QED BY <2>1, <2>2 DEF Injection
<1>7. IsFiniteSet(1..N) /\ Cardinality(1..N) = N
    <2>1. 1 \in Int /\ N \in Int
        BY <1>1
    <2>2. /\ IsFiniteSet(1..N)
          /\ Cardinality(1..N) = IF 1 > N THEN 0 ELSE N - 1 + 1
        BY <2>1, FS_Interval
    <2> QED BY <1>1, <2>2
<1>8. rank \in Surjection(R, 1..N)
    <2> DEFINE I == 1..N
    <2>1. rank \in Injection(R, I) /\ IsFiniteSet(I) /\ Cardinality(R) = Cardinality(I)
        BY <1>6, <1>7
    <2> HIDE DEF rank, I
    <2>2. rank \in Surjection(R, I)
        BY <2>1, FS_Injection
    <2> QED BY <2>2 DEF I
<1>9. \A p \in 1..N : \E u \in R : Rank(u, R) = p
    BY <1>8 DEF Surjection
<1> QED BY <1>1, <1>4, <1>5, <1>9

\* The sorted links are the links, each at its rank.
LEMMA SortedByRank ==
    ASSUME clicksSeen \in Seq(Nat), NEW s \in Seq(DOMAIN clicksSeen), Falling(s)
    PROVE  /\ Sorted(s) \in Seq(DOMAIN clicksSeen)
           /\ Len(Sorted(s)) = Len(s)
           /\ \A p \in 1..Len(s) : /\ Sorted(s)[p] \in Range(s)
                                   /\ Rank(Sorted(s)[p], Range(s)) = p
           /\ \A u \in Range(s) : /\ Rank(u, Range(s)) \in 1..Len(s)
                                  /\ Sorted(s)[Rank(u, Range(s))] = u
<1> DEFINE n == Len(s)
           R == Range(s)
           Before(i, j) == \/ clicksSeen[s[i]] > clicksSeen[s[j]]
                           \/ clicksSeen[s[i]] = clicksSeen[s[j]] /\ i < j
           Place(i) == Cardinality({j \in DOMAIN s : Before(j, i)}) + 1
<1>1. /\ n \in Nat /\ DOMAIN s = 1..n
      /\ R = {s[i] : i \in 1..n}
      /\ \A i \in 1..n : s[i] \in Nat /\ s[i] \in DOMAIN clicksSeen
      /\ R \in SUBSET (DOMAIN clicksSeen)
    BY DEF Range
<1>2. Distinct(s)
    <2>1. s \in Seq(Nat)
        OBVIOUS
    <2> QED BY <2>1, FallingIsDistinct
<1> HIDE DEF R
<1>3. /\ IsFiniteSet(R)
      /\ \A u \in R : Rank(u, R) \in 1..Cardinality(R)
      /\ \A u, v \in R : Rank(u, R) = Rank(v, R) => u = v
      /\ \A p \in 1..Cardinality(R) : \E u \in R : Rank(u, R) = p
    BY <1>1, RankFacts
<1>4. Cardinality(R) = n
    <2> DEFINE I == 1..n
               b == [i \in I |-> s[i]]
    <2>1. IsFiniteSet(I) /\ Cardinality(I) = n
        <3>1. 1 \in Int /\ n \in Int
            BY <1>1
        <3>2. IsFiniteSet(1..n) /\ Cardinality(1..n) = IF 1 > n THEN 0 ELSE n - 1 + 1
            BY <3>1, FS_Interval
        <3> QED BY <1>1, <3>2
    <2>2. b \in Bijection(I, R)
        <3>1. b \in [I -> R]
            BY <1>1
        <3>2. IsInjective(b)
            BY <1>2 DEF IsInjective, Distinct
        <3>3. \A u \in R : \E i \in I : b[i] = u
            BY <1>1
        <3> HIDE DEF b, I
        <3> QED BY <3>1, <3>2, <3>3 DEF Bijection, Injection, Surjection
    <2> HIDE DEF b, I
    <2>3. ExistsBijection(I, R)
        BY <2>2 DEF ExistsBijection
    <2> QED BY <2>1, <2>3, FS_Bijection
<1>5. ASSUME NEW i \in 1..n PROVE Place(i) = Rank(s[i], R)
    <2> DEFINE J == {j \in DOMAIN s : Before(j, i)}
               A == {v \in R : RanksBefore(v, s[i])}
               b == [j \in J |-> s[j]]
    <2>1. \A j \in 1..n : Before(j, i) <=> RanksBefore(s[j], s[i])
        <3>1. \A j \in 1..n : s[j] > s[i] <=> j < i
            <4> SUFFICES ASSUME NEW j \in 1..n PROVE s[j] > s[i] <=> j < i
                OBVIOUS
            <4>1. s[j] \in Nat /\ s[i] \in Nat /\ j \in Nat /\ i \in Nat
                BY <1>1
            <4>2. (i < j => s[i] > s[j]) /\ (j < i => s[j] > s[i])
                BY DEF Falling
            <4> HIDE DEF n
            <4> QED BY <4>1, <4>2
        <3> QED BY <3>1 DEF RanksBefore
    <2>2. J \subseteq 1..n /\ IsFiniteSet(J)
        <3>1. J \in SUBSET (1..n)
            BY <1>1
        <3>2. IsFiniteSet(1..n)
            BY <1>1, FS_Interval
        <3> HIDE DEF J
        <3> QED BY <3>1, <3>2, FS_Subset
    <2>3. b \in Bijection(J, A)
        <3>1. \A j \in J : s[j] \in A
            <4> HIDE DEF n
            <4> QED BY <1>1, <2>1
        <3>2. \A v \in A : \E j \in J : s[j] = v
            <4> HIDE DEF n
            <4> QED BY <1>1, <2>1
        <3>3. \A j, k \in J : s[j] = s[k] => j = k
            BY <1>2, <2>2 DEF Distinct
        <3> HIDE DEF J, A
        <3>4. b \in [J -> A] /\ IsInjective(b) /\ \A v \in A : \E j \in J : b[j] = v
            BY <3>1, <3>2, <3>3 DEF IsInjective
        <3> HIDE DEF b
        <3> QED BY <3>4 DEF Bijection, Injection, Surjection
    <2>4. Cardinality(A) = Cardinality(J)
        <3> HIDE DEF J, A, b
        <3>1. ExistsBijection(J, A)
            BY <2>3 DEF ExistsBijection
        <3> QED BY <2>2, <3>1, FS_Bijection
    <2>5. Place(i) = Cardinality(J) + 1
        OBVIOUS
    <2>6. Rank(s[i], R) = Cardinality(A) + 1
        BY DEF Rank
    <2> QED BY <2>4, <2>5, <2>6
<1> DEFINE At(p) == CHOOSE i \in DOMAIN s : Place(i) = p
<1>6. Sorted(s) = [p \in DOMAIN s |-> s[At(p)]]
    BY DEF Sorted
<1>7. ASSUME NEW p \in 1..n PROVE At(p) \in 1..n /\ Place(At(p)) = p
    <2>1. PICK u \in R : Rank(u, R) = p
        BY <1>3, <1>4
    <2>2. PICK i \in 1..n : s[i] = u
        BY <1>1
    <2>3. i \in DOMAIN s /\ Place(i) = p
        BY <1>1, <1>5, <2>1, <2>2
    <2> HIDE DEF Place, n
    <2> QED BY <1>1, <2>3
<1> HIDE DEF At, Place, n
<1>8. ASSUME NEW p \in 1..n
      PROVE  Sorted(s)[p] \in R /\ Rank(Sorted(s)[p], R) = p
    <2>1. Sorted(s)[p] = s[At(p)]
        BY <1>1, <1>6
    <2>2. At(p) \in 1..n /\ Place(At(p)) = p
        BY <1>7
    <2> QED BY <1>1, <1>5, <2>1, <2>2
<1>9. ASSUME NEW u \in R
      PROVE  Rank(u, R) \in 1..n /\ Sorted(s)[Rank(u, R)] = u
    <2>1. Rank(u, R) \in 1..n
        BY <1>3, <1>4
    <2> DEFINE v == Sorted(s)[Rank(u, R)]
    <2>2. v \in R /\ Rank(v, R) = Rank(u, R)
        BY <1>8, <2>1
    <2> HIDE DEF v
    <2>3. v = u
        BY <1>3, <2>2
    <2> QED BY <2>1, <2>3 DEF v
<1>10. Sorted(s) \in Seq(DOMAIN clicksSeen) /\ Len(Sorted(s)) = n
    <2> DEFINE D == DOMAIN clicksSeen
               q == [p \in 1..n |-> s[At(p)]]
    <2>1. \A p \in 1..n : s[At(p)] \in D
        BY <1>1, <1>7
    <2> HIDE DEF D
    <2>2. q \in Seq(D) /\ Len(q) = n
        <3> DEFINE f(p) == s[At(p)]
        <3>1. \A p \in 1..n : f(p) \in D
            BY <2>1
        <3>2. q = [p \in 1..n |-> f(p)]
            OBVIOUS
        <3>3. n \in Nat
            BY <1>1
        <3> HIDE DEF f, q
        <3> QED BY <3>1, <3>2, <3>3
    <2>3. Sorted(s) = q
        BY <1>1, <1>6
    <2> HIDE DEF q
    <2> QED BY <2>2, <2>3 DEF D
<1> QED BY <1>8, <1>9, <1>10 DEF n, R

----------------------------------------------------------------------------
(* The pictures, of links that were loaded newest first.                   *)

LinksLoaded ==
    /\ clicksSeen \in Seq(Nat) /\ urls \in Seq(DOMAIN clicksSeen)
    /\ Falling(urls)

\* The links with clicks have the same ranks among themselves as among all.
LEMMA RanksAgree ==
    ASSUME LinksLoaded
    PROVE  LET ranked == Sorted(ActiveLinks)
           IN  /\ ranked \in Seq(DOMAIN clicksSeen)
               /\ Len(ranked) = Len(ActiveLinks)
               /\ Range(ranked) = {u \in Range(urls) : Clicked(u)}
               /\ Distinct(ranked)
               /\ \A p \in 1..Len(ranked) :
                    /\ p \in 1..Len(urls)
                    /\ Clicked(ranked[p])
                    /\ Sorted(urls)[p] = ranked[p]
<1> DEFINE R == Range(urls)
           A == Range(ActiveLinks)
           ranked == Sorted(ActiveLinks)
           all == Sorted(urls)
           D == DOMAIN clicksSeen
           n == Len(ActiveLinks)
<1>1. /\ clicksSeen \in Seq(Nat) /\ urls \in Seq(D) /\ Falling(urls)
      /\ ActiveLinks \in Seq(D) /\ Falling(ActiveLinks)
      /\ A = {u \in R : Clicked(u)} /\ n \in Nat
    BY ActiveLinksAre DEF LinksLoaded
<1>2. R \subseteq D /\ \A u \in D : clicksSeen[u] \in Nat
    BY <1>1 DEF Range
<1>3. ASSUME NEW u \in A PROVE Rank(u, A) = Rank(u, R)
    <2>1. {v \in A : RanksBefore(v, u)} = {v \in R : RanksBefore(v, u)}
        <3>1. clicksSeen[u] \in Nat /\ clicksSeen[u] > 0
            BY <1>1, <1>2 DEF Clicked
        <3>2. \A v \in R : RanksBefore(v, u) => v \in A
            BY <1>1, <1>2, <3>1 DEF RanksBefore, Clicked
        <3>3. A \subseteq R
            BY <1>1
        <3> HIDE DEF A, R
        <3> QED BY <3>2, <3>3
    <2> QED BY <2>1 DEF Rank
<1> HIDE DEF A, R, ranked, all, D, n
<1>4. /\ ranked \in Seq(D) /\ Len(ranked) = n
      /\ \A p \in 1..n : ranked[p] \in A /\ Rank(ranked[p], A) = p
      /\ \A u \in A : Rank(u, A) \in 1..n /\ ranked[Rank(u, A)] = u
    BY <1>1, SortedByRank DEF A, ranked, D, n
<1>5. \A u \in R : Rank(u, R) \in 1..Len(urls) /\ all[Rank(u, R)] = u
    BY <1>1, SortedByRank DEF R, all, D
<1>6. ASSUME NEW p \in 1..Len(ranked)
      PROVE  p \in 1..Len(urls) /\ Clicked(ranked[p]) /\ all[p] = ranked[p]
    <2>1. ranked[p] \in A /\ Rank(ranked[p], A) = p
        BY <1>4
    <2>2. ranked[p] \in R /\ Clicked(ranked[p]) /\ Rank(ranked[p], R) = p
        BY <1>1, <1>3, <2>1
    <2> QED BY <1>5, <2>2
<1>7. Range(ranked) = A
    <2>1. DOMAIN ranked = 1..n
        BY <1>4
    <2>2. Range(ranked) \subseteq A
        BY <1>4, <2>1 DEF Range
    <2>3. A \subseteq Range(ranked)
        BY <1>4, <2>1 DEF Range
    <2> QED BY <2>2, <2>3
<1>8. Distinct(ranked)
    BY <1>4 DEF Distinct
<1> QED BY <1>1, <1>4, <1>6, <1>7, <1>8 DEF ranked, all, D, n, A, R

\* The links without clicks add nothing to the total.
LEMMA TotalsAgree ==
    ASSUME LinksLoaded
    PROVE  Total(Sorted(ActiveLinks)) = Total(urls)
<1> DEFINE ranked == Sorted(ActiveLinks)
           D == DOMAIN clicksSeen
<1>1. /\ clicksSeen \in Seq(Nat) /\ urls \in Seq(D) /\ Falling(urls)
    BY DEF LinksLoaded
<1>2. /\ ranked \in Seq(D) /\ Distinct(ranked)
      /\ Range(ranked) = {u \in Range(urls) : Clicked(u)}
    BY RanksAgree
<1>3. Distinct(urls)
    <2>1. urls \in Seq(Nat)
        BY <1>1
    <2> QED BY <1>1, <2>1, FallingIsDistinct
<1>4. Total(ranked) = Cardinality(ClickPile(Range(ranked)))
    <2> HIDE DEF ranked
    <2> QED BY <1>1, <1>2, TotalIsPile
<1>5. Total(urls) = Cardinality(ClickPile(Range(urls)))
    BY <1>1, <1>3, TotalIsPile
<1>6. ClickPile(Range(ranked)) = ClickPile(Range(urls))
    <2> DEFINE R == Range(urls)
    <2>1. \A u \in R : clicksSeen[u] \in Nat
        BY <1>1 DEF Range
    <2>2. Range(ranked) = {u \in R : Clicked(u)}
        BY <1>2
    <2> HIDE DEF R
    <2>3. ASSUME NEW p \in R \X Nat, 1 <= p[2], p[2] <= clicksSeen[p[1]]
          PROVE  p \in Range(ranked) \X Nat
        <3>1. p[1] \in R /\ Clicked(p[1])
            BY <2>1, <2>3 DEF Clicked
        <3> HIDE DEF ranked
        <3> QED BY <2>2, <3>1
    <2> HIDE DEF ranked
    <2>4. \A p \in Range(ranked) \X Nat : p \in R \X Nat
        BY <2>2
    <2>5. ClickPile(Range(ranked)) = ClickPile(R)
        BY <2>3, <2>4 DEF ClickPile
    <2> QED BY <2>5 DEF R
<1> QED BY <1>4, <1>5, <1>6

LEMMA MinFacts ==
    ASSUME NEW a \in Nat, NEW b \in Nat
    PROVE  Min({a, b}) = IF a <= b THEN a ELSE b
<1> DEFINE m == IF a <= b THEN a ELSE b
<1>1. m \in {a, b} /\ \A y \in {a, b} : m <= y
    OBVIOUS
<1>2. \A x \in {a, b} : (\A y \in {a, b} : x <= y) => x = m
    OBVIOUS
<1> QED BY <1>1, <1>2 DEF Min

\* A slice of the first n is the first n.
LEMMA SliceFacts ==
    ASSUME NEW D, NEW s \in Seq(D), NEW n \in Nat
    PROVE  /\ Slice(s, n) \in Seq(D)
           /\ Len(Slice(s, n)) = Min({n, Len(s)})
           /\ Len(Slice(s, n)) \in 0..Len(s) /\ Len(Slice(s, n)) <= n
           /\ Len(Slice(s, n)) = n \/ Len(Slice(s, n)) = Len(s)
           /\ \A i \in 1..Len(Slice(s, n)) : Slice(s, n)[i] = s[i]
<1> DEFINE m == Min({n, Len(s)})
<1>1. m \in 0..Len(s) /\ m <= n /\ (m = n \/ m = Len(s)) /\ Len(s) \in Nat
    <2>1. Len(s) \in Nat
        OBVIOUS
    <2> QED BY <2>1, MinFacts
<1>2. Slice(s, n) = SubSeq(s, 1, m)
    BY DEF Slice
<1> HIDE DEF m
<1>3. SubSeq(s, 1, m) \in Seq(D) /\ Len(SubSeq(s, 1, m)) = m
    BY <1>1
<1>4. \A i \in 1..m : SubSeq(s, 1, m)[i] = s[i]
    BY <1>1
<1> QED BY <1>1, <1>2, <1>3, <1>4 DEF m

\* The links that have a slice of their own, and those that share one.
Own == Len(Slice(Sorted(ActiveLinks), MaxPie))
Others == SubSeq(Sorted(ActiveLinks), MaxPie + 1, Len(Sorted(ActiveLinks)))

LEMMA OthersFacts ==
    ASSUME LinksLoaded
    PROVE  LET ranked == Sorted(ActiveLinks)
           IN  /\ Own \in 0..Len(ranked) /\ Own <= MaxPie
               /\ ranked # <<>> => Own >= 1
               /\ Others \in Seq(DOMAIN clicksSeen)
               /\ Len(Others) = Len(ranked) - Own
               /\ \A i \in 1..Len(Others) : Others[i] = ranked[Own + i]
               /\ Total(Others) \in Nat
<1> DEFINE ranked == Sorted(ActiveLinks)
           D == DOMAIN clicksSeen
           n == Len(ranked)
<1>1. ranked \in Seq(D) /\ n \in Nat
    <2>1. ranked \in Seq(D)
        BY RanksAgree
    <2> HIDE DEF ranked
    <2> QED BY <2>1
<1>2. MaxPie \in Nat /\ MaxPie >= 1
    BY InsightsAssumption
<1> HIDE DEF ranked, D, n
<1>3. /\ Own \in 0..n /\ Own <= MaxPie /\ (Own = MaxPie \/ Own = n)
    BY <1>1, <1>2, SliceFacts DEF Own, ranked, n
<1>4. ranked # <<>> => n >= 1
    BY <1>1 DEF n
<1>5. ranked # <<>> => Own >= 1
    BY <1>2, <1>3, <1>4
<1> DEFINE t == SubSeq(ranked, MaxPie + 1, n)
<1>6. t \in Seq(D) /\ Len(t) = n - Own /\ \A i \in 1..Len(t) : t[i] = ranked[Own + i]
    <2>1. CASE MaxPie <= n
        <3>1. Own = MaxPie
            BY <1>2, <1>3, <2>1
        <3>2. t \in Seq(D) /\ Len(t) = n - MaxPie
            BY <1>1, <1>2, <2>1 DEF n
        <3>3. \A i \in 1..(n - MaxPie) : t[i] = ranked[MaxPie + i]
            BY <1>1, <1>2, <2>1 DEF n
        <3> HIDE DEF t
        <3> QED BY <3>1, <3>2, <3>3
    <2>2. CASE MaxPie > n
        <3>1. Own = n
            BY <1>1, <1>2, <1>3, <2>2
        <3>2. t = <<>>
            BY <1>1, <1>2, <2>2 DEF n
        <3> HIDE DEF t
        <3>3. t \in Seq(D) /\ Len(t) = 0
            BY <3>2
        <3> QED BY <1>1, <3>1, <3>3
    <2> QED BY <1>1, <1>2, <2>1, <2>2
<1>7. Others = t
    BY DEF Others, ranked, n
<1> HIDE DEF t
<1>8. Total(Others) \in Nat
    <2>1. clicksSeen \in Seq(Nat) /\ t \in Seq(D)
        BY <1>6 DEF LinksLoaded
    <2>2. PICK g : /\ Sums(g, [i \in 1..Len(t) |-> clicksSeen[t[i]]], Len(t))
                   /\ Total(t) = g[Len(t)]
        BY <2>1, TotalSums DEF D
    <2>3. Len(t) \in Nat
        BY <2>1
    <2>4. Len(t) \in 0..Len(t)
        BY <2>3
    <2> QED BY <1>7, <2>2, <2>4 DEF Sums
<1> QED BY <1>3, <1>5, <1>6, <1>7, <1>8 DEF ranked, D, n

\* What the pie is made of.
LEMMA PieDataIs ==
    ASSUME LinksLoaded
    PROVE  LET ranked == Sorted(ActiveLinks)
           IN  /\ PieData \in Seq([link : Nat, value : Nat])
               /\ Len(PieData) = IF Total(Others) > 0 THEN Own + 1 ELSE Own
               /\ \A i \in 1..Own :
                    PieData[i] = [link |-> ranked[i], value |-> clicksSeen[ranked[i]]]
               /\ Total(Others) > 0 =>
                    PieData[Own + 1] = [link |-> 0, value |-> Total(Others)]
<1> DEFINE ranked == Sorted(ActiveLinks)
           D == DOMAIN clicksSeen
           S == [link : Nat, value : Nat]
           s == Slice(ranked, MaxPie)
           o == Total(Others)
           first == [i \in DOMAIN s |-> [link |-> s[i], value |-> clicksSeen[s[i]]]]
           last == IF o > 0 THEN <<[link |-> 0, value |-> o]>> ELSE <<>>
<1>1. ranked \in Seq(D) /\ D \in SUBSET Nat /\ clicksSeen \in Seq(Nat)
    BY RanksAgree DEF LinksLoaded
<1>2. MaxPie \in Nat
    BY InsightsAssumption
<1>3. /\ s \in Seq(D) /\ Len(s) = Own /\ Own \in 0..Len(ranked)
      /\ \A i \in 1..Own : s[i] = ranked[i]
    <2> HIDE DEF ranked, D
    <2>1. /\ Slice(ranked, MaxPie) \in Seq(D)
          /\ Len(Slice(ranked, MaxPie)) \in 0..Len(ranked)
          /\ \A i \in 1..Len(Slice(ranked, MaxPie)) :
                Slice(ranked, MaxPie)[i] = ranked[i]
        BY <1>1, <1>2, SliceFacts
    <2>2. Own = Len(Slice(ranked, MaxPie))
        BY DEF Own, ranked
    <2> QED BY <2>1, <2>2
<1>4. o \in Nat
    BY OthersFacts
<1>5. PieData = first \o last
    BY DEF PieData, Others
<1> HIDE DEF ranked, D, s, o
<1>6. first \in Seq(S) /\ Len(first) = Own
      /\ \A i \in 1..Own : first[i] = [link |-> ranked[i], value |-> clicksSeen[ranked[i]]]
    <2>1. DOMAIN s = 1..Own /\ Own \in Nat
        BY <1>1, <1>3
    <2>2. \A i \in 1..Own : s[i] \in D
        BY <1>3, <2>1
    <2>3. \A i \in 1..Own : s[i] \in Nat /\ clicksSeen[s[i]] \in Nat
        BY <1>1, <2>2 DEF D
    <2> DEFINE e(i) == [link |-> s[i], value |-> clicksSeen[s[i]]]
    <2>4. \A i \in 1..Own : e(i) \in S
        BY <2>3
    <2>5. first = [i \in 1..Own |-> e(i)]
        BY <2>1
    <2>6. \A i \in 1..Own : e(i) = [link |-> ranked[i], value |-> clicksSeen[ranked[i]]]
        BY <1>3
    <2> HIDE DEF e, S, first
    <2>7. first \in Seq(S) /\ Len(first) = Own
        BY <2>1, <2>4, <2>5
    <2>8. \A i \in 1..Own : first[i] = e(i)
        BY <2>5
    <2> QED BY <2>6, <2>7, <2>8
<1>7. /\ last \in Seq(S) /\ Len(last) = IF o > 0 THEN 1 ELSE 0
      /\ o > 0 => last[1] = [link |-> 0, value |-> o]
    <2>1. [link |-> 0, value |-> o] \in S
        BY <1>4
    <2> HIDE DEF S
    <2> QED BY <2>1
<1> HIDE DEF first, last, S
<1>8. /\ first \o last \in Seq(S) /\ Len(first \o last) = Own + Len(last)
      /\ \A i \in 1..Own : (first \o last)[i] = first[i]
      /\ \A i \in 1..Len(last) : (first \o last)[Own + i] = last[i]
    <2>1. first \o last \in Seq(S)
        BY <1>6, <1>7
    <2>2. Len(first \o last) = Own + Len(last)
        <3>1. first \in Seq(S) /\ last \in Seq(S)
            BY <1>6, <1>7
        <3>2. Len(first \o last) = Len(first) + Len(last)
            BY ONLY <3>1
        <3> QED BY <1>6, <3>2
    <2>3. \A i \in 1..Own : (first \o last)[i] = first[i]
        BY <1>6, <1>7
    <2>4. \A i \in 1..Len(last) : (first \o last)[Own + i] = last[i]
        BY <1>6, <1>7
    <2> QED BY <2>1, <2>2, <2>3, <2>4
<1>9. Own \in Nat
    BY <1>1, <1>3
<1>10. Len(PieData) = IF o > 0 THEN Own + 1 ELSE Own
    BY <1>5, <1>7, <1>8, <1>9
<1>11. ASSUME o > 0 PROVE PieData[Own + 1] = [link |-> 0, value |-> o]
    <2>1. 1 \in 1..Len(last)
        BY <1>7, <1>11
    <2> QED BY <1>5, <1>7, <1>8, <1>11, <2>1
<1>12. \A i \in 1..Own :
        PieData[i] = [link |-> ranked[i], value |-> clicksSeen[ranked[i]]]
    BY <1>5, <1>6, <1>8
<1> QED BY <1>5, <1>8, <1>10, <1>11, <1>12 DEF ranked, o, S

\* The values of slices, added up, are a partial sum too.
LEMMA ValueSums ==
    ASSUME NEW q \in Seq([link : Nat, value : Nat])
    PROVE  \E g : /\ Sums(g, [i \in 1..Len(q) |-> q[i].value], Len(q))
                  /\ FoldLeft(LAMBDA sum, s : sum + s.value, 0, q) = g[Len(q)]
<1> DEFINE n == Len(q)
           a == [i \in 1..n |-> q[i].value]
           P(f) == f = [S \in SUBSET DOMAIN q |->
                            IF S = {} THEN 0
                            ELSE f[S \ {Max(S)}] + q[Max(S)].value]
           it == CHOOSE f : P(f)
           g == [k \in 0..n |-> it[1..k]]
<1>1. n \in Nat /\ DOMAIN q = 1..n /\ a \in [1..n -> Nat]
    <2>1. n \in Nat /\ DOMAIN q = 1..n
        OBVIOUS
    <2>2. ASSUME NEW i \in 1..n PROVE q[i].value \in Nat
        <3> DEFINE S == [link : Nat, value : Nat]
        <3>1. q \in Seq(S)
            OBVIOUS
        <3> HIDE DEF S
        <3>2. q[i] \in S
            BY <3>1
        <3> QED BY <3>2 DEF S
    <2> QED BY <2>1, <2>2
<1>2. ASSUME NEW f
      PROVE  P(f) <=> f = [S \in SUBSET (1..n) |->
                            IF S = {} THEN 0 ELSE f[S \ {Max(S)}] + a[Max(S)]]
    <2>1. \A S \in SUBSET (1..n) : S # {} => a[Max(S)] = q[Max(S)].value
        <3>1. \A S \in SUBSET (1..n) : S # {} => Max(S) \in 1..n
            BY <1>1, MaxIn
        <3> QED BY <3>1
    <2> HIDE DEF a, n
    <2> QED BY <1>1, <2>1
<1>3. \E f : P(f)
    <2> HIDE DEF a, n, P
    <2>1. \E f : f = [S \in SUBSET (1..n) |->
                        IF S = {} THEN 0 ELSE f[S \ {Max(S)}] + a[Max(S)]]
        BY <1>1, AddingFolds
    <2> QED BY <1>2, <2>1
<1>4. P(it)
    <2> HIDE DEF P
    <2> QED BY <1>3
<1>5. Sums(g, a, n)
    <2> HIDE DEF a, n, P, it
    <2> QED BY <1>1, <1>2, <1>4, AddingFolds
<1>6. FoldLeft(LAMBDA sum, s : sum + s.value, 0, q) = it[DOMAIN q]
    BY DEF FoldLeft, MapThenFoldSet
<1>7. it[DOMAIN q] = g[n]
    BY <1>1
<1> QED BY <1>5, <1>6, <1>7

\* What the slices add up to.
LEMMA PieAddsUp ==
    ASSUME LinksLoaded
    PROVE  \E g : /\ Sums(g, [i \in 1..Len(PieData) |-> PieData[i].value], Len(PieData))
                  /\ FoldLeft(LAMBDA sum, s : sum + s.value, 0, PieData)
                        = g[Len(PieData)]
                  /\ g[Len(PieData)] = Total(urls)
<1> DEFINE ranked == Sorted(ActiveLinks)
           n == Len(ranked)
           o == Total(Others)
           L == Len(PieData)
           a == [i \in 1..n |-> clicksSeen[ranked[i]]]
           b == [i \in 1..L |-> PieData[i].value]
           c == [i \in 1..Len(Others) |-> clicksSeen[Others[i]]]
<1>1. clicksSeen \in Seq(Nat) /\ ranked \in Seq(DOMAIN clicksSeen)
    BY RanksAgree DEF LinksLoaded
<1>2. /\ Own \in 0..n /\ n \in Nat
      /\ Others \in Seq(DOMAIN clicksSeen) /\ Len(Others) = n - Own
      /\ \A i \in 1..Len(Others) : Others[i] = ranked[Own + i]
      /\ o \in Nat
    BY <1>1, OthersFacts
<1>3. /\ PieData \in Seq([link : Nat, value : Nat])
      /\ L = IF o > 0 THEN Own + 1 ELSE Own
      /\ \A i \in 1..Own :
            PieData[i] = [link |-> ranked[i], value |-> clicksSeen[ranked[i]]]
      /\ o > 0 => PieData[Own + 1] = [link |-> 0, value |-> o]
    BY PieDataIs
<1> HIDE DEF ranked
<1>4. PICK g : Sums(g, a, n) /\ Total(ranked) = g[n]
    BY <1>1, TotalSums
<1>5. PICK h : Sums(h, b, L) /\ FoldLeft(LAMBDA sum, s : sum + s.value, 0, PieData) = h[L]
    BY <1>3, ValueSums
<1>6. PICK r : Sums(r, c, Len(Others)) /\ o = r[Len(Others)]
    BY <1>1, <1>2, TotalSums
<1>7. a \in [1..n -> Nat] /\ c \in [1..Len(Others) -> Nat]
    <2>1. \A i \in 1..n : clicksSeen[ranked[i]] \in Nat
        BY <1>1
    <2>2. \A i \in 1..Len(Others) : clicksSeen[Others[i]] \in Nat
        <3>1. Others \in Seq(DOMAIN clicksSeen)
            BY <1>2
        <3>2. \A i \in 1..Len(Others) : Others[i] \in DOMAIN clicksSeen
            BY ONLY <3>1
        <3> QED BY <1>1, <3>2
    <2> QED BY <2>1, <2>2
<1>8. b \in [1..L -> Nat] /\ L \in Nat
    <2> DEFINE S == [link : Nat, value : Nat]
    <2>1. PieData \in Seq(S)
        BY <1>3
    <2> HIDE DEF S
    <2>2. \A i \in 1..L : PieData[i] \in S
        BY <2>1
    <2>3. \A i \in 1..L : PieData[i].value \in Nat
        BY <2>2 DEF S
    <2>4. L \in Nat
        BY <2>1
    <2> QED BY <2>3, <2>4
<1>9. /\ \A i \in 1..Own : b[i] = a[i]
      /\ o > 0 => b[Own + 1] = o
      /\ \A i \in 1..Len(Others) : c[i] = a[Own + i]
    <2>1. ASSUME NEW i \in 1..Own PROVE b[i] = a[i]
        <3>1. i \in 1..L /\ i \in 1..n
            BY <1>2, <1>3
        <3>2. b[i] = PieData[i].value /\ a[i] = clicksSeen[ranked[i]]
            BY <3>1
        <3>3. PieData[i] = [link |-> ranked[i], value |-> clicksSeen[ranked[i]]]
            BY <1>3
        <3> QED BY <3>2, <3>3
    <2>2. ASSUME o > 0 PROVE b[Own + 1] = o
        <3>1. Own + 1 \in 1..L
            BY <1>2, <1>3, <2>2
        <3>2. b[Own + 1] = PieData[Own + 1].value
            BY <3>1
        <3>3. PieData[Own + 1] = [link |-> 0, value |-> o]
            BY <1>3, <2>2
        <3> QED BY <3>2, <3>3
    <2>3. ASSUME NEW i \in 1..Len(Others) PROVE c[i] = a[Own + i]
        <3>1. Own + i \in 1..n
            BY <1>2
        <3> QED BY <1>2, <3>1
    <2> QED BY <2>1, <2>2, <2>3
<1> HIDE DEF a, b, c, n, L, o
<1>10. h[Own] = g[Own]
    <2>1. Own \in 0..L /\ Own \in 0..n
        BY <1>2, <1>3
    <2>2. Begins(a, b, Own)
        BY <1>9 DEF Begins
    <2>3. Sums(g, a, n)
        BY <1>2, <1>4, <1>7
    <2>4. Sums(h, b, L)
        BY <1>5, <1>8
    <2> QED BY ONLY <2>1, <2>2, <2>3, <2>4, SumsBegin
<1>11. g[n] = g[Own] + o
    <2>1. /\ Own \in Nat /\ Len(Others) \in Nat /\ Own + Len(Others) = n
          /\ Len(Others) \in 0..Len(Others) /\ Own + Len(Others) <= n
        BY <1>2
    <2> DEFINE l == Len(Others)
    <2> HIDE DEF l
    <2>2. g[n] = g[Own] + r[l]
        <3>1. Sums(g, a, n)
            BY <1>2, <1>4, <1>7
        <3>2. Sums(r, c, l)
            BY <1>6, <1>7, <2>1 DEF l
        <3>3. Own \in Nat /\ l \in 0..l /\ n \in 0..n /\ n = Own + l
            BY <1>2, <2>1 DEF l
        <3>4. GoesOn(a, Own, c, l)
            BY <1>9 DEF l, GoesOn
        <3> QED BY ONLY <3>1, <3>2, <3>3, <3>4, SumsContinue
    <2> QED BY <1>6, <2>1, <2>2 DEF l
<1>12. h[L] = h[Own] + o
    <2>0. h[Own] \in Nat
        <3>1. Own \in 0..L
            BY <1>2, <1>3
        <3> QED BY <1>5, <3>1 DEF Sums
    <2>1. CASE o > 0
        <3>1. L = Own + 1 /\ Own + 1 \in 1..L /\ (Own + 1) - 1 = Own
            BY <1>2, <1>3, <2>1
        <3>2. h[Own + 1] = h[Own] + b[Own + 1]
            BY <1>5, <3>1 DEF Sums
        <3> QED BY <1>9, <2>1, <3>1, <3>2
    <2>2. CASE ~(o > 0)
        <3>1. L = Own /\ o = 0
            BY <1>2, <1>3, <2>2
        <3> QED BY <2>0, <3>1
    <2> QED BY <2>1, <2>2
<1>13. h[L] = Total(urls)
    BY <1>4, <1>10, <1>11, <1>12, TotalsAgree DEF ranked
<1> QED BY <1>5, <1>13 DEF b, L

\* One of at most twenty numbers is at least a twentieth of their sum.
LEMMA OneIsATwentieth ==
    ASSUME NEW n, NEW a, NEW g, Sums(g, a, n), n >= 1, n <= 20
    PROVE  \E i \in 1..n : 20 * a[i] >= g[n]
<1> SUFFICES ASSUME \A i \in 1..n : 20 * a[i] < g[n] PROVE FALSE
    <2>1. n \in Nat /\ a \in [1..n -> Nat] /\ g \in [0..n -> Nat]
        BY DEF Sums
    <2>2. n \in 0..n
        BY <2>1
    <2>3. g[n] \in Nat /\ \A i \in 1..n : a[i] \in Nat
        BY <2>1, <2>2
    <2> QED BY <2>3
<1>1. /\ n \in Nat /\ g[0] = 0 /\ n \in 0..n /\ 1 \in 1..n
      /\ \A i \in 1..n : a[i] \in Nat /\ g[i] = g[i - 1] + a[i]
      /\ \A i \in 0..n : g[i] \in Nat
    BY DEF Sums
<1> DEFINE t == g[n] - 1
           T == {k \in 0..n : 20 * g[k] <= k * t}
<1>2. t \in Nat /\ g[n] = t + 1
    <2>1. g[n] \in Nat /\ a[1] \in Nat /\ 20 * a[1] < g[n]
        BY <1>1
    <2> QED BY <2>1
<1>3. 0 \in T
    BY <1>1, <1>2
<1>4. ASSUME NEW k \in 0..(n - 1), k \in T PROVE k + 1 \in T
    <2>1. /\ k + 1 \in 1..n /\ (k + 1) - 1 = k /\ k \in 0..n /\ k + 1 \in 0..n
          /\ k \in Nat
        BY <1>1
    <2>2. g[k + 1] = g[k] + a[k + 1] /\ 20 * a[k + 1] < g[n]
        BY <1>1, <2>1
    <2>3. 20 * g[k] <= k * t
        BY <1>4
    <2>4. g[k] \in Nat /\ g[k + 1] \in Nat /\ a[k + 1] \in Nat
        BY <1>1, <2>1
    <2> HIDE DEF t, T
    <2>5. (k + 1) * t = k * t + t /\ k * t \in Nat
        BY <1>2, <2>1
    <2>6. 20 * g[k + 1] <= (k + 1) * t
        <3> DEFINE x == g[k]
                   y == a[k + 1]
                   z == g[k + 1]
                   u == k * t
                   v == (k + 1) * t
                   w == g[n]
        <3>1. /\ x \in Nat /\ y \in Nat /\ z \in Nat /\ u \in Nat /\ t \in Nat
              /\ w = t + 1 /\ v = u + t /\ z = x + y
              /\ 20 * y < w /\ 20 * x <= u
            BY <1>2, <2>2, <2>3, <2>4, <2>5
        <3> HIDE DEF x, y, z, u, v, w
        <3>2. 20 * z <= v
            BY <3>1
        <3> QED BY <3>2 DEF z, v
    <2> QED BY <2>1, <2>6 DEF T
<1>5. \A k \in 0..n : k \in T
    <2> HIDE DEF T
    <2> QED BY <1>1, <1>3, <1>4, UpTo
<1>6. 20 * g[n] <= n * t
    BY <1>1, <1>5
<1>7. n * t <= 20 * t
    <2>1. \A x, y \in Nat : x <= 20 => x * y <= 20 * y
        OBVIOUS
    <2> HIDE DEF t
    <2> QED BY <1>1, <1>2, <2>1
<1> QED
    <2> DEFINE w == g[n]
               u == n * t
    <2>1. t \in Nat /\ w = t + 1 /\ 20 * w <= u /\ u <= 20 * t /\ u \in Int
        <3>1. n * t \in Int
            BY <1>1, <1>2
        <3> QED BY <1>2, <1>6, <1>7, <3>1
    <2> HIDE DEF w, u, t
    <2> QED BY <2>1

LEMMA ChartsShown ==
    ASSUME insightsLoading \in BOOLEAN, InsightsView = "charts"
    PROVE  urls # <<>> /\ ActiveLinks # <<>>
BY DEF InsightsView

\* The parts of PieIsWhole and ColoursAgree, of links loaded newest first.
LEMMA PieFacts ==
    ASSUME LinksLoaded, insightsLoading \in BOOLEAN
    PROVE  PieIsWhole
<1> SUFFICES ASSUME InsightsView = "charts"
             PROVE  /\ FoldLeft(LAMBDA sum, s : sum + s.value, 0, PieData)
                        = StatCards.clicks
                    /\ \A i \in DOMAIN PieData : PieData[i].value > 0
                    /\ Len(PieData) <= MaxPie + 1
                    /\ PieData[1].link = StatCards.best
                    /\ PieLabels # {}
    BY DEF PieIsWhole
<1> DEFINE ranked == Sorted(ActiveLinks)
           o == Total(Others)
           L == Len(PieData)
           b == [i \in 1..L |-> PieData[i].value]
<1>1. urls # <<>> /\ ActiveLinks # <<>>
    BY ChartsShown
<1>2. /\ Len(ranked) \in Nat /\ Len(ranked) = Len(ActiveLinks)
      /\ \A p \in 1..Len(ranked) : Clicked(ranked[p]) /\ Sorted(urls)[p] = ranked[p]
    <2>1. ranked \in Seq(DOMAIN clicksSeen)
        BY RanksAgree
    <2>2. Len(ranked) \in Nat
        BY ONLY <2>1
    <2> QED BY <2>2, RanksAgree
<1>3. Len(ranked) >= 1 /\ ranked # <<>>
    <2>1. ActiveLinks \in Seq(DOMAIN clicksSeen)
        BY ActiveLinksAre DEF LinksLoaded
    <2>2. Len(ActiveLinks) >= 1
        <3> DEFINE l == ActiveLinks
        <3>1. l \in Seq(DOMAIN clicksSeen) /\ l # <<>>
            BY <1>1, <2>1
        <3> HIDE DEF l
        <3>2. Len(l) >= 1
            BY <3>1
        <3> QED BY <3>2 DEF l
    <2>3. Len(ranked) >= 1
        BY <1>2, <2>2
    <2> HIDE DEF ranked
    <2> QED BY <2>3
<1>4. /\ Own \in 1..Len(ranked) /\ Own <= MaxPie /\ o \in Nat /\ Own \in Nat
    <2> HIDE DEF ranked, o
    <2> QED BY <1>2, <1>3, OthersFacts DEF ranked, o
<1>5. /\ PieData \in Seq([link : Nat, value : Nat])
      /\ L = IF o > 0 THEN Own + 1 ELSE Own
      /\ \A i \in 1..Own :
            PieData[i] = [link |-> ranked[i], value |-> clicksSeen[ranked[i]]]
      /\ o > 0 => PieData[Own + 1] = [link |-> 0, value |-> o]
    BY PieDataIs
<1>6. MaxPie \in Nat /\ MaxPie < 20
    BY InsightsAssumption
<1>7. DOMAIN PieData = 1..L /\ L \in Nat
    <2> DEFINE S == [link : Nat, value : Nat]
    <2>1. PieData \in Seq(S)
        BY <1>5
    <2> HIDE DEF S
    <2> QED BY <2>1
<1> HIDE DEF ranked, o, L, b
<1>8. L >= 1 /\ L <= MaxPie + 1 /\ L <= 20 /\ 1 \in 1..Own
    BY <1>4, <1>5, <1>6
<1>9. PICK g : /\ Sums(g, b, L)
               /\ FoldLeft(LAMBDA sum, s : sum + s.value, 0, PieData) = g[L]
               /\ g[L] = Total(urls)
    BY PieAddsUp DEF b, L
<1>10. StatCards.clicks = Total(urls)
    BY DEF StatCards
<1>11. ASSUME NEW i \in DOMAIN PieData PROVE PieData[i].value > 0
    <2>1. CASE i \in 1..Own
        <3>1. Clicked(ranked[i])
            BY <1>2, <1>4, <2>1
        <3>2. PieData[i] = [link |-> ranked[i], value |-> clicksSeen[ranked[i]]]
            BY <1>5, <2>1
        <3>3. PieData[i].value = clicksSeen[ranked[i]]
            BY ONLY <3>2
        <3> QED BY <3>1, <3>3 DEF Clicked
    <2>2. CASE i \notin 1..Own
        <3>1. o > 0 /\ i = Own + 1
            BY <1>4, <1>5, <1>7, <2>2
        <3>2. PieData[i] = [link |-> 0, value |-> o]
            BY <1>5, <3>1
        <3> QED BY <3>1, <3>2
    <2> QED BY <2>1, <2>2
<1>12. PieData[1].link = StatCards.best
    <2>1. PieData[1].link = ranked[1]
        <3>1. PieData[1] = [link |-> ranked[1], value |-> clicksSeen[ranked[1]]]
            BY <1>5, <1>8
        <3> QED BY ONLY <3>1
    <2>2. 1 \in 1..Len(ranked)
        BY <1>4
    <2>3. Sorted(urls)[1] = ranked[1] /\ Clicked(ranked[1])
        BY <1>2, <2>2
    <2>4. StatCards.best = Sorted(urls)[1]
        BY <1>1, <2>3 DEF StatCards
    <2> QED BY <2>1, <2>3, <2>4
<1>13. PieLabels # {}
    <2>1. PICK i \in 1..L : 20 * b[i] >= g[L]
        BY <1>8, <1>9, OneIsATwentieth
    <2>2. b[i] = PieData[i].value
        BY DEF b
    <2>3. i \in PieLabels
        BY <1>7, <1>9, <2>1, <2>2 DEF PieLabels
    <2> QED BY <2>3
<1> QED BY <1>8, <1>9, <1>10, <1>11, <1>12, <1>13 DEF L

LEMMA ColourFacts ==
    ASSUME LinksLoaded, insightsLoading \in BOOLEAN
    PROVE  ColoursAgree
<1> DEFINE ranked == Sorted(ActiveLinks)
           all == Sorted(urls)
           o == Total(Others)
           L == Len(PieData)
           D == DOMAIN clicksSeen
<1>1. /\ urls \in Seq(D) /\ all \in Seq(D) /\ Len(all) = Len(urls)
    BY SortedByRank DEF LinksLoaded
<1>2. \A p \in 1..Len(ranked) : p \in 1..Len(urls) /\ all[p] = ranked[p]
    BY RanksAgree
<1>3. /\ Own \in 0..Len(ranked) /\ o \in Nat /\ Len(ranked) \in Nat
    <2>1. ranked \in Seq(D)
        BY RanksAgree
    <2>2. Len(ranked) \in Nat
        BY ONLY <2>1
    <2> QED BY <2>2, OthersFacts
<1>4. /\ PieData \in Seq([link : Nat, value : Nat])
      /\ L = IF o > 0 THEN Own + 1 ELSE Own
      /\ \A i \in 1..Own :
            PieData[i] = [link |-> ranked[i], value |-> clicksSeen[ranked[i]]]
      /\ o > 0 => PieData[Own + 1] = [link |-> 0, value |-> o]
    BY PieDataIs
<1>5. DOMAIN PieData = 1..L /\ L \in Nat
    <2> DEFINE S == [link : Nat, value : Nat]
    <2>1. PieData \in Seq(S)
        BY <1>4
    <2> HIDE DEF S
    <2> QED BY <2>1
<1>6. DOMAIN TableRows = 1..Len(urls) /\ TableRows = all
    BY <1>1 DEF TableRows
<1> HIDE DEF ranked, all, o, L
<1>7. ASSUME NEW p \in 1..Len(urls)
      PROVE  [link |-> all[p], colour |-> Colour(p)] \in TableDots
    BY <1>6 DEF TableDots
<1>8. ASSUME NEW c \in PieCells, c.link # 0 PROVE c \in TableDots
    <2>1. PICK i \in DOMAIN PieData :
            c = [link |-> PieData[i].link, colour |-> Colour(i)]
        BY DEF PieCells
    <2>2. PieData[i].link # 0
        BY <1>8, <2>1
    <2>3. i \in 1..Own
        <3>1. SUFFICES ASSUME i \notin 1..Own PROVE FALSE
            OBVIOUS
        <3>2. o > 0 /\ i = Own + 1
            BY <1>3, <1>4, <1>5, <3>1
        <3> QED BY <1>4, <2>2, <3>2
    <2>4. PieData[i].link = ranked[i]
        <3>1. PieData[i] = [link |-> ranked[i], value |-> clicksSeen[ranked[i]]]
            BY <1>4, <2>3
        <3> QED BY ONLY <3>1
    <2>5. i \in 1..Len(urls) /\ all[i] = ranked[i]
        BY <1>2, <1>3, <2>3
    <2> QED BY <1>7, <2>1, <2>4, <2>5
<1>9. ASSUME NEW c \in BarCells PROVE c \in TableDots
    <2>1. PICK i \in DOMAIN BarData : c = [link |-> BarData[i], colour |-> Colour(i)]
        BY DEF BarCells
    <2>2. MaxBar \in Nat
        BY InsightsAssumption
    <2> DEFINE s == Slice(all, MaxBar)
    <2>3. BarData = s
        BY DEF BarData, all
    <2>4. /\ s \in Seq(D) /\ Len(s) \in 0..Len(all)
          /\ \A j \in 1..Len(s) : s[j] = all[j]
        BY <1>1, <2>2, SliceFacts
    <2> HIDE DEF s
    <2>5. i \in 1..Len(s)
        BY <2>3, <2>4
    <2>6. Len(all) \in Nat
        BY <1>1
    <2>7. i \in 1..Len(urls) /\ BarData[i] = all[i]
        BY <1>1, <2>3, <2>4, <2>5, <2>6
    <2> QED BY <1>7, <2>1, <2>7
<1> QED BY <1>8, <1>9 DEF ColoursAgree

----------------------------------------------------------------------------
(* What is loaded.                                                         *)

\* The links on the page are the newest of those that were counted.
NewestFirst(n) == [i \in 1..Min({LinkLimit, n}) |-> n + 1 - i]

UrlsAreNewest ==
    urls = NewestFirst(Len(clicksSeen)) /\ Len(clicksSeen) <= MaxLinks

InsightsInv == InsightsTypeOK /\ Len(clickCount) <= MaxLinks /\ UrlsAreNewest

LEMMA NewestFacts ==
    ASSUME NEW n \in Nat
    PROVE  /\ NewestFirst(n) \in Seq(1..n)
           /\ Len(NewestFirst(n)) = Min({LinkLimit, n})
           /\ Len(NewestFirst(n)) \in 0..n
           /\ \A i \in 1..Len(NewestFirst(n)) : NewestFirst(n)[i] = n + 1 - i
<1>1. LinkLimit \in Nat
    BY InsightsAssumption
<1>2. Min({LinkLimit, n}) \in 0..n
    BY <1>1, MinFacts
<1> DEFINE m == Min({LinkLimit, n})
<1> HIDE DEF m
<1>3. m \in 0..n
    BY <1>2 DEF m
<1>4. \A i \in 1..m : n + 1 - i \in 1..n
    BY <1>3
<1>5. NewestFirst(n) = [i \in 1..m |-> n + 1 - i]
    BY DEF NewestFirst, m
<1>6. NewestFirst(n) \in Seq(1..n) /\ Len(NewestFirst(n)) = m
    BY <1>3, <1>4, <1>5
<1> QED BY <1>3, <1>5, <1>6 DEF m

LEMMA InsightsInitHolds == InsightsInit => InsightsInv
<1> SUFFICES ASSUME InsightsInit PROVE InsightsInv
    OBVIOUS
<1>1. PICK n \in 0..MaxLinks : clickCount \in [1..n -> 0..MaxClicks]
    BY DEF InsightsInit
<1>2. MaxLinks \in Nat
    BY InsightsAssumption
<1>3. clickCount \in Seq(0..MaxClicks) /\ Len(clickCount) <= MaxLinks
    <2>1. n \in Nat /\ n <= MaxLinks
        BY <1>2
    <2>2. clickCount \in Seq(0..MaxClicks) /\ Len(clickCount) = n
        <3>1. clickCount = [i \in 1..n |-> clickCount[i]]
            BY <1>1
        <3>2. \A i \in 1..n : clickCount[i] \in 0..MaxClicks
            BY <1>1
        <3>3. Len([i \in 1..n |-> clickCount[i]]) = n
            BY <2>1
        <3>4. [i \in 1..n |-> clickCount[i]] \in Seq(0..MaxClicks)
            BY <2>1, <3>2
        <3> QED BY <3>1, <3>3, <3>4
    <2> QED BY <2>1, <2>2
<1>4. urls = <<>> /\ clicksSeen = <<>>
      /\ {insightsLoading, loadingAll, mounted} \subseteq BOOLEAN
    BY DEF InsightsInit
<1>5. ASSUME NEW k \in Nat, k = 0 PROVE NewestFirst(k) = <<>>
    <2>1. NewestFirst(k) \in Seq(1..k) /\ Len(NewestFirst(k)) \in 0..k
        BY NewestFacts
    <2> QED BY <1>5, <2>1
<1>6. NewestFirst(0) = <<>>
    BY <1>5
<1> QED BY <1>2, <1>3, <1>4, <1>6 DEF InsightsInv, InsightsTypeOK, UrlsAreNewest

LEMMA InsightsStep == InsightsInv /\ [InsightsNext]_insightsVars => InsightsInv'
<1> SUFFICES ASSUME InsightsInv, [InsightsNext]_insightsVars PROVE InsightsInv'
    OBVIOUS
<1>0. /\ clickCount \in Seq(0..MaxClicks) /\ Len(clickCount) <= MaxLinks
      /\ MaxLinks \in Nat /\ MaxClicks \in Nat
      /\ {insightsLoading, loadingAll, mounted} \subseteq BOOLEAN
    BY InsightsAssumption DEF InsightsInv, InsightsTypeOK
<1>1. CASE LinkClicked
    <2>1. PICK u \in DOMAIN clickCount :
            /\ clickCount[u] < MaxClicks
            /\ clickCount' = [clickCount EXCEPT ![u] = @ + 1]
        BY <1>1 DEF LinkClicked, Links
    <2>2. clickCount[u] + 1 \in 0..MaxClicks
        BY <1>0, <2>1
    <2>3. clickCount' \in Seq(0..MaxClicks) /\ Len(clickCount') = Len(clickCount)
        BY <1>0, <2>1, <2>2
    <2>4. UNCHANGED <<urls, clicksSeen, insightsLoading, loadingAll, mounted>>
        BY <1>1 DEF LinkClicked
    <2> QED BY <1>0, <2>3, <2>4 DEF InsightsInv, InsightsTypeOK, UrlsAreNewest
<1>2. CASE InsightsLoaded
    <2>1. /\ UNCHANGED <<clickCount, mounted>> /\ loadingAll' \in BOOLEAN
          /\ insightsLoading' \in BOOLEAN
        BY <1>0, <1>2 DEF InsightsLoaded
    <2>2. CASE UNCHANGED <<urls, clicksSeen>>
        BY <1>0, <2>1, <2>2 DEF InsightsInv, InsightsTypeOK, UrlsAreNewest
    <2>3. CASE urls' = GetUrls /\ clicksSeen' = clickCount
        <3>1. urls' = NewestFirst(Len(clickCount))
            BY <2>3 DEF GetUrls, NewestFirst
        <3>2. Len(clickCount) \in Nat
            BY <1>0
        <3>3. urls' \in Seq(1..Len(clickCount))
            BY <3>1, <3>2, NewestFacts
        <3>4. urls' \in Seq(1..MaxLinks)
            BY <1>0, <3>2, <3>3
        <3> QED BY <1>0, <2>1, <2>3, <3>1, <3>4
                DEF InsightsInv, InsightsTypeOK, UrlsAreNewest
    <2> QED BY <1>2, <2>2, <2>3 DEF InsightsLoaded
<1>3. CASE InsightsFailed \/ LeaveInsights
    <2>1. /\ UNCHANGED <<clickCount, urls, clicksSeen>>
          /\ {insightsLoading', loadingAll', mounted'} \subseteq BOOLEAN
        BY <1>0, <1>3 DEF InsightsFailed, LeaveInsights
    <2> QED BY <1>0, <2>1 DEF InsightsInv, InsightsTypeOK, UrlsAreNewest
<1>4. CASE UNCHANGED insightsVars
    BY <1>4 DEF insightsVars, InsightsInv, InsightsTypeOK, UrlsAreNewest
<1> QED BY <1>1, <1>2, <1>3, <1>4 DEF InsightsNext

LEMMA InsightsInvariant == InsightsSpec => []InsightsInv
BY InsightsInitHolds, InsightsStep, PTL DEF InsightsSpec

\* What is loaded is loaded newest first.
LEMMA InvGivesLinksLoaded ==
    ASSUME InsightsInv
    PROVE  LinksLoaded /\ insightsLoading \in BOOLEAN
<1> DEFINE n == Len(clicksSeen)
<1>1. clicksSeen \in Seq(0..MaxClicks) /\ insightsLoading \in BOOLEAN
    BY DEF InsightsInv, InsightsTypeOK
<1>2. clicksSeen \in Seq(Nat) /\ n \in Nat /\ DOMAIN clicksSeen = 1..n
    <2> DEFINE S == 0..MaxClicks
    <2>1. S \subseteq Nat /\ clicksSeen \in Seq(S)
        BY <1>1, InsightsAssumption
    <2> HIDE DEF S
    <2>2. n \in Nat /\ DOMAIN clicksSeen = 1..n
        BY <2>1
    <2>3. clicksSeen \in Seq(Nat)
        <3>1. \A i \in 1..n : clicksSeen[i] \in Nat
            <4>1. \A i \in 1..n : clicksSeen[i] \in S
                BY <2>1
            <4>2. \A x \in S : x \in Nat
                BY <2>1
            <4> HIDE DEF n
            <4> QED BY <4>1, <4>2
        <3>2. clicksSeen = [i \in 1..n |-> clicksSeen[i]]
            BY <2>1
        <3> HIDE DEF n
        <3>3. [i \in 1..n |-> clicksSeen[i]] \in Seq(Nat)
            BY <2>2, <3>1
        <3> QED BY <3>2, <3>3
    <2> QED BY <2>2, <2>3
<1>3. urls = NewestFirst(n)
    BY DEF InsightsInv, UrlsAreNewest
<1> HIDE DEF n
<1>4. /\ urls \in Seq(1..n) /\ Len(urls) \in 0..n
      /\ \A i \in 1..Len(urls) : urls[i] = n + 1 - i
    BY <1>2, <1>3, NewestFacts
<1>5. Falling(urls)
    BY <1>2, <1>4 DEF Falling
<1> QED BY <1>1, <1>2, <1>4, <1>5 DEF LinksLoaded

\* The slices of the pie, that of the others included, add up to the total on
\* the card, none is empty, the first is the best link's, and one has a label.
THEOREM ThePieIsWhole == InsightsSpec => []PieIsWhole
<1>1. InsightsInv => PieIsWhole
    BY InvGivesLinksLoaded, PieFacts
<1> QED BY InsightsInvariant, <1>1, PTL

\* A link has the same colour in the pie, in the bars and in the table, though
\* the pie ranks the links with clicks and the others rank all of them.
THEOREM LinksKeepTheirColour == InsightsSpec => []ColoursAgree
<1>1. InsightsInv => ColoursAgree
    BY InvGivesLinksLoaded, ColourFacts
<1> QED BY InsightsInvariant, <1>1, PTL
=============================================================================
