-------------------------- MODULE NodeSplitProofs --------------------------
(***************************************************************************)
(* Lemmas about the operators of BoundingBox and about the steps of a      *)
(* split, for every number of dimensions and every admissible size of a    *)
(* node.  The proofs about SplitCalls, which splits node after node, and   *)
(* about SpatialIndex, which splits the nodes of its tree, cite them.      *)
(***************************************************************************)
EXTENDS NodeSplit, FiniteSetTheorems, WellFoundedInduction, TLAPS

-----------------------------------------------------------------------------
\* A non-empty collection of finite sets has a minimal one: the form of
\* induction used below.
LEMMA MinimalSet ==
    ASSUME NEW U, NEW C \in SUBSET FiniteSubsetsOf(U), C # {}
    PROVE  \E X \in C : \A Y \in C : Y \subseteq X => Y = X
  <1>1. PICK X \in C : \A Y \in C : ~ (<<Y, X>> \in StrictSubsetOrdering(U))
    BY FS_StrictSubsetOrderingWellFounded, WFMin
  <1> QED
    BY <1>1 DEF StrictSubsetOrdering, FiniteSubsetsOf

\* A non-empty set of naturals has a least element.
LEMMA LeastNat ==
    ASSUME NEW T \in SUBSET Nat, T # {}
    PROVE  \E n \in T : \A k \in T : n <= k
  <1> DEFINE C == {0 .. n : n \in T}
  <1>1. C \in SUBSET FiniteSubsetsOf(Nat) /\ C # {}
    <2>1. ASSUME NEW n \in T PROVE 0 .. n \in FiniteSubsetsOf(Nat)
      <3>1. n \in Nat
        OBVIOUS
      <3>2. IsFiniteSet(0 .. n)
        BY <3>1, FS_Interval
      <3> QED
        BY <3>1, <3>2 DEF FiniteSubsetsOf
    <2> QED
      BY <2>1
  <1>2. PICK X \in C : \A Y \in C : Y \subseteq X => Y = X
    <2> HIDE DEF C
    <2> QED
      BY <1>1, MinimalSet
  <1>3. PICK n \in T : X = 0 .. n
    OBVIOUS
  <1>4. ASSUME NEW k \in T PROVE n <= k
    <2> SUFFICES ASSUME k < n PROVE FALSE
      OBVIOUS
    <2>1. 0 .. k \subseteq 0 .. n /\ n \in 0 .. n /\ n \notin 0 .. k
      OBVIOUS
    <2> QED
      BY <1>2, <1>3, <2>1
  <1> QED
    BY <1>4

\* A finite non-empty set of integers has a least and a greatest element.
LEMMA FiniteExtrema ==
    ASSUME NEW S \in SUBSET Int, IsFiniteSet(S), S # {}
    PROVE  /\ Min(S) \in S /\ \A x \in S : Min(S) <= x
           /\ Max(S) \in S /\ \A x \in S : x <= Max(S)
  <1> DEFINE Bounded(X) == /\ \E lo \in X : \A x \in X : lo <= x
                           /\ \E hi \in X : \A x \in X : x <= hi
             Bad == {X \in FiniteSubsetsOf(Int) : X # {} /\ ~ Bounded(X)}
  <1>1. Bad = {}
    <2> SUFFICES ASSUME Bad # {} PROVE FALSE
      OBVIOUS
    <2>1. PICK X \in Bad : \A Y \in Bad : Y \subseteq X => Y = X
      <3>1. Bad \in SUBSET FiniteSubsetsOf(Int)
        OBVIOUS
      <3> HIDE DEF Bad
      <3> QED
        BY <3>1, MinimalSet
    <2>2. X \in SUBSET Int /\ IsFiniteSet(X) /\ X # {} /\ ~ Bounded(X)
      BY DEF FiniteSubsetsOf
    <2>3. PICK e \in X : TRUE
      BY <2>2
    <2>4. X \ {e} \in FiniteSubsetsOf(Int)
      BY <2>2, <2>3, FS_RemoveElement DEF FiniteSubsetsOf
    <2>5. CASE X \ {e} = {}
      <3>1. X = {e} /\ e \in Int
        BY <2>2, <2>3, <2>5
      <3> QED
        BY <2>2, <3>1
    <2>6. CASE X \ {e} # {}
      <3>1. X \ {e} \notin Bad
        BY <2>1, <2>3
      <3>2. Bounded(X \ {e})
        BY <2>4, <2>6, <3>1
      <3>3. PICK lo \in X \ {e} : \A x \in X \ {e} : lo <= x
        BY <3>2
      <3>4. PICK hi \in X \ {e} : \A x \in X \ {e} : x <= hi
        BY <3>2
      <3>5. X \subseteq Int /\ lo \in Int /\ hi \in Int /\ e \in Int
        BY <2>2, <2>3, <3>3, <3>4
      <3>6. \E m \in X : \A x \in X : m <= x
        <4>1. CASE lo <= e
          BY <3>3, <4>1
        <4>2. CASE ~ (lo <= e)
          BY <2>3, <3>3, <3>5, <4>2
        <4> QED
          BY <4>1, <4>2
      <3>7. \E m \in X : \A x \in X : x <= m
        <4>1. CASE e <= hi
          BY <3>4, <4>1
        <4>2. CASE ~ (e <= hi)
          BY <2>3, <3>4, <3>5, <4>2
        <4> QED
          BY <4>1, <4>2
      <3> QED
        BY <2>2, <3>6, <3>7
    <2> QED
      BY <2>5, <2>6
  <1>2. Bounded(S)
    BY <1>1 DEF FiniteSubsetsOf
  <1>3. Min(S) \in S /\ \A x \in S : Min(S) <= x
    BY <1>2 DEF Min
  <1>4. Max(S) \in S /\ \A x \in S : x <= Max(S)
    BY <1>2 DEF Max
  <1> QED
    BY <1>3, <1>4
-----------------------------------------------------------------------------
\* Boxes stay boxes: their edges ordered, when two of them are united.
LEMMA UnionBoxType ==
    ASSUME NEW a \in Box, NEW b \in Box
    PROVE  UnionBox(a, b) \in Box
  BY DEF Box, AnyBox, EDGE, UnionBox, Edge, Lesser, Greater

\* The default box is a box.
LEMMA OriginType == Origin \in Box
  BY DEF Box, AnyBox, EDGE, Origin, Edge

\* b is the smallest box around the boxes of S: it encloses them all and each
\* of its bounds is one of theirs.
IsCover(b, S) ==
    /\ b \in Box
    /\ \A x \in S : encloses(b, x)
    /\ \A i \in Axes : /\ \E x \in S : x[i].first = b[i].first
                       /\ \E x \in S : x[i].second = b[i].second

\* What a box is: two integers for every axis, in order.
LEMMA BoxEdges ==
    ASSUME NEW b \in Box
    PROVE  /\ b = [i \in Axes |-> [first |-> b[i].first, second |-> b[i].second]]
           /\ \A i \in Axes : /\ b[i].first \in Int /\ b[i].second \in Int
                              /\ b[i].first <= b[i].second
  <1>1. b \in [Axes -> EDGE]
    BY DEF Box, AnyBox
  <1>2. \A i \in Axes : b[i] = [first |-> b[i].first, second |-> b[i].second]
    BY <1>1 DEF EDGE
  <1>3. b = [i \in Axes |-> [first |-> b[i].first, second |-> b[i].second]]
    BY <1>1, <1>2
  <1> QED
    BY <1>1, <1>3 DEF Box, EDGE

\* Boxes with the same bounds are the same.
LEMMA BoxEquality ==
    ASSUME NEW a \in Box, NEW b \in Box,
           \A i \in Axes : a[i].first = b[i].first /\ a[i].second = b[i].second
    PROVE  a = b
  <1>1. [i \in Axes |-> [first |-> a[i].first, second |-> a[i].second]]
          = [i \in Axes |-> [first |-> b[i].first, second |-> b[i].second]]
    OBVIOUS
  <1> QED
    BY <1>1, BoxEdges

\* The bounds of a united box.
LEMMA UnionBoxEdges ==
    ASSUME NEW a \in Box, NEW b \in Box, NEW i \in Axes
    PROVE  /\ UnionBox(a, b)[i].first
                = IF a[i].first <= b[i].first THEN a[i].first ELSE b[i].first
           /\ UnionBox(a, b)[i].second
                = IF a[i].second >= b[i].second THEN a[i].second ELSE b[i].second
  BY DEF UnionBox, Edge, Lesser, Greater

\* There is only one smallest box around a set.
LEMMA CoverUnique ==
    ASSUME NEW S \in SUBSET Box, NEW a, NEW b, IsCover(a, S), IsCover(b, S)
    PROVE  a = b
  <1>1. a \in Box /\ b \in Box
    BY DEF IsCover
  <1>2. ASSUME NEW i \in Axes
        PROVE  a[i].first = b[i].first /\ a[i].second = b[i].second
    <2>1. /\ a[i].first \in Int /\ b[i].first \in Int
          /\ a[i].second \in Int /\ b[i].second \in Int
      BY <1>1, BoxEdges
    <2>2. a[i].first <= b[i].first /\ b[i].first <= a[i].first
      BY DEF IsCover, encloses
    <2>3. a[i].second <= b[i].second /\ b[i].second <= a[i].second
      BY DEF IsCover, encloses
    <2> QED
      BY <2>1, <2>2, <2>3
  <1> QED
    BY <1>1, <1>2, BoxEquality

\* Cover is that box.
LEMMA CoverIsCover ==
    ASSUME NEW S \in SUBSET Box, IsFiniteSet(S), S # {}
    PROVE  IsCover(Cover(S), S)
  <1> DEFINE lows(i) == {x[i].first : x \in S}
             highs(i) == {x[i].second : x \in S}
  <1>1. ASSUME NEW i \in Axes
        PROVE  /\ lows(i) \in SUBSET Int /\ highs(i) \in SUBSET Int
               /\ lows(i) # {} /\ highs(i) # {}
               /\ IsFiniteSet(lows(i)) /\ IsFiniteSet(highs(i))
    <2>1. IsFiniteSet(lows(i)) /\ IsFiniteSet(highs(i))
      <3>1. [x \in S |-> x[i].first] \in Surjection(S, lows(i))
        BY DEF Surjection
      <3>2. [x \in S |-> x[i].second] \in Surjection(S, highs(i))
        BY DEF Surjection
      <3> HIDE DEF lows, highs
      <3> QED
        BY <3>1, <3>2, FS_Surjection
    <2>2. \A x \in S : x[i].first \in Int /\ x[i].second \in Int
      BY BoxEdges
    <2> QED
      BY <2>1, <2>2
  <1>2. ASSUME NEW i \in Axes
        PROVE  /\ Min(lows(i)) \in lows(i)
               /\ \A x \in S : Min(lows(i)) <= x[i].first
               /\ Max(highs(i)) \in highs(i)
               /\ \A x \in S : x[i].second <= Max(highs(i))
    <2>1. /\ Min(lows(i)) \in lows(i) /\ \A v \in lows(i) : Min(lows(i)) <= v
          /\ Max(highs(i)) \in highs(i) /\ \A v \in highs(i) : v <= Max(highs(i))
      <3> HIDE DEF lows, highs
      <3> QED
        BY <1>1, FiniteExtrema
    <2> QED
      BY <2>1
  <1>3. ASSUME NEW i \in Axes
        PROVE  /\ Cover(S)[i].first = Min(lows(i))
               /\ Cover(S)[i].second = Max(highs(i))
               /\ Cover(S)[i] \in EDGE
               /\ Min(lows(i)) <= Max(highs(i))
    <2>1. Min(lows(i)) \in Int /\ Max(highs(i)) \in Int
      <3> HIDE DEF lows, highs
      <3> QED
        BY <1>1, <1>2
    <2>2. PICK x \in S : TRUE
      OBVIOUS
    <2>3. /\ x[i].first \in Int /\ x[i].second \in Int
          /\ x[i].first <= x[i].second
      BY BoxEdges
    <2>4. Min(lows(i)) <= Max(highs(i))
      <3>1. Min(lows(i)) <= x[i].first /\ x[i].second <= Max(highs(i))
        BY <1>2
      <3> HIDE DEF lows, highs
      <3> QED
        BY <2>1, <2>3, <3>1
    <2>5. Cover(S)[i] = [first |-> Min(lows(i)), second |-> Max(highs(i))]
      BY DEF Cover, Edge
    <2> HIDE DEF lows, highs
    <2> QED
      BY <2>1, <2>4, <2>5 DEF EDGE
  <1>4. Cover(S) \in Box
    <2>1. Cover(S) \in [Axes -> EDGE]
      <3>1. Cover(S) = [i \in Axes |-> Cover(S)[i]]
        BY DEF Cover
      <3> QED
        BY <1>3, <3>1
    <2> QED
      BY <1>3, <2>1 DEF Box, AnyBox
  <1>5. \A x \in S : encloses(Cover(S), x)
    BY <1>2, <1>3 DEF encloses
  <1>6. ASSUME NEW i \in Axes
        PROVE  /\ \E x \in S : x[i].first = Cover(S)[i].first
               /\ \E x \in S : x[i].second = Cover(S)[i].second
    BY <1>2, <1>3
  <1> QED
    BY <1>4, <1>5, <1>6 DEF IsCover

\* The smallest box around two sets together.
LEMMA CoverOfUnion ==
    ASSUME NEW S \in SUBSET Box, NEW T \in SUBSET Box, NEW a, NEW b,
           IsCover(a, S), IsCover(b, T)
    PROVE  IsCover(UnionBox(a, b), S \cup T)
  <1>1. a \in Box /\ b \in Box /\ UnionBox(a, b) \in Box
    BY UnionBoxType DEF IsCover
  <1>2. ASSUME NEW i \in Axes
        PROVE  /\ \A x \in S \cup T :
                    /\ UnionBox(a, b)[i].first <= x[i].first
                    /\ x[i].second <= UnionBox(a, b)[i].second
               /\ \E x \in S \cup T : x[i].first = UnionBox(a, b)[i].first
               /\ \E x \in S \cup T : x[i].second = UnionBox(a, b)[i].second
    <2>1. /\ a[i].first \in Int /\ b[i].first \in Int
          /\ a[i].second \in Int /\ b[i].second \in Int
      BY <1>1, BoxEdges
    <2>2. /\ \A x \in S : a[i].first <= x[i].first /\ x[i].second <= a[i].second
          /\ \A x \in T : b[i].first <= x[i].first /\ x[i].second <= b[i].second
          /\ \A x \in S \cup T : x[i].first \in Int /\ x[i].second \in Int
      BY BoxEdges DEF IsCover, encloses
    <2>3. /\ \E x \in S : x[i].first = a[i].first
          /\ \E x \in S : x[i].second = a[i].second
          /\ \E x \in T : x[i].first = b[i].first
          /\ \E x \in T : x[i].second = b[i].second
      BY DEF IsCover
    <2> QED
      BY <1>1, <2>1, <2>2, <2>3, UnionBoxEdges
  <1> QED
    BY <1>1, <1>2 DEF IsCover, encloses

\* The smallest box around one box is that box.
LEMMA CoverOfOne ==
    ASSUME NEW b \in Box
    PROVE  IsCover(b, {b})
  BY BoxEdges DEF IsCover, encloses

\* When one box of a set grows by r, so does the smallest box around the set.
LEMMA CoverGrows ==
    ASSUME NEW others \in SUBSET Box, NEW e \in Box, NEW r \in Box, NEW c,
           IsCover(c, others \cup {e})
    PROVE  IsCover(UnionBox(c, r), others \cup {UnionBox(e, r)})
  <1>1. c \in Box /\ UnionBox(c, r) \in Box /\ UnionBox(e, r) \in Box
    BY UnionBoxType DEF IsCover
  <1>2. ASSUME NEW i \in Axes
        PROVE  /\ \A x \in others \cup {UnionBox(e, r)} :
                    /\ UnionBox(c, r)[i].first <= x[i].first
                    /\ x[i].second <= UnionBox(c, r)[i].second
               /\ \E x \in others \cup {UnionBox(e, r)} :
                    x[i].first = UnionBox(c, r)[i].first
               /\ \E x \in others \cup {UnionBox(e, r)} :
                    x[i].second = UnionBox(c, r)[i].second
    <2>1. /\ c[i].first \in Int /\ e[i].first \in Int /\ r[i].first \in Int
          /\ c[i].second \in Int /\ e[i].second \in Int /\ r[i].second \in Int
          /\ \A x \in others : x[i].first \in Int /\ x[i].second \in Int
      BY <1>1, BoxEdges
    <2>2. /\ \A x \in others : /\ c[i].first <= x[i].first
                               /\ x[i].second <= c[i].second
          /\ c[i].first <= e[i].first /\ e[i].second <= c[i].second
      BY DEF IsCover, encloses
    <2>3. /\ \E x \in others \cup {e} : x[i].first = c[i].first
          /\ \E x \in others \cup {e} : x[i].second = c[i].second
      BY DEF IsCover
    <2>4. /\ UnionBox(c, r)[i].first
               = IF c[i].first <= r[i].first THEN c[i].first ELSE r[i].first
          /\ UnionBox(c, r)[i].second
               = IF c[i].second >= r[i].second THEN c[i].second ELSE r[i].second
          /\ UnionBox(e, r)[i].first
               = IF e[i].first <= r[i].first THEN e[i].first ELSE r[i].first
          /\ UnionBox(e, r)[i].second
               = IF e[i].second >= r[i].second THEN e[i].second ELSE r[i].second
      BY <1>1, UnionBoxEdges
    <2>5. \A x \in others \cup {UnionBox(e, r)} :
            /\ UnionBox(c, r)[i].first <= x[i].first
            /\ x[i].second <= UnionBox(c, r)[i].second
      BY <2>1, <2>2, <2>4
    <2>6. \E x \in others \cup {UnionBox(e, r)} :
            x[i].first = UnionBox(c, r)[i].first
      BY <2>1, <2>2, <2>3, <2>4
    <2>7. \E x \in others \cup {UnionBox(e, r)} :
            x[i].second = UnionBox(c, r)[i].second
      BY <2>1, <2>2, <2>3, <2>4
    <2> QED
      BY <2>5, <2>6, <2>7
  <1> QED
    BY <1>1, <1>2 DEF IsCover, encloses

\* Two boxes may take the place of the smallest box around them.
LEMMA CoverOfParts ==
    ASSUME NEW others \in SUBSET Box, NEW a \in Box, NEW b \in Box, NEW c,
           IsCover(c, others \cup {UnionBox(a, b)})
    PROVE  IsCover(c, others \cup {a, b})
  <1>1. c \in Box
    BY DEF IsCover
  <1>2. ASSUME NEW i \in Axes
        PROVE  /\ \A x \in others \cup {a, b} : /\ c[i].first <= x[i].first
                                                /\ x[i].second <= c[i].second
               /\ \E x \in others \cup {a, b} : x[i].first = c[i].first
               /\ \E x \in others \cup {a, b} : x[i].second = c[i].second
    <2>1. /\ a[i].first \in Int /\ b[i].first \in Int
          /\ a[i].second \in Int /\ b[i].second \in Int
          /\ c[i].first \in Int /\ c[i].second \in Int
      BY <1>1, BoxEdges
    <2>2. /\ \A x \in others : /\ c[i].first <= x[i].first
                               /\ x[i].second <= c[i].second
          /\ c[i].first <= UnionBox(a, b)[i].first
          /\ UnionBox(a, b)[i].second <= c[i].second
      BY DEF IsCover, encloses
    <2>3. /\ \E x \in others \cup {UnionBox(a, b)} : x[i].first = c[i].first
          /\ \E x \in others \cup {UnionBox(a, b)} : x[i].second = c[i].second
      BY DEF IsCover
    <2>4. /\ UnionBox(a, b)[i].first \in {a[i].first, b[i].first}
          /\ UnionBox(a, b)[i].first <= a[i].first
          /\ UnionBox(a, b)[i].first <= b[i].first
          /\ UnionBox(a, b)[i].second \in {a[i].second, b[i].second}
          /\ UnionBox(a, b)[i].second >= a[i].second
          /\ UnionBox(a, b)[i].second >= b[i].second
      BY <2>1, UnionBoxEdges
    <2> QED
      BY <2>1, <2>2, <2>3, <2>4
  <1> QED
    BY <1>1, <1>2 DEF IsCover, encloses
-----------------------------------------------------------------------------
\* f holds the products of the first edge lengths of b, from none of them up
\* to top of them.
IsProducts(b, f, top) ==
    f = [n \in 0 .. top |->
           IF n = 0 THEN 1
           ELSE times[f[n - 1]][length(b, n - 1)]]

\* There are such products for every number of axes.
LEMMA ProductsExist ==
    ASSUME NEW b
    PROVE  \A top \in Nat : \E f : IsProducts(b, f, top)
  <1> DEFINE Bad == {n \in Nat : ~ \E f : IsProducts(b, f, n)}
  <1> SUFFICES ASSUME Bad # {} PROVE FALSE
    OBVIOUS
  <1>1. PICK n \in Bad : \A k \in Bad : n <= k
    <2>1. Bad \in SUBSET Nat
      OBVIOUS
    <2> HIDE DEF Bad
    <2> QED
      BY <2>1, LeastNat
  <1>2. n \in Nat /\ ~ \E f : IsProducts(b, f, n)
    OBVIOUS
  <1>3. n # 0
    <2>1. IsProducts(b, [k \in 0 .. 0 |-> 1], 0)
      BY DEF IsProducts
    <2> QED
      BY <1>2, <2>1
  <1>4. n - 1 \in Nat /\ n - 1 \notin Bad
    BY <1>1, <1>2, <1>3
  <1>5. PICK f : IsProducts(b, f, n - 1)
    BY <1>4
  <1> DEFINE g == [k \in 0 .. n |->
                     IF k = n THEN times[f[n - 1]][length(b, n - 1)]
                     ELSE f[k]]
  <1>6. ASSUME NEW k \in 0 .. n
        PROVE  g[k] = IF k = 0 THEN 1
                      ELSE times[g[k - 1]][length(b, k - 1)]
    <2>1. CASE k = n
      <3>1. g[k] = times[f[n - 1]][length(b, n - 1)]
        BY <2>1
      <3>2. g[k - 1] = f[n - 1]
        BY <1>2, <1>3, <2>1
      <3> QED
        BY <1>3, <2>1, <3>1, <3>2
    <2>2. CASE k # n
      <3>1. k \in 0 .. n - 1 /\ g[k] = f[k]
        BY <1>2, <2>2
      <3>2. f[k] = IF k = 0 THEN 1
                   ELSE times[f[k - 1]][length(b, k - 1)]
        BY <1>5, <3>1 DEF IsProducts
      <3>3. k # 0 => g[k - 1] = f[k - 1]
        BY <1>2, <3>1
      <3> QED
        BY <3>1, <3>2, <3>3
    <2> QED
      BY <2>1, <2>2
  <1>7. IsProducts(b, g, n)
    <2>1. g = [k \in 0 .. n |-> g[k]]
      OBVIOUS
    <2> HIDE DEF g
    <2> QED
      BY <1>6, <2>1 DEF IsProducts
  <1> QED
    BY <1>2, <1>7

\* The area of a box is the last of its products.
LEMMA AreaIsProduct ==
    ASSUME NEW b
    PROVE  \E f : IsProducts(b, f, Dimensions) /\ area(b) = f[Dimensions]
  <1> DEFINE step(f) == [n \in 0 .. Dimensions |->
                           IF n = 0 THEN 1
                           ELSE times[f[n - 1]][length(b, n - 1)]]
             product == CHOOSE f : f = step(f)
  <1>1. \E f : f = step(f)
    BY DimensionsAssumption, ProductsExist DEF IsProducts
  <1>2. product = step(product)
    <2> HIDE DEF step
    <2> QED
      BY <1>1
  <1>3. area(b) = product[Dimensions]
    BY DEF area
  <1>4. IsProducts(b, product, Dimensions)
    <2> HIDE DEF product
    <2> QED
      BY <1>2 DEF IsProducts
  <1> QED
    <2> HIDE DEF product
    <2> QED
      BY <1>3, <1>4

\* A longer factor makes a product of naturals no smaller.
LEMMA ProductGrows ==
    ASSUME NEW a \in Nat, NEW b \in Nat, NEW c \in Nat, NEW d \in Nat,
           a <= b, c <= d
    PROVE  a * c \in Nat /\ b * d \in Nat /\ a * c <= b * d
  <1>1. a * c \in Nat /\ b * d \in Nat /\ b * c \in Nat
    OBVIOUS
  <1>2. PICK x \in Nat : b = a + x
    <2>1. b - a \in Nat /\ b = a + (b - a)
      OBVIOUS
    <2> QED
      BY <2>1
  <1>3. PICK y \in Nat : d = c + y
    <2>1. d - c \in Nat /\ d = c + (d - c)
      OBVIOUS
    <2> QED
      BY <2>1
  <1>4. b * c = a * c + x * c /\ x * c \in Nat
    BY <1>2
  <1>5. b * d = b * c + b * y /\ b * y \in Nat
    BY <1>3
  <1> QED
    BY <1>1, <1>4, <1>5

\* What comes out of a length is finite or infinite, never no number.
Length == Finite \cup {Infinity}

LEMMA RoundedFacts ==
    ASSUME NEW x \in Nat
    PROVE  /\ rounded[x] \in Length
           /\ rounded[x] \in Finite => rounded[x] = x
           /\ x <= MaxArea => rounded[x] = x /\ rounded[x] \in Finite
  BY MaxAreaAssumption DEF rounded, Lesser, Length, Finite, Infinity

LEMMA LengthFacts ==
    ASSUME NEW a \in Box, NEW b \in Box, encloses(b, a), NEW i \in Axes
    PROVE  /\ length(a, i) \in Length /\ length(b, i) \in Length
           /\ length(b, i) \in Finite =>
                length(a, i) \in Finite /\ length(a, i) <= length(b, i)
  <1>1. /\ a[i].first \in Int /\ a[i].second \in Int
        /\ b[i].first \in Int /\ b[i].second \in Int
        /\ a[i].first <= a[i].second
    BY BoxEdges
  <1>2. b[i].first <= a[i].first /\ a[i].second <= b[i].second
    BY DEF encloses
  <1>3. PICK m \in Nat, n \in Nat :
          m = a[i].second - a[i].first /\ n = b[i].second - b[i].first /\ m <= n
    BY <1>1, <1>2
  <1>4. length(a, i) = rounded[m] /\ length(b, i) = rounded[n]
    BY <1>3 DEF length
  <1>5. rounded[n] \in Finite => n <= MaxArea
    BY <1>3, RoundedFacts, MaxAreaAssumption DEF Finite
  <1> QED
    BY <1>3, <1>4, <1>5, RoundedFacts, MaxAreaAssumption

\* A product is finite only if both factors are, and then it is exact.
LEMMA TimesFacts ==
    ASSUME NEW x \in Double, NEW y \in Length
    PROVE  /\ times[x][y] \in Double
           /\ times[x][y] \in Finite =>
                x \in Finite /\ y \in Finite /\ times[x][y] = x * y
  <1>0. MaxArea \in Nat /\ MaxArea >= 1 /\ Infinity = MaxArea + 1 /\ NaN = -1
    BY MaxAreaAssumption DEF Infinity, NaN
  <1>1. y \in Double /\ y \in Nat /\ Infinity \in Nat
    BY <1>0 DEF Length, Double, Finite
  <1>2. times[x][y] = IF x = NaN \/ y = NaN \/ {x, y} = {0, Infinity} THEN NaN
                      ELSE rounded[x * y]
    BY <1>1 DEF times
  <1>3. NaN \in Double /\ NaN \notin Finite /\ Length \subseteq Double
    BY <1>0 DEF Double, Length, Finite
  <1>4. CASE x = NaN \/ {x, y} = {0, Infinity}
    BY <1>2, <1>3, <1>4
  <1>5. CASE x # NaN /\ {x, y} # {0, Infinity}
    <2>1. y # NaN
      BY <1>0, <1>1
    <2>2. times[x][y] = rounded[x * y]
      BY <1>2, <1>5, <2>1
    <2>3. x \in Nat
      BY <1>0, <1>5 DEF Double, Finite
    <2>4. x * y \in Nat
      BY <1>1, <2>3, ProductGrows
    <2>5. rounded[x * y] \in Length
          /\ (rounded[x * y] \in Finite => rounded[x * y] = x * y)
      BY <2>4, RoundedFacts
    <2>6. ASSUME rounded[x * y] \in Finite PROVE x \in Finite /\ y \in Finite
      <3>1. x * y <= MaxArea
        BY <2>5, <2>6 DEF Finite
      <3>2. CASE x = Infinity
        <4>1. y >= 1
          BY <1>1, <1>5, <3>2
        <4>2. Infinity * 1 <= x * y
          BY <1>1, <3>2, <4>1, ProductGrows
        <4> QED
          BY <1>0, <2>4, <3>1, <4>2
      <3>3. CASE y = Infinity
        <4>1. x >= 1
          BY <2>3, <1>5, <3>3
        <4>2. 1 * Infinity <= x * y
          BY <1>1, <2>3, <3>3, <4>1, ProductGrows
        <4> QED
          BY <1>0, <2>4, <3>1, <4>2
      <3> QED
        BY <1>5, <3>2, <3>3 DEF Double, Length
    <2> QED
      BY <1>3, <2>2, <2>5, <2>6
  <1> QED
    BY <1>4, <1>5

\* What a box's finite area is made of, an enclosed box's is, and no larger.
LEMMA TimesGrow ==
    ASSUME NEW u \in Finite, NEW v \in Finite, NEW x \in Finite, NEW y \in Finite,
           x <= u, y <= v, times[u][v] \in Finite
    PROVE  times[x][y] \in Finite /\ times[x][y] <= times[u][v]
  <1>0. MaxArea \in Nat /\ Infinity = MaxArea + 1 /\ NaN = -1
    BY MaxAreaAssumption DEF Infinity, NaN
  <1>1. /\ u \in Nat /\ v \in Nat /\ x \in Nat /\ y \in Nat
        /\ u \in Double /\ v \in Length /\ x \in Double /\ y \in Double
        /\ x # NaN /\ y # NaN /\ Infinity \notin {x, y}
    BY <1>0 DEF Finite, Double, Length
  <1>2. times[u][v] = u * v
    BY <1>1, TimesFacts
  <1>3. x * y \in Nat /\ u * v \in Nat /\ x * y <= u * v
    BY <1>1, ProductGrows
  <1>4. x * y <= MaxArea
    BY <1>0, <1>2, <1>3 DEF Finite
  <1>5. times[x][y] = rounded[x * y]
    BY <1>1 DEF times
  <1>6. rounded[x * y] = x * y /\ rounded[x * y] \in Finite
    BY <1>3, <1>4, RoundedFacts
  <1> QED
    BY <1>2, <1>3, <1>5, <1>6

\* A box whose area is finite encloses only boxes whose area is, and is no
\* smaller than theirs.
LEMMA AreaMonotone ==
    ASSUME NEW a \in Box, NEW b \in Box, encloses(b, a)
    PROVE  /\ area(a) \in Double /\ area(b) \in Double
           /\ area(b) \in Finite => area(a) \in Finite /\ area(a) <= area(b)
  <1>0. Dimensions \in Nat
    BY DimensionsAssumption
  <1>1. PICK f : IsProducts(a, f, Dimensions) /\ area(a) = f[Dimensions]
    BY AreaIsProduct
  <1>2. PICK g : IsProducts(b, g, Dimensions) /\ area(b) = g[Dimensions]
    BY AreaIsProduct
  <1> DEFINE Good(n) ==
               /\ f[n] \in Double /\ g[n] \in Double
               /\ g[n] \in Finite => f[n] \in Finite /\ f[n] <= g[n]
             Bad == {n \in 0 .. Dimensions : ~ Good(n)}
  <1>3. Bad = {}
    <2> SUFFICES ASSUME Bad # {} PROVE FALSE
      OBVIOUS
    <2>1. PICK n \in Bad : \A k \in Bad : n <= k
      <3>1. Bad \in SUBSET Nat
        BY <1>0
      <3> HIDE DEF Bad
      <3> QED
        BY <3>1, LeastNat
    <2>2. n \in 0 .. Dimensions /\ ~ Good(n)
      OBVIOUS
    <2>3. f[0] = 1 /\ g[0] = 1
      BY <1>0, <1>1, <1>2 DEF IsProducts
    <2>4. n # 0
      <3>1. 1 \in Finite /\ 1 \in Double
        BY MaxAreaAssumption DEF Finite, Double
      <3> QED
        BY <2>2, <2>3, <3>1
    <2>5. n - 1 \in 0 .. Dimensions /\ n - 1 \in Axes /\ n - 1 \notin Bad
      BY <1>0, <2>1, <2>2, <2>4 DEF Axes
    <2>6. Good(n - 1)
      BY <2>5
    <2>7. PICK lengthA \in Length, lengthB \in Length :
            /\ lengthA = length(a, n - 1) /\ lengthB = length(b, n - 1)
            /\ lengthB \in Finite => lengthA \in Finite /\ lengthA <= lengthB
      BY <2>5, LengthFacts
    <2>8. f[n] = times[f[n - 1]][lengthA] /\ g[n] = times[g[n - 1]][lengthB]
      BY <1>1, <1>2, <2>2, <2>4, <2>7 DEF IsProducts
    <2>9. PICK x \in Double, u \in Double : x = f[n - 1] /\ u = g[n - 1]
      BY <2>6
    <2>10. /\ times[x][lengthA] \in Double /\ times[u][lengthB] \in Double
           /\ times[u][lengthB] \in Finite => u \in Finite /\ lengthB \in Finite
      BY TimesFacts
    <2>11. ASSUME times[u][lengthB] \in Finite
           PROVE  /\ times[x][lengthA] \in Finite
                  /\ times[x][lengthA] <= times[u][lengthB]
      BY <2>6, <2>7, <2>9, <2>10, <2>11, TimesGrow
    <2> QED
      BY <2>2, <2>8, <2>9, <2>10, <2>11
  <1> QED
    BY <1>0, <1>1, <1>2, <1>3
-----------------------------------------------------------------------------
\* The buffer has MaxChildren + 1 places.
LEMMA OverflowSize ==
    /\ Size \in Nat /\ Overflow = 0 .. MaxChildren
    /\ IsFiniteSet(Overflow) /\ Cardinality(Overflow) = Size
  BY ChildrenAssumption, FS_Interval DEF Overflow, Size

\* The number of elements of two disjoint finite sets together.
LEMMA DisjointUnion ==
    ASSUME NEW S, NEW T, IsFiniteSet(S), IsFiniteSet(T), S \cap T = {}
    PROVE  /\ IsFiniteSet(S \cup T)
           /\ Cardinality(S) \in Nat /\ Cardinality(T) \in Nat
           /\ Cardinality(S \cup T) = Cardinality(S) + Cardinality(T)
  <1>1. /\ IsFiniteSet(S \cup T)
        /\ Cardinality(S \cup T)
             = Cardinality(S) + Cardinality(T) - Cardinality(S \cap T)
    BY FS_Union
  <1>2. Cardinality(S \cap T) = 0
    BY FS_EmptySet
  <1>3. Cardinality(S) \in Nat /\ Cardinality(T) \in Nat
    BY FS_CardinalityType
  <1> QED
    BY <1>1, <1>2, <1>3

\* An assignment f of groups leaves every entry in group 0, in group 1 or in
\* neither, and the three numbers add up.
LEMMA AssignmentPartition ==
    ASSUME NEW f \in [Overflow -> {-1, 0, 1}]
    PROVE  LET part(g) == {i \in Overflow : f[i] = g}
           IN /\ \A g \in {-1, 0, 1} : /\ IsFiniteSet(part(g))
                                        /\ Cardinality(part(g)) \in Nat
              /\ Cardinality(part(0)) + Cardinality(part(1))
                   + Cardinality(part(-1)) = Size
  <1> DEFINE part(g) == {i \in Overflow : f[i] = g}
  <1>1. \A g \in {-1, 0, 1} : IsFiniteSet(part(g))
                              /\ Cardinality(part(g)) \in Nat
    BY OverflowSize, FS_Subset, FS_CardinalityType
  <1>2. /\ part(0) \cap part(1) = {}
        /\ (part(0) \cup part(1)) \cap part(-1) = {}
        /\ (part(0) \cup part(1)) \cup part(-1) = Overflow
    OBVIOUS
  <1> HIDE DEF part
  <1>3. /\ IsFiniteSet(part(0) \cup part(1))
        /\ Cardinality(part(0) \cup part(1))
             = Cardinality(part(0)) + Cardinality(part(1))
    BY <1>1, <1>2, DisjointUnion
  <1>4. Cardinality(Overflow)
          = Cardinality(part(0) \cup part(1)) + Cardinality(part(-1))
    BY <1>1, <1>2, <1>3, DisjointUnion
  <1> QED
    BY <1>1, <1>3, <1>4, OverflowSize DEF part

\* The same of the current assignment.
LEMMA MembersPartition ==
    ASSUME m_groupAssign \in [Overflow -> {-1, 0, 1}]
    PROVE  /\ IsFiniteSet(Members(0)) /\ IsFiniteSet(Members(1))
           /\ IsFiniteSet(Unassigned)
           /\ Cardinality(Members(0)) \in Nat /\ Cardinality(Members(1)) \in Nat
           /\ Cardinality(Unassigned) \in Nat
           /\ Cardinality(Members(0)) + Cardinality(Members(1))
                + Cardinality(Unassigned) = Size
  BY AssignmentPartition DEF Members, Unassigned

\* One entry joins group g: the step of the counts that AssignGroup makes.
LEMMA AssignGroupCounts ==
    ASSUME LocalsOK, CountsMatch,
           NEW g \in {0, 1}, NEW index \in Unassigned,
           AssignGroup(index, g), UNCHANGED t_overflowBuffer
    PROVE  /\ m_groupAssign' \in [Overflow -> {-1, 0, 1}]
           /\ m_groups' \in [{0, 1} -> [m_box : Box, m_count : 0 .. Size]]
           /\ CountsMatch'
           /\ count(g)' = count(g) + 1
           /\ count(1 - g)' = count(1 - g)
           /\ Unassigned' = Unassigned \ {index}
  <1>1. index \in Overflow /\ m_groupAssign[index] = -1
    BY DEF Unassigned
  <1>2. m_groupAssign' \in [Overflow -> {-1, 0, 1}]
    BY <1>1 DEF LocalsOK, AssignGroup
  <1>3. /\ Members(g)' = Members(g) \cup {index}
        /\ Members(1 - g)' = Members(1 - g)
        /\ Unassigned' = Unassigned \ {index}
        /\ index \notin Members(g)
    BY <1>1 DEF LocalsOK, AssignGroup, Members, Unassigned
  <1>4. /\ Cardinality(Members(g)') = Cardinality(Members(g)) + 1
        /\ Cardinality(Members(1 - g)') = Cardinality(Members(1 - g))
    BY <1>3, MembersPartition, FS_AddElement DEF LocalsOK
  <1>5. /\ Joined(g, index).m_count = count(g) + 1
        /\ Joined(g, index).m_box \in Box
    BY <1>1, UnionBoxType DEF LocalsOK, Joined, boxOf, SubNode
  <1>6. /\ count(g)' = count(g) + 1
        /\ count(1 - g)' = count(1 - g)
        /\ m_groups'[g].m_box \in Box
        /\ m_groups'[1 - g] = m_groups[1 - g]
    BY <1>5 DEF LocalsOK, AssignGroup, count
  <1>7. CountsMatch'
    BY <1>4, <1>6 DEF CountsMatch
  <1>8. \A h \in {0, 1} : count(h)' \in 0 .. Size
    <2>1. /\ Cardinality(Members(0)') \in Nat /\ Cardinality(Members(1)') \in Nat
          /\ Cardinality(Unassigned') \in Nat
          /\ Cardinality(Members(0)') + Cardinality(Members(1)')
               + Cardinality(Unassigned') = Size
      BY <1>2, AssignmentPartition DEF Members, Unassigned
    <2> QED
      BY <1>7, <2>1, OverflowSize DEF CountsMatch
  <1> QED
    BY <1>2, <1>3, <1>5, <1>6, <1>7, <1>8
    DEF LocalsOK, AssignGroup, Joined, count

\* What the steps of a split keep, whatever MinChildren is: the types of its
\* locals and the counts, up to the groups it ends with.
SplitCore ==
    /\ LocalsOK
    /\ CountsMatch
    /\ pc = "seed" => Unassigned = Overflow
    /\ pc = "rest" => group \in {0, 1}
    /\ pc \in {"assigned", "fill"} =>
         /\ Unassigned = {}
         /\ \A g \in {0, 1} : count(g) >= MinChildren

\* Locals that were never used, or are used no more, are well typed.
LEMMA NoLocalsCore ==
    /\ NoLocals => LocalsOK /\ CountsMatch
    /\ DropLocals => LocalsOK' /\ CountsMatch'
  <1>1. NoEntry \in SubNode /\ EmptyGroup \in [m_box : Box, m_count : 0 .. Size]
    BY OriginType, OverflowSize
    DEF NoEntry, SubNode, EmptyGroup, nullptr, NoData
  <1>2. Cardinality({}) = 0
    BY FS_EmptySet
  <1>3. ASSUME NoLocals PROVE LocalsOK /\ CountsMatch
    <2>1. LocalsOK
      BY <1>1, <1>3 DEF LocalsOK, NoLocals
    <2>2. \A g \in {0, 1} : Members(g) = {} /\ count(g) = 0
      BY <1>3 DEF NoLocals, Members, count, EmptyGroup
    <2> QED
      BY <1>2, <2>1, <2>2 DEF CountsMatch
  <1>4. ASSUME DropLocals PROVE LocalsOK' /\ CountsMatch'
    <2>1. LocalsOK'
      BY <1>1, <1>4 DEF LocalsOK, DropLocals
    <2>2. \A g \in {0, 1} : Members(g)' = {} /\ count(g)' = 0
      BY <1>4 DEF DropLocals, Members, count, EmptyGroup
    <2> QED
      BY <1>2, <2>1, <2>2 DEF CountsMatch
  <1> QED
    BY <1>3, <1>4

\* A split starts with every entry unassigned.
LEMMA StartSplitCore ==
    ASSUME NEW entries \in [Overflow -> SubNode], StartSplit(entries)
    PROVE  SplitCore' /\ pc' = "seed"
  <1>1. EmptyGroup \in [m_box : Box, m_count : 0 .. Size]
    BY OriginType, OverflowSize DEF EmptyGroup
  <1>2. LocalsOK'
    BY <1>1 DEF StartSplit, LocalsOK
  <1>3. CountsMatch'
    <2>1. \A g \in {0, 1} : Members(g)' = {} /\ count(g)' = 0
      BY DEF StartSplit, Members, count, EmptyGroup
    <2> QED
      BY <2>1, FS_EmptySet DEF CountsMatch
  <1>4. pc' = "seed" /\ Unassigned' = Overflow
    BY DEF StartSplit, Unassigned
  <1> QED
    BY <1>2, <1>3, <1>4 DEF SplitCore

\* The choice of two different seeds gives either group its first entry.
LEMMA PickSeedsCounts ==
    ASSUME LocalsOK, CountsMatch, Unassigned = Overflow, PickSeeds
    PROVE  /\ LocalsOK' /\ CountsMatch'
           /\ count(0)' = 1 /\ count(1)' = 1
           /\ \E seed0, seed1 \in Overflow :
                /\ m_groups' = [g \in {0, 1} |->
                     [m_box |-> boxOf(IF g = 0 THEN seed0 ELSE seed1),
                      m_count |-> 1]]
                /\ Members(0)' = {seed0} /\ Members(1)' = {seed1}
  <1>1. PICK seed0 \in Overflow, seed1 \in Overflow :
          /\ seed0 # seed1
          /\ m_groupAssign' = [m_groupAssign EXCEPT ![seed0] = 0, ![seed1] = 1]
          /\ m_groups' = [g \in {0, 1} |->
                            Joined(g, IF g = 0 THEN seed0 ELSE seed1)]
    BY DEF PickSeeds
  <1>2. pc = "seed" /\ pc' = "deal" /\ UNCHANGED <<t_overflowBuffer, group>>
    BY DEF PickSeeds
  <1>3. m_groupAssign = [i \in Overflow |-> -1]
    BY <1>2 DEF LocalsOK, Unassigned
  <1>4. count(0) = 0 /\ count(1) = 0
    <2>1. Members(0) = {} /\ Members(1) = {}
      BY <1>3 DEF Members
    <2> QED
      BY <2>1, FS_EmptySet DEF CountsMatch
  <1>5. \A g \in {0, 1}, i \in Overflow :
          /\ Joined(g, i) = [m_box |-> boxOf(i), m_count |-> 1]
          /\ boxOf(i) \in Box
    BY <1>4 DEF LocalsOK, Joined, boxOf, SubNode
  <1>6. LocalsOK'
    <2>1. m_groupAssign' \in [Overflow -> {-1, 0, 1}]
      BY <1>1, <1>3
    <2>2. m_groups' \in [{0, 1} -> [m_box : Box, m_count : 0 .. Size]]
      BY <1>1, <1>5, OverflowSize, ChildrenAssumption DEF Size
    <2> QED
      BY <1>2, <2>1, <2>2 DEF LocalsOK
  <1>7. count(0)' = 1 /\ count(1)' = 1
    BY <1>1, <1>5 DEF count
  <1>8. Members(0)' = {seed0} /\ Members(1)' = {seed1}
    BY <1>1, <1>3 DEF Members
  <1>9. CountsMatch'
    BY <1>7, <1>8, FS_Singleton DEF CountsMatch
  <1>10. m_groups' = [g \in {0, 1} |->
                        [m_box |-> boxOf(IF g = 0 THEN seed0 ELSE seed1),
                         m_count |-> 1]]
    BY <1>1, <1>5
  <1> QED
    BY <1>6, <1>7, <1>8, <1>9, <1>10

\* The counts of a split in which no entry is left.
LEMMA AllAssigned ==
    ASSUME LocalsOK, CountsMatch, count(0) + count(1) = Size
    PROVE  Unassigned = {}
  <1>1. /\ IsFiniteSet(Unassigned) /\ Cardinality(Unassigned) \in Nat
        /\ count(0) + count(1) + Cardinality(Unassigned) = Size
        /\ count(0) \in Nat /\ count(1) \in Nat /\ Size \in Nat
    BY MembersPartition, OverflowSize DEF LocalsOK, CountsMatch
  <1>2. Cardinality(Unassigned) = 0
    BY <1>1
  <1> QED
    BY <1>1, <1>2, FS_EmptySet

\* Every step of a split keeps its types and its counts.
LEMMA SplitStepCore == SplitCore /\ SplitStep => SplitCore'
  <1> SUFFICES ASSUME SplitCore, SplitStep PROVE SplitCore'
    OBVIOUS
  <1>0. LocalsOK /\ CountsMatch
    BY DEF SplitCore
  <1>1. CASE PickSeeds
    <2>1. LocalsOK' /\ CountsMatch'
      BY <1>0, <1>1, PickSeedsCounts DEF SplitCore, PickSeeds
    <2>2. pc' = "deal"
      BY <1>1 DEF PickSeeds
    <2> QED
      BY <2>1, <2>2 DEF SplitCore
  <1>2. CASE SeedsCollide
    <2>1. PICK seed \in Overflow : AssignGroup(seed, 0)
      BY <1>2 DEF SeedsCollide
    <2>2. /\ pc = "seed" /\ pc' = "aborted"
          /\ UNCHANGED <<t_overflowBuffer, group>>
      BY <1>2 DEF SeedsCollide
    <2>3. seed \in Unassigned
      BY <2>1, <2>2 DEF SplitCore
    <2>4. LocalsOK' /\ CountsMatch'
      BY <1>0, <2>1, <2>2, <2>3, AssignGroupCounts DEF LocalsOK
    <2> QED
      BY <2>2, <2>4 DEF SplitCore
  <1>3. CASE AssignChosen
    <2>1. PICK index \in Unassigned, g \in {0, 1} : AssignGroup(index, g)
      BY <1>3 DEF AssignChosen, betterGroup
    <2>2. pc' = "deal" /\ UNCHANGED <<t_overflowBuffer, group>>
      BY <1>3 DEF AssignChosen
    <2>3. LocalsOK' /\ CountsMatch'
      BY <1>0, <2>1, <2>2, AssignGroupCounts DEF LocalsOK
    <2> QED
      BY <2>2, <2>3 DEF SplitCore
  <1>4. CASE StopDealing
    <2>1. UNCHANGED <<t_overflowBuffer, m_groupAssign, m_groups>>
      BY <1>4 DEF StopDealing
    <2>2. /\ pc' \in {"rest", "check"} /\ group' \in {-1, 0, 1}
          /\ pc' = "rest" => group' \in {0, 1}
      BY <1>0, <1>4 DEF StopDealing, LocalsOK
    <2>3. LocalsOK' /\ CountsMatch'
      BY <1>0, <2>1, <2>2 DEF LocalsOK, CountsMatch, count, Members
    <2> QED
      BY <2>2, <2>3 DEF SplitCore
  <1>5. CASE AssignRest
    <2>1. PICK index \in Unassigned : AssignGroup(index, group)
      BY <1>5 DEF AssignRest
    <2>2. /\ pc = "rest" /\ pc' = "rest"
          /\ UNCHANGED <<t_overflowBuffer, group>>
      BY <1>5 DEF AssignRest
    <2>3. group \in {0, 1}
      BY <2>2 DEF SplitCore
    <2>4. LocalsOK' /\ CountsMatch'
      BY <1>0, <2>1, <2>2, <2>3, AssignGroupCounts DEF LocalsOK
    <2> QED
      BY <2>2, <2>3, <2>4 DEF SplitCore
  <1>6. CASE RestAssigned
    <2>1. pc' = "check" /\ UNCHANGED splitVars
      BY <1>6 DEF RestAssigned
    <2>2. LocalsOK' /\ CountsMatch'
      BY <1>0, <2>1 DEF LocalsOK, CountsMatch, count, Members, splitVars
    <2> QED
      BY <2>1, <2>2 DEF SplitCore
  <1>7. CASE CheckGroups
    <2>1. /\ pc' \in {"assigned", "aborted"} /\ UNCHANGED splitVars
          /\ pc' = "assigned" => /\ count(0) + count(1) = Size
                                 /\ count(0) >= MinChildren
                                 /\ count(1) >= MinChildren
      BY <1>7 DEF CheckGroups
    <2>2. LocalsOK' /\ CountsMatch'
      BY <1>0, <2>1 DEF LocalsOK, CountsMatch, count, Members, splitVars
    <2>3. pc' = "assigned" => Unassigned = {}
      BY <1>0, <2>1, AllAssigned
    <2>4. /\ Unassigned' = Unassigned
          /\ count(0)' = count(0) /\ count(1)' = count(1)
      BY <2>1 DEF Unassigned, count, splitVars
    <2> QED
      BY <2>1, <2>2, <2>3, <2>4 DEF SplitCore
  <1> QED
    BY <1>1, <1>2, <1>3, <1>4, <1>5, <1>6, <1>7 DEF SplitStep
=============================================================================
