-------------------------- MODULE RangeSetProofs --------------------------
(***************************************************************************)
(* Every RangeSet is canonical at every step of every operation, the loops *)
(* of addAll, And and subtract work on the elements they should, and the   *)
(* objects implement the sets of IntSets.  The first part is about lists   *)
(* of ranges: what splicing one does to its elements, that add and remove  *)
(* keep a list canonical and change the set of its elements as they        *)
(* should, for every list and every range, and that the queries answer for *)
(* that set.  In the second part the inductive invariant IInv says of each *)
(* loop what its result holds and what is left of its operands, element by *)
(* element.                                                                *)
(***************************************************************************)
EXTENDS RangeSet, SequenceTheorems, FiniteSetTheorems, WellFoundedInduction,
        TLAPS

\* e is in one of the ranges of R between the positions k and l.
Within(e, R, k, l) == \E m \in k .. l : R[m].start <= e /\ e <= R[m].end

\* The order of the natural numbers, as a relation.
Less == {p \in Nat \X Nat : p[1] < p[2]}

\* S is R with P in place of the ranges at k .. l, by positions.
IsSplice(S, R, k, l, P) ==
    /\ R \in Seq(RangeType) /\ P \in Seq(RangeType) /\ S \in Seq(RangeType)
    /\ Len(R) \in Nat /\ Len(P) \in Nat /\ Len(S) \in Nat
    /\ k \in Int /\ l \in Int
    /\ k \in 1 .. Len(R) + 1 /\ l \in k - 1 .. Len(R)
    /\ Len(S) = k - 1 + Len(P) + Len(R) - l
    /\ \A n \in 1 .. k - 1 : S[n] = R[n]
    /\ \A n \in 1 .. Len(P) : S[k - 1 + n] = P[n]
    /\ \A n \in l + 1 .. Len(R) : S[k - 1 + Len(P) + n - l] = R[n]

-----------------------------------------------------------------------------
\* Less relates the smaller number to the larger.
LEMMA InLess == \A x, y \in Nat : y < x => <<y, x>> \in Less
  BY DEF Less

\* A set of natural numbers has a least element.
LEMMA LeastOfNats ==
    ASSUME NEW S, S \subseteq Nat, S # {}
    PROVE  /\ Min(S) \in S
           /\ \A n \in S : Min(S) <= n
<1>1. IsWellFoundedOn(Less, Nat)
  BY NatLessThanWellFounded, Zenon DEF OpToRel, Less
<1>2. PICK x \in S : \A y \in S : ~ (<<y, x>> \in Less)
  BY <1>1, WFMin
<1>3. \A y \in S : x <= y
  <2>1. \A y \in S : ~ (y < x)
    BY <1>2, InLess
  <2> QED
    BY <2>1
<1>4. \E z \in S : \A y \in S : z <= y
  BY <1>3
<1> QED
  BY <1>4, Zenon DEF Min

\* A set of natural numbers with a bound has a greatest element.
LEMMA GreatestOfNats ==
    ASSUME NEW S, S \subseteq Nat, S # {},
           NEW b \in Nat, \A n \in S : n <= b
    PROVE  /\ Max(S) \in S
           /\ \A n \in S : n <= Max(S)
<1> DEFINE D == {b - n : n \in S}
<1>1. D \subseteq Nat
  OBVIOUS
<1>2. D # {}
  OBVIOUS
<1>3. Min(D) \in D /\ \A d \in D : Min(D) <= d
  BY <1>1, <1>2, LeastOfNats
<1>4. PICK x \in S : Min(D) = b - x
  BY <1>3
<1>5. ASSUME NEW y \in S PROVE x >= y
  <2>1. b - x <= b - y
    BY <1>3, <1>4
  <2>2. b \in Nat /\ x \in Nat /\ y \in Nat
    OBVIOUS
  <2> QED
    BY <2>1, <2>2
<1> QED
  BY <1>5 DEF Max

-----------------------------------------------------------------------------
\* The elements of a list are the integers in one of its ranges.
LEMMA InElements ==
    ASSUME NEW R \in Seq(RangeType), NEW e
    PROVE  e \in Elements(R) <=> e \in Int /\ Within(e, R, 1, Len(R))
<1>1. \A m \in 1 .. Len(R) : R[m].start \in Int /\ R[m].end \in Int
  <2>1. \A m \in 1 .. Len(R) : R[m] \in RangeType
    BY ElementOfSeq
  <2> QED
    BY <2>1 DEF RangeType
<1>2. DOMAIN R = 1 .. Len(R)
  BY LenProperties
<1>3. ToSet(R) = {R[m] : m \in 1 .. Len(R)}
  BY <1>2, Zenon DEF ToSet
<1>4. e \in Elements(R) <=> \E r \in ToSet(R) : e \in r.start .. r.end
  BY Zenon DEF Elements
<1>5. e \in Elements(R) <=> \E m \in 1 .. Len(R) : e \in R[m].start .. R[m].end
  BY <1>3, <1>4, Zenon
<1> QED
  BY <1>1, <1>5 DEF Within

\* IsCanonical by positions.
LEMMA CanonicalAt ==
    ASSUME NEW R \in Seq(RangeType)
    PROVE  /\ Len(R) \in Nat
           /\ \A m \in 1 .. Len(R) : /\ R[m] \in RangeType
                                     /\ R[m].start \in Int
                                     /\ R[m].end \in Int
           /\ IsCanonical(R) <=>
                /\ \A m \in 1 .. Len(R) : R[m].start <= R[m].end
                /\ \A m, n \in 1 .. Len(R) :
                     m < n => R[m].end + 1 < R[n].start
<1>1. Len(R) \in Nat /\ DOMAIN R = 1 .. Len(R)
  BY LenProperties
<1>2. \A m \in 1 .. Len(R) : R[m] \in RangeType
  BY ElementOfSeq
<1>3. \A m \in 1 .. Len(R) : R[m].start \in Int /\ R[m].end \in Int
  BY <1>2 DEF RangeType
<1> QED
  BY <1>1, <1>2, <1>3, Zenon DEF IsCanonical

\* Concatenation by positions.
LEMMA Concat ==
    ASSUME NEW s \in Seq(RangeType), NEW t \in Seq(RangeType)
    PROVE  /\ s \o t \in Seq(RangeType)
           /\ Len(s \o t) = Len(s) + Len(t)
           /\ \A n \in 1 .. Len(s) : (s \o t)[n] = s[n]
           /\ \A n \in 1 .. Len(t) : (s \o t)[Len(s) + n] = t[n]
<1>1. Len(s) \in Nat /\ Len(t) \in Nat
  BY LenProperties
<1>2. /\ s \o t \in Seq(RangeType)
      /\ Len(s \o t) = Len(s) + Len(t)
      /\ \A n \in 1 .. Len(s) + Len(t) :
           (s \o t)[n] = IF n <= Len(s) THEN s[n] ELSE t[n - Len(s)]
  BY ConcatProperties
<1>3. ASSUME NEW n \in 1 .. Len(t) PROVE (s \o t)[Len(s) + n] = t[n]
  <2>1. /\ Len(s) + n \in 1 .. Len(s) + Len(t)
        /\ ~ (Len(s) + n <= Len(s))
        /\ (Len(s) + n) - Len(s) = n
    BY <1>1
  <2> QED
    BY <1>2, <2>1, Zenon
<1> QED
  BY <1>1, <1>2, <1>3

\* Two parts of R with P between them are a splice.
LEMMA Splice ==
    ASSUME NEW R \in Seq(RangeType), NEW P \in Seq(RangeType),
           NEW k \in 1 .. Len(R) + 1, NEW l \in k - 1 .. Len(R),
           NEW S, S = SubSeq(R, 1, k - 1) \o P \o SubSeq(R, l + 1, Len(R))
    PROVE  IsSplice(S, R, k, l, P)
<1>1. Len(R) \in Nat /\ Len(P) \in Nat /\ k \in Int /\ l \in Int
  BY LenProperties
<1>2. PICK A : A = SubSeq(R, 1, k - 1)
  OBVIOUS
<1>3. PICK C : C = SubSeq(R, l + 1, Len(R))
  OBVIOUS
<1>4. /\ A \in Seq(RangeType) /\ Len(A) = k - 1
      /\ \A n \in 1 .. k - 1 : A[n] = R[n]
  <2>1. \A n \in 1 .. k - 1 : R[n] \in RangeType
    BY <1>1, ElementOfSeq
  <2> QED
    BY <1>1, <1>2, <2>1, SubSeqProperties
<1>5. /\ C \in Seq(RangeType) /\ Len(C) = Len(R) - l
      /\ \A n \in 1 .. Len(R) - l : C[n] = R[l + n]
  <2>1. \A n \in l + 1 .. Len(R) : R[n] \in RangeType
    BY <1>1, ElementOfSeq
  <2>2. /\ C \in Seq(RangeType)
        /\ Len(C) = IF l + 1 <= Len(R) THEN Len(R) - (l + 1) + 1 ELSE 0
        /\ \A n \in 1 .. Len(R) - (l + 1) + 1 : C[n] = R[(l + 1) + n - 1]
    BY <1>1, <1>3, <2>1, SubSeqProperties
  <2> QED
    BY <1>1, <2>2
<1>6. /\ A \o P \in Seq(RangeType) /\ Len(A \o P) = Len(A) + Len(P)
      /\ \A n \in 1 .. Len(A) : (A \o P)[n] = A[n]
      /\ \A n \in 1 .. Len(P) : (A \o P)[Len(A) + n] = P[n]
  BY <1>4, Concat, Zenon
<1>7. PICK B : B = A \o P
  OBVIOUS
<1>8. S = B \o C
  BY <1>2, <1>3, <1>7
<1>9. /\ S \in Seq(RangeType) /\ Len(S) = Len(B) + Len(C)
      /\ \A n \in 1 .. Len(B) : S[n] = B[n]
      /\ \A n \in 1 .. Len(C) : S[Len(B) + n] = C[n]
  <2>1. B \in Seq(RangeType)
    BY <1>6, <1>7
  <2>2. /\ B \o C \in Seq(RangeType) /\ Len(B \o C) = Len(B) + Len(C)
        /\ \A n \in 1 .. Len(B) : (B \o C)[n] = B[n]
        /\ \A n \in 1 .. Len(C) : (B \o C)[Len(B) + n] = C[n]
    BY <1>5, <2>1, Concat, Zenon
  <2> QED
    BY <1>8, <2>2, Zenon
<1>10. Len(B) = k - 1 + Len(P)
  BY <1>4, <1>6, <1>7
<1>11. ASSUME NEW n \in 1 .. k - 1 PROVE S[n] = R[n]
  <2>1. n \in 1 .. Len(B) /\ n \in 1 .. Len(A)
    BY <1>1, <1>4, <1>10
  <2> QED
    BY <1>4, <1>6, <1>7, <1>9, <2>1
<1>12. ASSUME NEW n \in 1 .. Len(P) PROVE S[k - 1 + n] = P[n]
  <2>1. k - 1 + n \in 1 .. Len(B)
    BY <1>1, <1>10
  <2>2. S[k - 1 + n] = (A \o P)[k - 1 + n]
    BY <1>7, <1>9, <2>1
  <2> QED
    BY <1>4, <1>6, <2>2
<1>13. ASSUME NEW n \in l + 1 .. Len(R)
       PROVE  S[k - 1 + Len(P) + n - l] = R[n]
  <2>1. /\ n - l \in 1 .. Len(C)
        /\ k - 1 + Len(P) + n - l = Len(B) + (n - l)
        /\ l + (n - l) = n
    BY <1>1, <1>5, <1>10
  <2>2. S[Len(B) + (n - l)] = C[n - l]
    BY <1>9, <2>1
  <2>3. C[n - l] = R[l + (n - l)]
    BY <1>5, <2>1
  <2> QED
    BY <2>1, <2>2, <2>3
<1>14. Len(S) = k - 1 + Len(P) + Len(R) - l
  BY <1>1, <1>5, <1>9, <1>10
<1> QED
  <2>1. Len(S) \in Nat
    BY <1>9, LenProperties
  <2> QED
    BY <1>1, <1>9, <1>11, <1>12, <1>13, <1>14, <2>1 DEF IsSplice

\* Every range of the spliced list is one of R before k, of P, or of R after l.
LEMMA SpliceParts ==
    ASSUME NEW S, NEW R, NEW k, NEW l, NEW P, IsSplice(S, R, k, l, P),
           NEW n \in 1 .. Len(S)
    PROVE  \/ n \in 1 .. k - 1 /\ S[n] = R[n]
           \/ \E p \in 1 .. Len(P) : n = k - 1 + p /\ S[n] = P[p]
           \/ \E q \in l + 1 .. Len(R) :
                n = k - 1 + Len(P) + q - l /\ S[n] = R[q]
<1>1. /\ Len(R) \in Nat /\ Len(P) \in Nat /\ Len(S) \in Nat
      /\ k \in Int /\ l \in Int
      /\ k \in 1 .. Len(R) + 1 /\ l \in k - 1 .. Len(R)
  BY DEF IsSplice
<1>2. /\ Len(S) = k - 1 + Len(P) + Len(R) - l
      /\ \A m \in 1 .. k - 1 : S[m] = R[m]
      /\ \A m \in 1 .. Len(P) : S[k - 1 + m] = P[m]
      /\ \A m \in l + 1 .. Len(R) : S[k - 1 + Len(P) + m - l] = R[m]
  BY DEF IsSplice
<1>3. CASE n <= k - 1
  BY <1>1, <1>2, <1>3
<1>4. CASE n > k - 1 /\ n <= k - 1 + Len(P)
  <2>1. n - (k - 1) \in 1 .. Len(P) /\ k - 1 + (n - (k - 1)) = n
    BY <1>1, <1>4
  <2> QED
    BY <1>2, <2>1
<1>5. CASE n > k - 1 + Len(P)
  <2>1. PICK q : q = n - (k - 1) - Len(P) + l
    OBVIOUS
  <2>2. q \in l + 1 .. Len(R) /\ n = k - 1 + Len(P) + q - l
    BY <1>1, <1>2, <1>5, <2>1
  <2> QED
    BY <1>2, <2>2
<1> QED
  BY <1>1, <1>2, <1>3, <1>4, <1>5

\* A canonical list stays canonical when what replaces a part of it fits the
\* gap.
LEMMA SpliceCanonical ==
    ASSUME NEW S, NEW R, NEW k, NEW l, NEW P, IsSplice(S, R, k, l, P),
           IsCanonical(R), IsCanonical(P),
           \A m \in 1 .. k - 1, n \in 1 .. Len(P) : R[m].end + 1 < P[n].start,
           \A n \in 1 .. Len(P), m \in l + 1 .. Len(R) :
             P[n].end + 1 < R[m].start
    PROVE  IsCanonical(S)
<1>1. /\ Len(R) \in Nat /\ Len(P) \in Nat /\ Len(S) \in Nat
      /\ k \in Int /\ l \in Int
      /\ k \in 1 .. Len(R) + 1 /\ l \in k - 1 .. Len(R)
  BY DEF IsSplice
<1>2. S \in Seq(RangeType) /\ Len(S) \in Nat
  BY DEF IsSplice
<1>3. /\ \A m \in 1 .. Len(R) : R[m].start <= R[m].end
      /\ \A m, n \in 1 .. Len(R) : m < n => R[m].end + 1 < R[n].start
      /\ \A m \in 1 .. Len(P) : P[m].start <= P[m].end
      /\ \A m, n \in 1 .. Len(P) : m < n => P[m].end + 1 < P[n].start
  BY CanonicalAt DEF IsSplice
<1>4. \A n \in 1 .. Len(S) :
        \/ n \in 1 .. k - 1 /\ S[n] = R[n]
        \/ \E p \in 1 .. Len(P) : n = k - 1 + p /\ S[n] = P[p]
        \/ \E q \in l + 1 .. Len(R) :
             n = k - 1 + Len(P) + q - l /\ S[n] = R[q]
  BY SpliceParts
<1>5. ASSUME NEW n \in 1 .. Len(S) PROVE S[n].start <= S[n].end
  <2>1. \/ \E m \in 1 .. Len(R) : S[n] = R[m]
        \/ \E m \in 1 .. Len(P) : S[n] = P[m]
    <3>1. 1 .. k - 1 \subseteq 1 .. Len(R) /\ l + 1 .. Len(R) \subseteq 1 .. Len(R)
      BY <1>1
    <3> QED
      BY <1>4, <3>1
  <2> QED
    BY <1>3, <2>1
<1>6. ASSUME NEW m \in 1 .. Len(S), NEW n \in 1 .. Len(S), m < n
      PROVE  S[m].end + 1 < S[n].start
  <2>1. m \in Int /\ n \in Int
    BY <1>2
  <2>2. CASE m \in 1 .. k - 1 /\ S[m] = R[m]
    <3>1. CASE n \in 1 .. k - 1 /\ S[n] = R[n]
      <4>1. m \in 1 .. Len(R) /\ n \in 1 .. Len(R)
        BY <1>1, <2>2, <3>1
      <4> QED
        BY <1>3, <1>6, <2>2, <3>1, <4>1
    <3>2. CASE \E p \in 1 .. Len(P) : n = k - 1 + p /\ S[n] = P[p]
      BY <2>2, <3>2
    <3>3. CASE \E q \in l + 1 .. Len(R) :
                 n = k - 1 + Len(P) + q - l /\ S[n] = R[q]
      <4>1. PICK q \in l + 1 .. Len(R) : S[n] = R[q]
        BY <3>3
      <4>2. m \in 1 .. Len(R) /\ q \in 1 .. Len(R) /\ m < q
        BY <1>1, <2>2
      <4> QED
        BY <1>3, <2>2, <4>1, <4>2
    <3> QED
      BY <1>4, <3>1, <3>2, <3>3
  <2>3. CASE \E p \in 1 .. Len(P) : m = k - 1 + p /\ S[m] = P[p]
    <3>0. PICK p \in 1 .. Len(P) : m = k - 1 + p /\ S[m] = P[p]
      BY <2>3
    <3>1. CASE n \in 1 .. k - 1
      BY <1>1, <1>6, <2>1, <3>0, <3>1
    <3>2. CASE \E r \in 1 .. Len(P) : n = k - 1 + r /\ S[n] = P[r]
      <4>1. PICK r \in 1 .. Len(P) : n = k - 1 + r /\ S[n] = P[r]
        BY <3>2
      <4>2. p < r
        BY <1>1, <1>6, <3>0, <4>1
      <4> QED
        BY <1>3, <3>0, <4>1, <4>2
    <3>3. CASE \E q \in l + 1 .. Len(R) :
                 n = k - 1 + Len(P) + q - l /\ S[n] = R[q]
      BY <3>0, <3>3
    <3> QED
      BY <1>4, <3>1, <3>2, <3>3
  <2>4. CASE \E q \in l + 1 .. Len(R) :
               m = k - 1 + Len(P) + q - l /\ S[m] = R[q]
    <3>0. PICK q \in l + 1 .. Len(R) :
               m = k - 1 + Len(P) + q - l /\ S[m] = R[q]
      BY <2>4
    <3>1. CASE n \in 1 .. k - 1
      BY <1>1, <1>6, <2>1, <3>0, <3>1
    <3>2. CASE \E r \in 1 .. Len(P) : n = k - 1 + r
      BY <1>1, <1>6, <2>1, <3>0, <3>2
    <3>3. CASE \E r \in l + 1 .. Len(R) :
                 n = k - 1 + Len(P) + r - l /\ S[n] = R[r]
      <4>1. PICK r \in l + 1 .. Len(R) :
                 n = k - 1 + Len(P) + r - l /\ S[n] = R[r]
        BY <3>3
      <4>2. q < r /\ q \in 1 .. Len(R) /\ r \in 1 .. Len(R)
        BY <1>1, <1>6, <3>0, <4>1
      <4> QED
        BY <1>3, <3>0, <4>1, <4>2
    <3> QED
      BY <1>4, <3>1, <3>2, <3>3
  <2> QED
    BY <1>4, <2>2, <2>3, <2>4
<1> QED
  BY <1>2, <1>5, <1>6, CanonicalAt

\* The elements of the spliced list.
LEMMA SpliceElements ==
    ASSUME NEW S, NEW R, NEW k, NEW l, NEW P, IsSplice(S, R, k, l, P),
           NEW e \in Int
    PROVE  e \in Elements(S) <=> \/ Within(e, R, 1, k - 1)
                                 \/ Within(e, P, 1, Len(P))
                                 \/ Within(e, R, l + 1, Len(R))
<1>1. /\ Len(R) \in Nat /\ Len(P) \in Nat /\ Len(S) \in Nat
      /\ k \in Int /\ l \in Int
      /\ k \in 1 .. Len(R) + 1 /\ l \in k - 1 .. Len(R)
  BY DEF IsSplice
<1>2. /\ S \in Seq(RangeType)
      /\ Len(S) = k - 1 + Len(P) + Len(R) - l
      /\ \A n \in 1 .. k - 1 : S[n] = R[n]
      /\ \A n \in 1 .. Len(P) : S[k - 1 + n] = P[n]
      /\ \A n \in l + 1 .. Len(R) : S[k - 1 + Len(P) + n - l] = R[n]
  BY DEF IsSplice
<1>3. \A n \in 1 .. Len(S) :
        \/ n \in 1 .. k - 1 /\ S[n] = R[n]
        \/ \E p \in 1 .. Len(P) : n = k - 1 + p /\ S[n] = P[p]
        \/ \E q \in l + 1 .. Len(R) :
             n = k - 1 + Len(P) + q - l /\ S[n] = R[q]
  BY SpliceParts
<1>4. e \in Elements(S) <=> Within(e, S, 1, Len(S))
  BY <1>2, InElements
<1>5. ASSUME Within(e, S, 1, Len(S))
      PROVE  \/ Within(e, R, 1, k - 1)
             \/ Within(e, P, 1, Len(P))
             \/ Within(e, R, l + 1, Len(R))
  BY <1>3, <1>5 DEF Within
<1>6. ASSUME Within(e, R, 1, k - 1) PROVE Within(e, S, 1, Len(S))
  <2>1. PICK m \in 1 .. k - 1 : R[m].start <= e /\ e <= R[m].end
    BY <1>6 DEF Within
  <2>2. m \in 1 .. Len(S) /\ S[m] = R[m]
    BY <1>1, <1>2
  <2> QED
    BY <2>1, <2>2 DEF Within
<1>7. ASSUME Within(e, P, 1, Len(P)) PROVE Within(e, S, 1, Len(S))
  <2>1. PICK m \in 1 .. Len(P) : P[m].start <= e /\ e <= P[m].end
    BY <1>7 DEF Within
  <2>2. k - 1 + m \in 1 .. Len(S) /\ S[k - 1 + m] = P[m]
    BY <1>1, <1>2
  <2> QED
    BY <2>1, <2>2 DEF Within
<1>8. ASSUME Within(e, R, l + 1, Len(R)) PROVE Within(e, S, 1, Len(S))
  <2>1. PICK m \in l + 1 .. Len(R) : R[m].start <= e /\ e <= R[m].end
    BY <1>8 DEF Within
  <2>2. /\ k - 1 + Len(P) + m - l \in 1 .. Len(S)
        /\ S[k - 1 + Len(P) + m - l] = R[m]
    BY <1>1, <1>2
  <2> QED
    BY <2>1, <2>2 DEF Within
<1> QED
  BY <1>4, <1>5, <1>6, <1>7, <1>8

-----------------------------------------------------------------------------
\* A list of one range.
LEMMA Singleton ==
    ASSUME NEW w \in RangeType
    PROVE  /\ <<w>> \in Seq(RangeType)
           /\ Len(<<w>>) = 1 /\ <<w>>[1] = w
           /\ w.start <= w.end => IsCanonical(<<w>>)
<1>1. <<w>> \in Seq(RangeType) /\ Len(<<w>>) = 1 /\ <<w>>[1] = w
  OBVIOUS
<1>2. ASSUME w.start <= w.end PROVE IsCanonical(<<w>>)
  BY <1>2 DEF IsCanonical
<1> QED
  BY <1>1, <1>2

\* One range in place of those at k .. l, which reaches neither neighbour.
LEMMA SpliceOne ==
    ASSUME NEW R \in Seq(RangeType), IsCanonical(R),
           NEW w \in RangeType, w.start <= w.end,
           NEW k \in 1 .. Len(R) + 1, NEW l \in k - 1 .. Len(R),
           NEW S, S = SubSeq(R, 1, k - 1) \o <<w>> \o SubSeq(R, l + 1, Len(R)),
           \A m \in 1 .. k - 1 : R[m].end + 1 < w.start,
           \A m \in l + 1 .. Len(R) : w.end + 1 < R[m].start
    PROVE  /\ S \in Seq(RangeType)
           /\ IsCanonical(S)
           /\ \A e \in Int : e \in Elements(S) <=>
                \/ Within(e, R, 1, k - 1)
                \/ w.start <= e /\ e <= w.end
                \/ Within(e, R, l + 1, Len(R))
<1>1. /\ <<w>> \in Seq(RangeType) /\ Len(<<w>>) = 1 /\ <<w>>[1] = w
      /\ IsCanonical(<<w>>)
  BY Singleton
<1>2. \A n \in 1 .. Len(<<w>>) : <<w>>[n] = w
  BY <1>1
<1>3. IsSplice(S, R, k, l, <<w>>)
  BY <1>1, Splice, Zenon
<1>4. IsCanonical(S)
  <2>1. \A m \in 1 .. k - 1, n \in 1 .. Len(<<w>>) :
          R[m].end + 1 < <<w>>[n].start
    BY <1>2, Zenon
  <2>2. \A n \in 1 .. Len(<<w>>), m \in l + 1 .. Len(R) :
          <<w>>[n].end + 1 < R[m].start
    BY <1>2, Zenon
  <2> QED
    BY <1>1, <1>3, <2>1, <2>2, SpliceCanonical, Zenon
<1>5. ASSUME NEW e \in Int
      PROVE  e \in Elements(S) <=> \/ Within(e, R, 1, k - 1)
                                   \/ w.start <= e /\ e <= w.end
                                   \/ Within(e, R, l + 1, Len(R))
  <2>1. Within(e, <<w>>, 1, Len(<<w>>)) <=> w.start <= e /\ e <= w.end
    BY <1>1 DEF Within
  <2> QED
    BY <1>3, <2>1, SpliceElements
<1> QED
  BY <1>3, <1>4, <1>5 DEF IsSplice

\* When a range touches another, the two together are one range.
LEMMA TouchingMerge ==
    ASSUME NEW r \in RangeType, r.start <= r.end,
           NEW x \in RangeType, x.start <= x.end,
           touches(x, r)
    PROVE  /\ merge(x, r) \in RangeType
           /\ merge(x, r).start <= merge(x, r).end
           /\ merge(x, r).start <= r.start /\ r.end <= merge(x, r).end
           /\ merge(x, r).start = Lesser(x.start, r.start)
           /\ merge(x, r).end = Greater(x.end, r.end)
           /\ \A e \in Int : merge(x, r).start <= e /\ e <= merge(x, r).end <=>
                \/ x.start <= e /\ e <= x.end
                \/ r.start <= e /\ e <= r.end
<1>1. x.start \in Int /\ x.end \in Int /\ r.start \in Int /\ r.end \in Int
  BY DEF RangeType
<1>2. /\ merge(x, r).start = Lesser(x.start, r.start)
      /\ merge(x, r).end = Greater(x.end, r.end)
      /\ merge(x, r) \in RangeType
  BY <1>1 DEF merge, RangeOf, RangeType, Lesser, Greater
<1>3. x.start <= r.end + 1 /\ r.start <= x.end + 1
  BY <1>1 DEF touches, adjacent, disjoint, startsBeforeDisjoint,
              startsAfterDisjoint
<1> QED
  BY <1>1, <1>2, <1>3 DEF Lesser, Greater

\* Ranges that do not touch have a number between them.
LEMMA Apart ==
    ASSUME NEW r \in RangeType, r.start <= r.end,
           NEW x \in RangeType, x.start <= x.end,
           ~ touches(x, r)
    PROVE  \/ x.end + 1 < r.start /\ startsBeforeDisjoint(x, r)
           \/ r.end + 1 < x.start /\ ~ startsBeforeDisjoint(x, r)
<1>1. x.start \in Int /\ x.end \in Int /\ r.start \in Int /\ r.end \in Int
  BY DEF RangeType
<1> QED
  BY <1>1 DEF touches, adjacent, disjoint, startsBeforeDisjoint,
              startsAfterDisjoint

\* The range that touches x and the run after it that touches the two become
\* one: the list stays canonical and gains the elements of x.
LEMMA AbsorbedCorrect ==
    ASSUME NEW R \in Seq(RangeType), IsCanonical(R),
           NEW x \in RangeType, x.start <= x.end,
           NEW k \in 1 .. Len(R), touches(x, R[k]),
           \A m \in 1 .. k - 1 : R[m].end + 1 < x.start,
           NEW S, S = Absorbed(R, k, merge(x, R[k]))
    PROVE  /\ S \in Seq(RangeType)
           /\ IsCanonical(S)
           /\ \A e \in Int : e \in Elements(S) <=>
                e \in Elements(R) \/ (x.start <= e /\ e <= x.end)
<1>1. /\ Len(R) \in Nat
      /\ \A m \in 1 .. Len(R) :
           R[m] \in RangeType /\ R[m].start \in Int /\ R[m].end \in Int
      /\ \A m \in 1 .. Len(R) : R[m].start <= R[m].end
      /\ \A m, n \in 1 .. Len(R) : m < n => R[m].end + 1 < R[n].start
  BY CanonicalAt
<1>2. PICK b : b = merge(x, R[k])
  OBVIOUS
<1>3. /\ b \in RangeType /\ b.start <= b.end
      /\ b.start <= R[k].start /\ R[k].end <= b.end
      /\ b.start = Lesser(x.start, R[k].start)
      /\ \A e \in Int : b.start <= e /\ e <= b.end <=>
           (x.start <= e /\ e <= x.end) \/ (R[k].start <= e /\ e <= R[k].end)
  BY <1>1, <1>2, TouchingMerge
<1>4. b.start \in Int /\ b.end \in Int /\ x.start \in Int /\ x.end \in Int
  BY <1>3 DEF RangeType
<1>5. PICK run : run = {n \in k .. Len(R) :
                          \A m \in k + 1 .. n : touches(b, R[m])}
  OBVIOUS
<1>6. PICK last : last = Max(run)
  OBVIOUS
<1>7. /\ last \in k .. Len(R)
      /\ \A m \in k + 1 .. last : touches(b, R[m])
      /\ last < Len(R) => ~ touches(b, R[last + 1])
  <2>1. run \subseteq Nat /\ \A n \in run : n <= Len(R)
    BY <1>1, <1>5
  <2>2. k \in run
    BY <1>1, <1>5
  <2>3. last \in run /\ \A n \in run : n <= last
    BY <1>1, <1>6, <2>1, <2>2, GreatestOfNats
  <2>4. last \in k .. Len(R) /\ \A m \in k + 1 .. last : touches(b, R[m])
    BY <1>5, <2>3
  <2>5. ASSUME last < Len(R), touches(b, R[last + 1]) PROVE FALSE
    <3>1. last + 1 \in k .. Len(R)
      BY <1>1, <2>4, <2>5
    <3>2. \A m \in k + 1 .. last + 1 : m \in k + 1 .. last \/ m = last + 1
      BY <1>1, <2>4
    <3>3. last + 1 \in run
      BY <1>5, <2>4, <2>5, <3>1, <3>2
    <3> QED
      BY <1>1, <2>3, <2>4, <3>3
  <2> QED
    BY <2>4, <2>5
<1>8. PICK w : w = IF last = k THEN b ELSE merge(b, R[last])
  OBVIOUS
<1>9. last \in Int /\ k \in Int /\ last \in 1 .. Len(R)
  BY <1>1, <1>7
<1>10. /\ w \in RangeType /\ w.start <= w.end
       /\ w.start = b.start
       /\ b.end <= w.end
       /\ R[last].end <= w.end
       /\ \A e \in Int : w.start <= e /\ e <= w.end <=>
            (b.start <= e /\ e <= b.end)
            \/ (R[last].start <= e /\ e <= R[last].end)
       /\ w.end = b.end \/ w.end = R[last].end
  <2>1. CASE last = k
    BY <1>1, <1>3, <1>4, <1>8, <2>1
  <2>2. CASE last # k
    <3>1. last \in k + 1 .. last /\ k < last
      BY <1>7, <1>9, <2>2
    <3>2. touches(b, R[last])
      BY <1>7, <3>1
    <3>3. R[k].end + 1 < R[last].start /\ R[k].start <= R[k].end
      BY <1>1, <1>9, <3>1
    <3>4. /\ w \in RangeType /\ w.start <= w.end
          /\ R[last].end <= w.end
          /\ w.start = Lesser(b.start, R[last].start)
          /\ w.end = Greater(b.end, R[last].end)
          /\ \A e \in Int : w.start <= e /\ e <= w.end <=>
               (b.start <= e /\ e <= b.end)
               \/ (R[last].start <= e /\ e <= R[last].end)
      BY <1>1, <1>3, <1>8, <1>9, <2>2, <3>2, TouchingMerge
    <3>5. R[last].start \in Int /\ R[last].end \in Int
          /\ R[k].start \in Int /\ R[k].end \in Int
      BY <1>1, <1>9
    <3>6. w.start = b.start
      BY <1>3, <1>4, <3>3, <3>4, <3>5 DEF Lesser
    <3>7. b.end <= w.end /\ (w.end = b.end \/ w.end = R[last].end)
      BY <1>4, <3>4, <3>5 DEF Greater
    <3> QED
      BY <3>4, <3>6, <3>7
  <2> QED
    BY <2>1, <2>2
<1>11. w.start \in Int /\ w.end \in Int
  BY <1>10 DEF RangeType
<1>12. \A m \in 1 .. k - 1 : R[m].end + 1 < w.start
  <2> SUFFICES ASSUME NEW m \in 1 .. k - 1 PROVE R[m].end + 1 < w.start
    OBVIOUS
  <2>1. m \in 1 .. Len(R) /\ m < k
    BY <1>1
  <2>2. R[m].end + 1 < R[k].start /\ R[m].end + 1 < x.start
    BY <1>1, <2>1
  <2> QED
    BY <1>3, <1>10, <2>2 DEF Lesser
<1>13. \A m \in last + 1 .. Len(R) : w.end + 1 < R[m].start
  <2> SUFFICES ASSUME NEW m \in last + 1 .. Len(R) PROVE w.end + 1 < R[m].start
    OBVIOUS
  <2>1. last + 1 \in 1 .. Len(R) /\ last < Len(R) /\ m \in 1 .. Len(R)
        /\ last < m /\ (m = last + 1 \/ last + 1 < m)
    BY <1>1, <1>9
  <2>2. /\ R[last].end + 1 < R[m].start
        /\ R[last].end + 1 < R[last + 1].start
        /\ R[k].end + 1 < R[last + 1].start
    BY <1>1, <1>7, <1>9, <2>1
  <2>3. b.end + 1 < R[last + 1].start
    <3>1. ~ touches(b, R[last + 1])
      BY <1>7, <2>1
    <3>2. /\ R[last + 1].start \in Int /\ R[last + 1].end \in Int
          /\ R[last + 1].start <= R[last + 1].end
          /\ R[k].start \in Int /\ R[k].end \in Int /\ R[k].start <= R[k].end
      BY <1>1, <2>1
    <3>3. R[last + 1] \in RangeType
      BY <1>1, <2>1
    <3>4. b.end + 1 < R[last + 1].start \/ R[last + 1].end + 1 < b.start
      BY <1>3, <3>1, <3>2, <3>3, Apart
    <3>5. b.start <= R[k].start
      BY <1>3
    <3>6. b.start < R[last + 1].end
      <4>1. /\ R[k].start <= R[k].end
            /\ R[k].end + 1 < R[last + 1].start
            /\ R[last + 1].start <= R[last + 1].end
        BY <2>2, <3>2, Zenon
      <4>2. \A p, q, r, s, t \in Int :
              p <= q /\ q <= r /\ r + 1 < s /\ s <= t => p < t
        OBVIOUS
      <4> QED
        BY <1>4, <3>2, <3>5, <4>1, <4>2, Zenon
    <3> QED
      BY <1>4, <3>2, <3>4, <3>6
  <2>4. R[last + 1].start <= R[m].start
    <3>1. CASE m = last + 1
      BY <1>1, <2>1, <3>1
    <3>2. CASE last + 1 < m
      <4>1. R[last + 1].end + 1 < R[m].start
            /\ R[last + 1].start <= R[last + 1].end
        BY <1>1, <2>1, <3>2
      <4> QED
        BY <1>1, <2>1, <4>1
    <3> QED
      BY <2>1, <3>1, <3>2
  <2>5. R[m].start \in Int /\ R[last + 1].start \in Int
    BY <1>1, <2>1
  <2> QED
    BY <1>4, <1>10, <2>2, <2>3, <2>4, <2>5
<1>14. S = SubSeq(R, 1, k - 1) \o <<w>> \o SubSeq(R, last + 1, Len(R))
  BY <1>2, <1>5, <1>6, <1>8, Zenon DEF Absorbed
<1>15. k \in 1 .. Len(R) + 1 /\ last \in k - 1 .. Len(R)
  BY <1>1, <1>7
<1>16. /\ S \in Seq(RangeType)
       /\ IsCanonical(S)
       /\ \A e \in Int : e \in Elements(S) <=>
            \/ Within(e, R, 1, k - 1)
            \/ w.start <= e /\ e <= w.end
            \/ Within(e, R, last + 1, Len(R))
  BY <1>10, <1>12, <1>13, <1>14, <1>15, SpliceOne, Zenon
<1>17. ASSUME NEW e \in Int
       PROVE  e \in Elements(S) <=>
                e \in Elements(R) \/ (x.start <= e /\ e <= x.end)
  <2>1. e \in Elements(R) <=> Within(e, R, 1, Len(R))
    BY InElements
  <2>2. ASSUME e \in Elements(S)
        PROVE  e \in Elements(R) \/ (x.start <= e /\ e <= x.end)
    <3>1. \A m \in 1 .. k - 1 : m \in 1 .. Len(R)
      BY <1>1
    <3>2. \A m \in last + 1 .. Len(R) : m \in 1 .. Len(R)
      BY <1>1, <1>9
    <3> QED
      BY <1>3, <1>9, <1>10, <1>16, <2>1, <2>2, <3>1, <3>2 DEF Within
  <2>3. ASSUME x.start <= e, e <= x.end PROVE e \in Elements(S)
    BY <1>3, <1>10, <1>16, <2>3
  <2>4. ASSUME NEW m \in 1 .. Len(R), R[m].start <= e, e <= R[m].end
        PROVE  e \in Elements(S)
    <3>1. CASE m < k
      <4>1. m \in 1 .. k - 1
        BY <1>1, <3>1
      <4> QED
        BY <1>16, <2>4, <4>1 DEF Within
    <3>2. CASE last < m
      <4>1. m \in last + 1 .. Len(R)
        BY <1>1, <1>9, <3>2
      <4> QED
        BY <1>16, <2>4, <4>1 DEF Within
    <3>3. CASE k <= m /\ m <= last
      <4>1. R[k].start <= R[m].start
        <5>1. m = k \/ R[k].end + 1 < R[m].start
          BY <1>1, <3>3
        <5> QED
          BY <1>1, <5>1
      <4>2. R[m].end <= R[last].end
        <5>1. m = last \/ R[m].end + 1 < R[last].start
          BY <1>1, <1>9, <3>3
        <5> QED
          BY <1>1, <1>9, <5>1
      <4>3. w.start <= e /\ e <= w.end
        <5>1. /\ R[m].start \in Int /\ R[m].end \in Int /\ R[k].start \in Int
              /\ R[last].end \in Int
          BY <1>1, <1>9
        <5> QED
          BY <1>3, <1>4, <1>10, <1>11, <2>4, <4>1, <4>2, <5>1
      <4> QED
        BY <1>16, <4>3
    <3> QED
      BY <1>1, <1>9, <3>1, <3>2, <3>3
  <2> QED
    BY <2>1, <2>2, <2>3, <2>4 DEF Within
<1> QED
  BY <1>16, <1>17

\* add keeps a list canonical and adds the elements of the range.
LEMMA AddedCorrect ==
    ASSUME NEW R \in Seq(RangeType), IsCanonical(R),
           NEW x \in RangeType
    PROVE  /\ Added(R, x) \in Seq(RangeType)
           /\ IsCanonical(Added(R, x))
           /\ \A e \in Int : e \in Elements(Added(R, x)) <=>
                e \in Elements(R) \/ (x.start <= e /\ e <= x.end)
<1>1. /\ Len(R) \in Nat
      /\ \A m \in 1 .. Len(R) :
           R[m] \in RangeType /\ R[m].start \in Int /\ R[m].end \in Int
      /\ \A m \in 1 .. Len(R) : R[m].start <= R[m].end
      /\ \A m, n \in 1 .. Len(R) : m < n => R[m].end + 1 < R[n].start
      /\ DOMAIN R = 1 .. Len(R)
  BY CanonicalAt, LenProperties
<1>2. x.start \in Int /\ x.end \in Int
  BY DEF RangeType
<1>3. CASE x.end < x.start
  <2>1. Added(R, x) = R
    BY <1>3 DEF Added
  <2>2. \A e \in Int : ~ (x.start <= e /\ e <= x.end)
    BY <1>2, <1>3
  <2> QED
    BY <2>1, <2>2, Zenon
<1>4. PICK halts : halts = {k \in DOMAIN R :
                              \/ touches(x, R[k])
                              \/ startsBeforeDisjoint(x, R[k])}
  OBVIOUS
<1>5. ASSUME x.start <= x.end, NEW m \in 1 .. Len(R), m \notin halts
      PROVE  R[m].end + 1 < x.start
  BY <1>1, <1>4, <1>5, Apart
<1>6. CASE x.start <= x.end /\ halts = {}
  <2>1. Added(R, x) = Append(R, x)
    BY <1>2, <1>4, <1>6 DEF Added
  <2>2. Append(R, x)
          = SubSeq(R, 1, (Len(R) + 1) - 1) \o <<x>> \o SubSeq(R, Len(R) + 1, Len(R))
    <3>1. SubSeq(R, 1, (Len(R) + 1) - 1) = R
      BY <1>1, SubSeqFull
    <3>2. SubSeq(R, Len(R) + 1, Len(R)) = <<>>
      BY <1>1, SubSeqEmpty
    <3>3. Append(R, x) = R \o <<x>> /\ R \o <<x>> \in Seq(RangeType)
      BY AppendIsConcat, AppendProperties
    <3>4. (R \o <<x>>) \o <<>> = R \o <<x>>
      BY <3>3, ConcatEmptySeq
    <3> QED
      BY <3>1, <3>2, <3>3, <3>4
  <2>3. /\ Len(R) + 1 \in 1 .. Len(R) + 1
        /\ Len(R) \in (Len(R) + 1) - 1 .. Len(R)
    BY <1>1
  <2>4. \A m \in 1 .. (Len(R) + 1) - 1 : R[m].end + 1 < x.start
    BY <1>1, <1>5, <1>6
  <2>5. \A m \in Len(R) + 1 .. Len(R) : x.end + 1 < R[m].start
    BY <1>1
  <2>6. /\ Added(R, x) \in Seq(RangeType)
        /\ IsCanonical(Added(R, x))
        /\ \A e \in Int : e \in Elements(Added(R, x)) <=>
             \/ Within(e, R, 1, (Len(R) + 1) - 1)
             \/ x.start <= e /\ e <= x.end
             \/ Within(e, R, Len(R) + 1, Len(R))
    BY <1>6, <2>1, <2>2, <2>3, <2>4, <2>5, SpliceOne, Zenon
  <2>7. ASSUME NEW e \in Int
        PROVE  /\ Within(e, R, 1, (Len(R) + 1) - 1) <=> e \in Elements(R)
               /\ ~ Within(e, R, Len(R) + 1, Len(R))
    BY <1>1, InElements DEF Within
  <2> QED
    BY <2>6, <2>7
<1>7. CASE x.start <= x.end /\ halts # {}
  <2>0. PICK k : k = Min(halts)
    OBVIOUS
  <2>1. k \in halts /\ \A m \in halts : k <= m
    <3>1. halts \subseteq Nat
      BY <1>1, <1>4
    <3> QED
      BY <1>7, <2>0, <3>1, LeastOfNats
  <2>2. k \in 1 .. Len(R) /\ k \in Int
    BY <1>1, <1>4, <2>1
  <2>3. \A m \in 1 .. k - 1 : R[m].end + 1 < x.start
    <3> SUFFICES ASSUME NEW m \in 1 .. k - 1 PROVE R[m].end + 1 < x.start
      OBVIOUS
    <3>1. m \in 1 .. Len(R) /\ ~ (k <= m)
      BY <1>1, <2>2
    <3>2. m \notin halts
      BY <2>1, <3>1
    <3> QED
      BY <1>5, <1>7, <3>1, <3>2
  <2>4. CASE x = R[k]
    <3>1. Added(R, x) = R
      BY <1>2, <1>4, <1>7, <2>0, <2>4 DEF Added
    <3>2. \A e \in Int : x.start <= e /\ e <= x.end => e \in Elements(R)
      BY <2>2, <2>4, InElements DEF Within
    <3> QED
      BY <3>1, <3>2, Zenon
  <2>5. CASE x # R[k] /\ touches(x, R[k])
    <3>1. Added(R, x) = Absorbed(R, k, merge(x, R[k]))
      BY <1>2, <1>4, <1>7, <2>0, <2>5 DEF Added
    <3> QED
      BY <1>7, <2>2, <2>3, <2>5, <3>1, AbsorbedCorrect, Zenon
  <2>6. CASE x # R[k] /\ ~ touches(x, R[k])
    <3>1. Added(R, x) = InsertAt(R, k, x)
      BY <1>2, <1>4, <1>7, <2>0, <2>6 DEF Added
    <3>2. Added(R, x)
            = SubSeq(R, 1, k - 1) \o <<x>> \o SubSeq(R, (k - 1) + 1, Len(R))
      <4>1. (k - 1) + 1 = k
        BY <2>2
      <4> QED
        BY <3>1, <4>1, Zenon DEF InsertAt
    <3>3. k \in 1 .. Len(R) + 1 /\ k - 1 \in k - 1 .. Len(R)
      BY <1>1, <2>2
    <3>4. x.end + 1 < R[k].start
      <4>1. startsBeforeDisjoint(x, R[k])
        BY <1>4, <2>1, <2>6
      <4> QED
        BY <1>1, <1>7, <2>2, <2>6, <4>1, Apart
    <3>5. \A m \in (k - 1) + 1 .. Len(R) : x.end + 1 < R[m].start
      <4> SUFFICES ASSUME NEW m \in (k - 1) + 1 .. Len(R)
                   PROVE  x.end + 1 < R[m].start
        OBVIOUS
      <4>1. m \in 1 .. Len(R) /\ (m = k \/ k < m)
        BY <1>1, <2>2
      <4>2. m = k \/ (R[k].end + 1 < R[m].start /\ R[k].start <= R[k].end)
        BY <1>1, <2>2, <4>1
      <4>3. R[m].start \in Int /\ R[k].start \in Int /\ R[k].end \in Int
        BY <1>1, <2>2, <4>1
      <4> QED
        BY <1>2, <3>4, <4>2, <4>3
    <3>6. /\ Added(R, x) \in Seq(RangeType)
          /\ IsCanonical(Added(R, x))
          /\ \A e \in Int : e \in Elements(Added(R, x)) <=>
               \/ Within(e, R, 1, k - 1)
               \/ x.start <= e /\ e <= x.end
               \/ Within(e, R, (k - 1) + 1, Len(R))
      BY <1>7, <2>3, <3>2, <3>3, <3>5, SpliceOne, Zenon
    <3>7. ASSUME NEW e \in Int
          PROVE  e \in Elements(R) <=> \/ Within(e, R, 1, k - 1)
                                       \/ Within(e, R, (k - 1) + 1, Len(R))
      <4>1. \A m \in Int : m \in 1 .. Len(R) <=>
                             m \in 1 .. k - 1 \/ m \in (k - 1) + 1 .. Len(R)
        BY <1>1, <2>2
      <4> QED
        BY <4>1, InElements DEF Within
    <3> QED
      BY <3>6, <3>7
  <2> QED
    BY <2>4, <2>5, <2>6
<1> QED
  BY <1>2, <1>3, <1>6, <1>7

\* A range with one of its ends changed.
LEMMA ChangedEnd ==
    ASSUME NEW r \in RangeType, NEW v
    PROVE  /\ [r EXCEPT !.start = v] = RangeOf(v, r.end)
           /\ [r EXCEPT !.end = v] = RangeOf(r.start, v)
  BY DEF RangeOf, RangeType

\* A list with the range at k narrowed.
LEMMA NarrowedCorrect ==
    ASSUME NEW R \in Seq(RangeType), IsCanonical(R),
           NEW k \in 1 .. Len(R),
           NEW w \in RangeType, w.start <= w.end,
           R[k].start <= w.start, w.end <= R[k].end,
           NEW S, S = [R EXCEPT ![k] = w]
    PROVE  /\ S \in Seq(RangeType)
           /\ IsCanonical(S)
           /\ \A e \in Int : e \in Elements(S) <=>
                \/ w.start <= e /\ e <= w.end
                \/ \E m \in 1 .. Len(R) :
                     m # k /\ R[m].start <= e /\ e <= R[m].end
<1>1. /\ Len(R) \in Nat
      /\ \A m \in 1 .. Len(R) :
           R[m] \in RangeType /\ R[m].start \in Int /\ R[m].end \in Int
      /\ \A m \in 1 .. Len(R) : R[m].start <= R[m].end
      /\ \A m, n \in 1 .. Len(R) : m < n => R[m].end + 1 < R[n].start
  BY CanonicalAt
<1>2. w.start \in Int /\ w.end \in Int
  BY DEF RangeType
<1>3. /\ S \in Seq(RangeType) /\ Len(S) = Len(R)
      /\ \A m \in 1 .. Len(R) : S[m] = IF m = k THEN w ELSE R[m]
  BY ExceptSeq
<1>4. ASSUME NEW m \in 1 .. Len(R)
      PROVE  /\ S[m].start <= S[m].end
             /\ R[m].start <= S[m].start /\ S[m].end <= R[m].end
             /\ S[m].start \in Int /\ S[m].end \in Int
  BY <1>1, <1>2, <1>3
<1>5. ASSUME NEW m \in 1 .. Len(R), NEW n \in 1 .. Len(R), m < n
      PROVE  S[m].end + 1 < S[n].start
  <2>1. R[m].end + 1 < R[n].start
    BY <1>1, <1>5
  <2>2. R[m].end \in Int /\ R[n].start \in Int
    BY <1>1
  <2> QED
    BY <1>4, <2>1, <2>2
<1>6. IsCanonical(S)
  BY <1>3, <1>4, <1>5, CanonicalAt
<1>7. ASSUME NEW e \in Int
      PROVE  e \in Elements(S) <=>
               \/ w.start <= e /\ e <= w.end
               \/ \E m \in 1 .. Len(R) :
                    m # k /\ R[m].start <= e /\ e <= R[m].end
  <2>1. e \in Elements(S) <=>
          \E m \in 1 .. Len(R) : S[m].start <= e /\ e <= S[m].end
    BY <1>3, InElements DEF Within
  <2> QED
    BY <1>3, <2>1
<1> QED
  BY <1>3, <1>6, <1>7

\* remove keeps a list canonical and takes away the element.
LEMMA RemovedCorrect ==
    ASSUME NEW R \in Seq(RangeType), IsCanonical(R),
           NEW el \in Int
    PROVE  /\ Removed(R, el) \in Seq(RangeType)
           /\ IsCanonical(Removed(R, el))
           /\ \A e \in Int : e \in Elements(Removed(R, el)) <=>
                e \in Elements(R) /\ e # el
<1>1. /\ Len(R) \in Nat
      /\ \A m \in 1 .. Len(R) :
           R[m] \in RangeType /\ R[m].start \in Int /\ R[m].end \in Int
      /\ \A m \in 1 .. Len(R) : R[m].start <= R[m].end
      /\ \A m, n \in 1 .. Len(R) : m < n => R[m].end + 1 < R[n].start
      /\ DOMAIN R = 1 .. Len(R)
  BY CanonicalAt, LenProperties
<1>2. \A e \in Int : e \in Elements(R) <=>
        \E m \in 1 .. Len(R) : R[m].start <= e /\ e <= R[m].end
  BY InElements DEF Within
<1>3. PICK halts : halts = {n \in DOMAIN R : el <= R[n].end}
  OBVIOUS
<1>4. CASE halts = {}
  <2>1. Removed(R, el) = R
    BY <1>3, <1>4 DEF Removed
  <2>2. el \notin Elements(R)
    BY <1>1, <1>2, <1>3, <1>4
  <2> QED
    BY <2>1, <2>2, Zenon
<1>5. CASE halts # {}
  <2>0. PICK k : k = Min(halts)
    OBVIOUS
  <2>1. k \in halts /\ \A m \in halts : k <= m
    <3>1. halts \subseteq Nat
      BY <1>1, <1>3
    <3> QED
      BY <1>5, <2>0, <3>1, LeastOfNats
  <2>2. k \in 1 .. Len(R) /\ k \in Int /\ el <= R[k].end
    BY <1>1, <1>3, <2>1
  <2>3. /\ R[k] \in RangeType /\ R[k].start \in Int /\ R[k].end \in Int
        /\ R[k].start <= R[k].end
        /\ R[k] = RangeOf(R[k].start, R[k].end)
    BY <1>1, <2>2 DEF RangeType, RangeOf
  <2>4. ASSUME NEW m \in 1 .. Len(R), m # k
        PROVE  R[m].end < el \/ R[k].end + 1 < R[m].start
    <3>1. CASE m < k
      <4>1. m \notin halts
        BY <1>1, <2>1, <2>2, <3>1
      <4> QED
        BY <1>1, <1>3, <4>1
    <3>2. CASE k < m
      BY <1>1, <2>2, <3>2
    <3> QED
      BY <1>1, <2>2, <2>4, <3>1, <3>2
  <2>5. ASSUME NEW m \in 1 .. Len(R), m # k
        PROVE  ~ (R[m].start <= el /\ el <= R[m].end)
    BY <1>1, <2>2, <2>3, <2>4, <2>5
  <2>6. CASE el < R[k].start
    <3>1. Removed(R, el) = R
      BY <1>3, <1>5, <2>0, <2>6 DEF Removed
    <3>2. el \notin Elements(R)
      BY <1>2, <2>3, <2>5, <2>6
    <3> QED
      BY <3>1, <3>2, Zenon
  <2>7. CASE el = R[k].start /\ el = R[k].end
    <3>0. ~ (el < R[k].start)
      BY <2>3, <2>7
    <3>1. Removed(R, el) = RemoveAt(R, k)
      BY <1>3, <1>5, <2>0, <2>7, <3>0, Zenon DEF Removed
    <3>2. PICK A : A = SubSeq(R, 1, k - 1)
      OBVIOUS
    <3>3. A \in Seq(RangeType)
      <4>1. \A m \in 1 .. k - 1 : R[m] \in RangeType
        BY <1>1, <2>2
      <4> QED
        BY <2>2, <3>2, <4>1, SubSeqProperties
    <3>4. A \o <<>> = A
      BY <3>3, ConcatEmptySeq
    <3>5. Removed(R, el)
            = SubSeq(R, 1, k - 1) \o <<>> \o SubSeq(R, k + 1, Len(R))
      BY <3>1, <3>2, <3>4, Zenon DEF RemoveAt
    <3>6. k \in 1 .. Len(R) + 1 /\ k \in k - 1 .. Len(R)
      BY <1>1, <2>2
    <3>7. <<>> \in Seq(RangeType) /\ Len(<<>>) = 0
      BY EmptySeq
    <3>8. IsSplice(Removed(R, el), R, k, k, <<>>)
      BY <3>5, <3>6, <3>7, Splice, Zenon
    <3>9. IsCanonical(Removed(R, el))
      <4>1. IsCanonical(<<>>)
        BY DEF IsCanonical
      <4>2. \A n \in 1 .. Len(<<>>) : FALSE
        BY <3>7
      <4> QED
        BY <3>8, <4>1, <4>2, SpliceCanonical, Zenon
    <3>10. ASSUME NEW e \in Int
           PROVE  e \in Elements(Removed(R, el)) <=> e \in Elements(R) /\ e # el
      <4>1. e \in Elements(Removed(R, el)) <=>
              Within(e, R, 1, k - 1) \/ Within(e, R, k + 1, Len(R))
        <5>1. ~ Within(e, <<>>, 1, Len(<<>>))
          BY <3>7 DEF Within
        <5> QED
          BY <3>8, <5>1, SpliceElements
      <4>2. \A m \in Int : m \in 1 .. Len(R) /\ m # k <=>
                             m \in 1 .. k - 1 \/ m \in k + 1 .. Len(R)
        BY <1>1, <2>2
      <4>3. e \in Elements(Removed(R, el)) <=>
              \E m \in 1 .. Len(R) : m # k /\ R[m].start <= e /\ e <= R[m].end
        BY <4>1, <4>2 DEF Within
      <4>4. R[k].start <= e /\ e <= R[k].end <=> e = el
        BY <2>3, <2>7
      <4> QED
        BY <1>2, <2>2, <2>5, <4>3, <4>4
    <3> QED
      BY <3>8, <3>9, <3>10 DEF IsSplice
  <2>8. CASE el = R[k].start /\ el # R[k].end
    <3>0. ~ (el < R[k].start)
      BY <2>3, <2>8
    <3>1. PICK w : w = RangeOf(el + 1, R[k].end)
      OBVIOUS
    <3>2. w \in RangeType /\ w.start = el + 1 /\ w.end = R[k].end
      BY <2>3, <3>1 DEF RangeOf, RangeType
    <3>3. Removed(R, el) = [R EXCEPT ![k] = w]
      <4>1. Removed(R, el) = [R EXCEPT ![k].start = el + 1]
        BY <1>3, <1>5, <2>0, <2>8, <3>0, Zenon DEF Removed
      <4>2. [R[k] EXCEPT !.start = el + 1] = w
        BY <2>3, <3>1, ChangedEnd, Zenon
      <4> QED
        BY <4>1, <4>2
    <3>4. w.start <= w.end /\ R[k].start <= w.start /\ w.end <= R[k].end
      BY <2>2, <2>3, <2>8, <3>2
    <3>5. /\ Removed(R, el) \in Seq(RangeType)
          /\ IsCanonical(Removed(R, el))
          /\ \A e \in Int : e \in Elements(Removed(R, el)) <=>
               \/ w.start <= e /\ e <= w.end
               \/ \E m \in 1 .. Len(R) :
                    m # k /\ R[m].start <= e /\ e <= R[m].end
      BY <2>2, <3>2, <3>3, <3>4, NarrowedCorrect, Zenon
    <3>6. \A e \in Int : w.start <= e /\ e <= w.end <=>
                           R[k].start <= e /\ e <= R[k].end /\ e # el
      BY <2>3, <2>8, <3>2
    <3> QED
      BY <1>2, <2>2, <2>5, <3>5, <3>6
  <2>9. CASE el = R[k].end /\ el # R[k].start
    <3>0. ~ (el < R[k].start)
      BY <2>3, <2>9
    <3>1. PICK w : w = RangeOf(R[k].start, el - 1)
      OBVIOUS
    <3>2. w \in RangeType /\ w.start = R[k].start /\ w.end = el - 1
      BY <2>3, <3>1 DEF RangeOf, RangeType
    <3>3. Removed(R, el) = [R EXCEPT ![k] = w]
      <4>1. Removed(R, el) = [R EXCEPT ![k].end = el - 1]
        BY <1>3, <1>5, <2>0, <2>9, <3>0, Zenon DEF Removed
      <4>2. [R[k] EXCEPT !.end = el - 1] = w
        BY <2>3, <3>1, ChangedEnd, Zenon
      <4> QED
        BY <4>1, <4>2
    <3>4. w.start <= w.end /\ R[k].start <= w.start /\ w.end <= R[k].end
      BY <2>2, <2>3, <2>9, <3>2
    <3>5. /\ Removed(R, el) \in Seq(RangeType)
          /\ IsCanonical(Removed(R, el))
          /\ \A e \in Int : e \in Elements(Removed(R, el)) <=>
               \/ w.start <= e /\ e <= w.end
               \/ \E m \in 1 .. Len(R) :
                    m # k /\ R[m].start <= e /\ e <= R[m].end
      BY <2>2, <3>2, <3>3, <3>4, NarrowedCorrect, Zenon
    <3>6. \A e \in Int : w.start <= e /\ e <= w.end <=>
                           R[k].start <= e /\ e <= R[k].end /\ e # el
      BY <2>3, <2>9, <3>2
    <3> QED
      BY <1>2, <2>2, <2>5, <3>5, <3>6
  <2>10. CASE ~ (el < R[k].start) /\ el # R[k].start /\ el # R[k].end
    <3>1. PICK w : w = RangeOf(R[k].start, el - 1)
      OBVIOUS
    <3>2. w \in RangeType /\ w.start = R[k].start /\ w.end = el - 1
      BY <2>3, <3>1 DEF RangeOf, RangeType
    <3>3. PICK S : S = [R EXCEPT ![k] = w]
      OBVIOUS
    <3>4. PICK x : x = RangeOf(el + 1, R[k].end)
      OBVIOUS
    <3>5. x \in RangeType /\ x.start = el + 1 /\ x.end = R[k].end
      BY <2>3, <3>4 DEF RangeOf, RangeType
    <3>6. Removed(R, el) = Added(S, x)
      <4>1. Removed(R, el)
              = Added([R EXCEPT ![k].end = el - 1], RangeOf(el + 1, R[k].end))
        BY <1>3, <1>5, <2>0, <2>10, Zenon DEF Removed
      <4>2. [R[k] EXCEPT !.end = el - 1] = w
        BY <2>3, <3>1, ChangedEnd, Zenon
      <4>3. [R EXCEPT ![k].end = el - 1] = S
        BY <3>3, <4>2
      <4> QED
        BY <3>4, <4>1, <4>3, Zenon
    <3>7. w.start <= w.end /\ R[k].start <= w.start /\ w.end <= R[k].end
      BY <2>2, <2>3, <2>10, <3>2
    <3>8. /\ S \in Seq(RangeType)
          /\ IsCanonical(S)
          /\ \A e \in Int : e \in Elements(S) <=>
               \/ w.start <= e /\ e <= w.end
               \/ \E m \in 1 .. Len(R) :
                    m # k /\ R[m].start <= e /\ e <= R[m].end
      BY <2>2, <3>2, <3>3, <3>7, NarrowedCorrect, Zenon
    <3>9. /\ Added(S, x) \in Seq(RangeType)
          /\ IsCanonical(Added(S, x))
          /\ \A e \in Int : e \in Elements(Added(S, x)) <=>
               e \in Elements(S) \/ (x.start <= e /\ e <= x.end)
      BY <3>5, <3>8, AddedCorrect, Zenon
    <3>10. \A e \in Int :
             (w.start <= e /\ e <= w.end) \/ (x.start <= e /\ e <= x.end) <=>
               R[k].start <= e /\ e <= R[k].end /\ e # el
      BY <2>2, <2>3, <2>10, <3>2, <3>5
    <3>11. ASSUME NEW e \in Int
           PROVE  e \in Elements(Added(S, x)) <=> e \in Elements(R) /\ e # el
      BY <1>2, <2>2, <2>5, <3>8, <3>9, <3>10
    <3> QED
      BY <3>6, <3>9, <3>11
  <2> QED
    BY <2>6, <2>7, <2>8, <2>9, <2>10
<1> QED
  BY <1>4, <1>5

-----------------------------------------------------------------------------
\* The range at a position within the list.
LEMMA InList ==
    ASSUME NEW R \in Seq(RangeType), NEW k \in Nat \ {0}, k <= Len(R)
    PROVE  /\ k \in 1 .. Len(R) /\ R[k] \in RangeType
           /\ R[k].start \in Int /\ R[k].end \in Int
<1>1. Len(R) \in Nat
  BY LenProperties
<1>2. k \in 1 .. Len(R)
  BY <1>1
<1>3. R[k] \in RangeType
  BY <1>2, ElementOfSeq
<1> QED
  BY <1>2, <1>3 DEF RangeType

\* The positions of a list from k on are k and those after it.
LEMMA WithinSplit ==
    ASSUME NEW R, NEW k \in Int, NEW l \in Int, k <= l, NEW e
    PROVE  Within(e, R, k, l) <=>
             (R[k].start <= e /\ e <= R[k].end) \/ Within(e, R, k + 1, l)
<1>1. \A m \in Int : m \in k .. l <=> m = k \/ m \in k + 1 .. l
  OBVIOUS
<1> QED
  BY <1>1 DEF Within

\* A positions' interval that is empty holds nothing.
LEMMA WithinEmpty ==
    ASSUME NEW R, NEW k \in Int, NEW l \in Int, l < k, NEW e
    PROVE  ~ Within(e, R, k, l)
  BY DEF Within

\* The empty list.
LEMMA EmptyList ==
    /\ <<>> \in Seq(RangeType) /\ IsCanonical(<<>>) /\ Len(<<>>) = 0
    /\ Elements(<<>>) = {}
<1>1. <<>> \in Seq(RangeType) /\ Len(<<>>) = 0
  BY EmptySeq
<1>2. IsCanonical(<<>>)
  BY DEF IsCanonical
<1>3. ToSet(<<>>) = {}
  BY DEF ToSet
<1> QED
  BY <1>1, <1>2, <1>3 DEF Elements

\* Elements are integers.
LEMMA ElementsType ==
    ASSUME NEW R \in Seq(RangeType)
    PROVE  Elements(R) \subseteq Int
  BY InElements

\* The elements of a concatenation.
LEMMA ElementsOfConcat ==
    ASSUME NEW s \in Seq(RangeType), NEW t \in Seq(RangeType), NEW e
    PROVE  e \in Elements(s \o t) <=> e \in Elements(s) \/ e \in Elements(t)
<1>1. /\ s \o t \in Seq(RangeType)
      /\ Len(s \o t) = Len(s) + Len(t)
      /\ \A n \in 1 .. Len(s) : (s \o t)[n] = s[n]
      /\ \A n \in 1 .. Len(t) : (s \o t)[Len(s) + n] = t[n]
      /\ Len(s) \in Nat /\ Len(t) \in Nat
  BY Concat, LenProperties
<1>2. ASSUME NEW n \in 1 .. Len(s) PROVE n \in 1 .. Len(s \o t)
  BY <1>1
<1>3. ASSUME NEW n \in 1 .. Len(t) PROVE Len(s) + n \in 1 .. Len(s \o t)
  BY <1>1
<1>4. ASSUME NEW n \in 1 .. Len(s \o t), n \notin 1 .. Len(s)
      PROVE  \E m \in 1 .. Len(t) : n = Len(s) + m
  <2>1. n - Len(s) \in 1 .. Len(t) /\ n = Len(s) + (n - Len(s))
    BY <1>1, <1>4
  <2> QED
    BY <2>1
<1>5. Within(e, s \o t, 1, Len(s \o t)) <=>
        Within(e, s, 1, Len(s)) \/ Within(e, t, 1, Len(t))
  BY <1>1, <1>2, <1>3, <1>4 DEF Within
<1> QED
  BY <1>1, <1>5, InElements

\* The elements of the first ranges of a list.
LEMMA ElementsOfPrefix ==
    ASSUME NEW R \in Seq(RangeType), NEW k \in Nat, k <= Len(R), NEW e \in Int
    PROVE  e \in Elements(SubSeq(R, 1, k)) <=> Within(e, R, 1, k)
<1>1. Len(R) \in Nat
  BY LenProperties
<1>2. \A m \in 1 .. k : R[m] \in RangeType
  BY <1>1, ElementOfSeq
<1>3. PICK S : S = SubSeq(R, 1, k)
  OBVIOUS
<1>4. /\ S \in Seq(RangeType)
      /\ Len(S) = IF 1 <= k THEN k - 1 + 1 ELSE 0
      /\ \A m \in 1 .. k - 1 + 1 : S[m] = R[1 + m - 1]
  BY <1>2, <1>3, SubSeqProperties
<1>5. Len(S) = k /\ \A m \in 1 .. k : S[m] = R[m]
  BY <1>4
<1>6. Within(e, S, 1, Len(S)) <=> Within(e, R, 1, k)
  BY <1>5 DEF Within
<1> QED
  BY <1>3, <1>4, <1>6, InElements
-----------------------------------------------------------------------------
\* Two canonical lists with the same elements and the same ranges up to n: the
\* one has a range at n if the other has, and it starts no later.
LEMMA StartsNoLater ==
    ASSUME NEW R \in Seq(RangeType), IsCanonical(R),
           NEW S \in Seq(RangeType), IsCanonical(S),
           Elements(R) = Elements(S),
           NEW n \in 1 .. Len(S),
           \A m \in 1 .. n - 1 : m <= Len(R) /\ R[m] = S[m]
    PROVE  n <= Len(R) /\ R[n].start <= S[n].start
<1>1. /\ Len(R) \in Nat /\ Len(S) \in Nat
      /\ \A m \in 1 .. Len(R) : R[m].start \in Int /\ R[m].end \in Int
      /\ \A m \in 1 .. Len(S) : S[m].start \in Int /\ S[m].end \in Int
      /\ \A m \in 1 .. Len(S) : S[m].start <= S[m].end
      /\ \A m, l \in 1 .. Len(R) : m < l => R[m].end + 1 < R[l].start
      /\ \A m \in 1 .. Len(R) : R[m].start <= R[m].end
      /\ \A m, l \in 1 .. Len(S) : m < l => S[m].end + 1 < S[l].start
  BY CanonicalAt
<1>2. PICK e : e = S[n].start
  OBVIOUS
<1>3. e \in Int /\ S[n].start <= e /\ e <= S[n].end
  BY <1>1, <1>2
<1>4. Within(e, S, 1, Len(S))
  BY <1>3 DEF Within
<1>5. Within(e, R, 1, Len(R))
  BY <1>3, <1>4, InElements
<1>6. PICK m \in 1 .. Len(R) : R[m].start <= e /\ e <= R[m].end
  BY <1>5 DEF Within
<1>7. m >= n
  <2> SUFFICES ASSUME m < n PROVE FALSE
    BY <1>1
  <2>1. m \in 1 .. n - 1 /\ m \in 1 .. Len(S)
    BY <1>1
  <2>2. R[m] = S[m] /\ S[m].end + 1 < S[n].start
    BY <1>1, <2>1
  <2> QED
    BY <1>1, <1>2, <1>6, <2>1, <2>2
<1>8. n \in 1 .. Len(R)
  BY <1>1, <1>7
<1>9. R[n].start <= R[m].start
  <2>1. CASE m = n
    BY <1>1, <2>1
  <2>2. CASE m > n
    <3>1. R[n].end + 1 < R[m].start /\ R[n].start <= R[n].end
      BY <1>1, <1>8, <2>2
    <3> QED
      BY <1>1, <1>8, <3>1
  <2> QED
    BY <1>7, <2>1, <2>2
<1> QED
  BY <1>1, <1>2, <1>3, <1>6, <1>8, <1>9

\* If they start together at n, the one ends no earlier than the other.
LEMMA EndsNoEarlier ==
    ASSUME NEW R \in Seq(RangeType), IsCanonical(R),
           NEW S \in Seq(RangeType), IsCanonical(S),
           Elements(R) = Elements(S),
           NEW n \in 1 .. Len(S), n \in 1 .. Len(R), R[n].start = S[n].start
    PROVE  S[n].end <= R[n].end
<1>1. /\ Len(R) \in Nat /\ Len(S) \in Nat
      /\ \A m \in 1 .. Len(R) : R[m].start \in Int /\ R[m].end \in Int
      /\ \A m \in 1 .. Len(S) : S[m].start \in Int /\ S[m].end \in Int
      /\ \A m \in 1 .. Len(R) : R[m].start <= R[m].end
      /\ \A m, l \in 1 .. Len(R) : m < l => R[m].end + 1 < R[l].start
  BY CanonicalAt
<1> SUFFICES ASSUME R[n].end < S[n].end PROVE FALSE
  BY <1>1
<1>2. PICK e : e = R[n].end + 1
  OBVIOUS
<1>3. e \in Int /\ S[n].start <= e /\ e <= S[n].end
  BY <1>1, <1>2
<1>4. Within(e, S, 1, Len(S))
  BY <1>3 DEF Within
<1>5. Within(e, R, 1, Len(R))
  BY <1>3, <1>4, InElements
<1>6. PICK m \in 1 .. Len(R) : R[m].start <= e /\ e <= R[m].end
  BY <1>5 DEF Within
<1>7. CASE m < n
  <2>1. R[m].end + 1 < R[n].start /\ R[n].start <= R[n].end
    BY <1>1, <1>7
  <2> QED
    BY <1>1, <1>2, <1>6, <2>1
<1>8. CASE m = n
  BY <1>1, <1>2, <1>6, <1>8
<1>9. CASE m > n
  <2>1. R[n].end + 1 < R[m].start
    BY <1>1, <1>9
  <2> QED
    BY <1>1, <1>2, <1>6, <2>1
<1> QED
  BY <1>1, <1>7, <1>8, <1>9

\* A range is its two ends.
LEMMA SameEnds == \A r, s \in RangeType :
    r.start = s.start /\ r.end = s.end => r = s
  BY DEF RangeType

\* A set of integers has one canonical list: operator== compares sets.
LEMMA CanonicalUnique ==
    ASSUME NEW R \in Seq(RangeType), IsCanonical(R),
           NEW S \in Seq(RangeType), IsCanonical(S),
           Elements(R) = Elements(S)
    PROVE  R = S
<1>1. /\ Len(R) \in Nat /\ Len(S) \in Nat
      /\ \A m \in 1 .. Len(R) : /\ R[m] \in RangeType
                                /\ R[m].start \in Int /\ R[m].end \in Int
      /\ \A m \in 1 .. Len(S) : /\ S[m] \in RangeType
                                /\ S[m].start \in Int /\ S[m].end \in Int
  BY CanonicalAt
<1>2. PICK D : D = {n \in Nat : /\ 1 <= n
                                /\ n <= Len(R) \/ n <= Len(S)
                                /\ ~ (/\ n <= Len(R) /\ n <= Len(S)
                                      /\ R[n] = S[n])}
  OBVIOUS
<1>3. D = {}
  <2> SUFFICES ASSUME D # {} PROVE FALSE
    OBVIOUS
  <2>1. D \subseteq Nat
    BY <1>2
  <2>2. PICK n \in D : \A m \in D : n <= m
    BY <2>1, LeastOfNats
  <2>3. n \in Nat /\ 1 <= n /\ (n <= Len(R) \/ n <= Len(S))
    BY <1>2, <2>2
  <2>4. ASSUME NEW m \in 1 .. n - 1
        PROVE  m <= Len(R) /\ m <= Len(S) /\ R[m] = S[m]
    <3>1. m \in Nat /\ 1 <= m /\ m < n /\ (m <= Len(R) \/ m <= Len(S))
      BY <1>1, <2>3, <2>4
    <3>2. m \notin D
      BY <2>2, <2>3, <3>1
    <3> QED
      BY <1>2, <3>1, <3>2
  <2>5. n \in 1 .. Len(S) => n <= Len(R) /\ R[n].start <= S[n].start
    BY <2>4, StartsNoLater
  <2>6. n \in 1 .. Len(R) => n <= Len(S) /\ S[n].start <= R[n].start
    BY <2>4, StartsNoLater
  <2>7. n \in 1 .. Len(R) /\ n \in 1 .. Len(S)
    BY <1>1, <2>3, <2>5, <2>6
  <2>8. R[n].start = S[n].start
    BY <1>1, <2>5, <2>6, <2>7
  <2>9. S[n].end <= R[n].end /\ R[n].end <= S[n].end
    BY <2>7, <2>8, EndsNoEarlier
  <2>10. R[n] = S[n]
    <3>1. R[n].end = S[n].end
      BY <1>1, <2>7, <2>9
    <3>2. R[n] \in RangeType /\ S[n] \in RangeType
      BY <1>1, <2>7
    <3> QED
      BY <2>8, <3>1, <3>2, SameEnds
  <2> QED
    BY <1>1, <1>2, <2>2, <2>7, <2>10
<1>4. \A n \in Nat : 1 <= n /\ (n <= Len(R) \/ n <= Len(S)) =>
        n <= Len(R) /\ n <= Len(S) /\ R[n] = S[n]
  BY <1>2, <1>3
<1>5. Len(R) = Len(S)
  BY <1>1, <1>4
<1>6. \A n \in 1 .. Len(R) : R[n] = S[n]
  BY <1>1, <1>4
<1> QED
  BY <1>5, <1>6, SeqEqual
-----------------------------------------------------------------------------
\* The queries.  counted is a function that is defined by recursion: that one
\* exists is shown from the least position up to which there is none.
LEMMA CountedRecursion ==
    ASSUME NEW R, Len(R) \in Nat
    PROVE  counted(R) = [n \in 0 .. Len(R) |->
             IF n = 0 THEN 0
             ELSE counted(R)[n - 1] + (R[n].end - R[n].start + 1)]
<1> DEFINE width(n) == R[n].end - R[n].start + 1
           Counts(f, l) == f = [n \in 0 .. l |->
                                  IF n = 0 THEN 0 ELSE f[n - 1] + width(n)]
           bad == {l \in Nat : ~ \E f : Counts(f, l)}
<1>1. \E f : Counts(f, 0)
  <2> DEFINE g == [n \in 0 .. 0 |-> 0]
  <2>1. \A n \in 0 .. 0 : n = 0
    OBVIOUS
  <2>2. g = [n \in 0 .. 0 |-> IF n = 0 THEN 0 ELSE g[n - 1] + width(n)]
    BY <2>1, Zenon
  <2> QED
    BY <2>2
<1>2. ASSUME NEW l \in Nat \ {0}, NEW f, Counts(f, l - 1)
      PROVE  \E g : Counts(g, l)
  <2> DEFINE g == [n \in 0 .. l |->
                     IF n = l THEN f[l - 1] + width(l) ELSE f[n]]
             h == [n \in 0 .. l |->
                     IF n = 0 THEN 0 ELSE g[n - 1] + width(n)]
  <2> HIDE DEF width
  <2>1. ASSUME NEW n \in 0 .. l PROVE g[n] = h[n]
    <3>1. h[n] = IF n = 0 THEN 0 ELSE g[n - 1] + width(n)
      BY Zenon
    <3>2. CASE n = 0
      <4>1. 0 \in 0 .. l - 1 /\ n # l
        BY <3>2
      <4>2. g[n] = f[0]
        BY <3>2, <4>1
      <4>3. f[0] = 0
        BY <1>2, <4>1, Zenon
      <4> QED
        BY <3>1, <3>2, <4>2, <4>3
    <3>3. CASE n # 0 /\ n = l
      <4>1. l - 1 \in 0 .. l /\ l - 1 # l
        OBVIOUS
      <4>2. g[l - 1] = f[l - 1]
        BY <4>1, Zenon
      <4>3. g[n] = f[l - 1] + width(l)
        BY <3>3, Zenon
      <4> QED
        BY <3>1, <3>3, <4>2, <4>3
    <3>4. CASE n # 0 /\ n # l
      <4>1. /\ n \in 0 .. l - 1
            /\ n - 1 \in 0 .. l /\ n - 1 # l
        BY <3>4
      <4>2. g[n] = f[n] /\ g[n - 1] = f[n - 1]
        BY <3>4, <4>1, Zenon
      <4>3. f[n] = f[n - 1] + width(n)
        BY <1>2, <3>4, <4>1, Zenon
      <4> QED
        BY <3>1, <3>4, <4>2, <4>3
    <3> QED
      BY <3>2, <3>3, <3>4, Zenon
  <2>2. g = h
    BY <2>1, Zenon
  <2>3. Counts(g, l)
    BY <2>2, Zenon
  <2> HIDE DEF Counts
  <2> QED
    BY <2>3, Zenon
<1>3. bad = {}
  <2> HIDE DEF Counts
  <2> SUFFICES ASSUME bad # {} PROVE FALSE
    OBVIOUS
  <2>1. Min(bad) \in bad /\ \A l \in bad : Min(bad) <= l
    BY LeastOfNats
  <2>2. PICK l : l = Min(bad)
    OBVIOUS
  <2>3. l \in Nat /\ l # 0 /\ ~ \E g : Counts(g, l)
    BY <1>1, <2>1, <2>2
  <2>4. l - 1 \in Nat /\ ~ (l <= l - 1)
    BY <2>3
  <2>5. l - 1 \notin bad
    BY <2>1, <2>2, <2>4
  <2>6. PICK f : Counts(f, l - 1)
    BY <2>4, <2>5
  <2> QED
    BY <1>2, <2>3, <2>6
<1>4. \E f : Counts(f, Len(R))
  <2> HIDE DEF Counts
  <2> QED
    BY <1>3
<1>5. counted(R) = CHOOSE f : Counts(f, Len(R))
  BY DEF counted
<1>6. Counts(counted(R), Len(R))
  <2> HIDE DEF Counts
  <2> QED
    BY <1>4, <1>5, Zenon
<1> QED
  BY <1>6

\* Two ranges of a canonical list are in the order of their positions.
LEMMA InOrder ==
    ASSUME NEW R \in Seq(RangeType), IsCanonical(R),
           NEW m \in 1 .. Len(R), NEW n \in 1 .. Len(R)
    PROVE  /\ R[m].start \in Int /\ R[m].end \in Int
           /\ R[n].start \in Int /\ R[n].end \in Int
           /\ R[m].start <= R[m].end /\ R[n].start <= R[n].end
           /\ m < n => R[m].end + 1 < R[n].start
           /\ m <= n => R[m].start <= R[n].start /\ R[m].end <= R[n].end
<1>1. Len(R) \in Nat
  BY LenProperties
<1>2. m \in Int /\ n \in Int
  BY <1>1
<1>3. /\ R[m].start \in Int /\ R[m].end \in Int
      /\ R[n].start \in Int /\ R[n].end \in Int
      /\ R[m].start <= R[m].end /\ R[n].start <= R[n].end
      /\ m < n => R[m].end + 1 < R[n].start
  BY CanonicalAt, Zenon
<1>4. CASE m < n
  <2>0. \A b, c \in Int : b + 1 < c =>
          \A a \in Int : (a <= b => a <= c) /\ (c <= a => b <= a)
    OBVIOUS
  <2>1. R[m].end + 1 < R[n].start => \A a \in Int :
          /\ a <= R[m].end => a <= R[n].start
          /\ R[n].start <= a => R[m].end <= a
    BY <1>3, <2>0, Zenon
  <2>2. R[m].end + 1 < R[n].start
    BY <1>3, <1>4
  <2>3. R[m].start <= R[n].start
    BY <1>3, <2>1, <2>2, Zenon
  <2>4. R[m].end <= R[n].end
    BY <1>3, <2>1, <2>2, Zenon
  <2> QED
    BY <1>3, <2>3, <2>4, Zenon
<1>5. CASE m = n
  BY <1>2, <1>3, <1>5
<1>6. CASE n < m
  <2>1. ~ (m <= n)
    BY <1>2, <1>6
  <2> QED
    BY <1>3, <2>1
<1> QED
  BY <1>2, <1>4, <1>5, <1>6

\* The first n ranges of a canonical list hold counted(R)[n] elements.
LEMMA CountedExact ==
    ASSUME NEW R \in Seq(RangeType), IsCanonical(R)
    PROVE  /\ counted(R)[0] = 0
           /\ \A n \in 1 .. Len(R) :
                counted(R)[n] = counted(R)[n - 1] + (R[n].end - R[n].start + 1)
           /\ \A n \in 0 .. Len(R) :
                /\ IsFiniteSet({e \in Int : Within(e, R, 1, n)})
                /\ Cardinality({e \in Int : Within(e, R, 1, n)}) = counted(R)[n]
                /\ counted(R)[n] \in Nat
<1> DEFINE first(n) == {e \in Int : Within(e, R, 1, n)}
           Right(n) == /\ IsFiniteSet(first(n))
                       /\ Cardinality(first(n)) = counted(R)[n]
                       /\ counted(R)[n] \in Nat
           bad == {n \in 0 .. Len(R) : ~ Right(n)}
<1>1. /\ Len(R) \in Nat
      /\ \A m \in 1 .. Len(R) : R[m].start \in Int /\ R[m].end \in Int
      /\ \A m \in 1 .. Len(R) : R[m].start <= R[m].end
      /\ \A m, n \in 1 .. Len(R) : m < n => R[m].end + 1 < R[n].start
  BY CanonicalAt
<1>2. \A n \in 0 .. Len(R) : counted(R)[n] =
        IF n = 0 THEN 0 ELSE counted(R)[n - 1] + (R[n].end - R[n].start + 1)
  BY <1>1, CountedRecursion, Zenon
<1>3. counted(R)[0] = 0
  BY <1>1, <1>2
<1>4. \A n \in 1 .. Len(R) :
        counted(R)[n] = counted(R)[n - 1] + (R[n].end - R[n].start + 1)
  <2>1. \A n \in 1 .. Len(R) : n \in 0 .. Len(R) /\ n # 0
    BY <1>1
  <2> QED
    BY <1>2, <2>1, Zenon
<1>5. Right(0)
  <2>1. first(0) = {}
    BY WithinEmpty
  <2>2. IsFiniteSet({}) /\ Cardinality({}) = 0 /\ 0 \in Nat
    BY FS_EmptySet
  <2> HIDE DEF first
  <2> QED
    BY <1>3, <2>1, <2>2, Zenon
<1>6. ASSUME NEW n \in 1 .. Len(R), Right(n - 1) PROVE Right(n)
  <2> DEFINE here == R[n].start .. R[n].end
  <2>1. /\ IsFiniteSet(here)
        /\ Cardinality(here) = R[n].end - R[n].start + 1
        /\ R[n].end - R[n].start + 1 \in Nat
    <3>1. \A a, b \in Int : a <= b =>
            /\ IsFiniteSet(a .. b) /\ Cardinality(a .. b) = b - a + 1
            /\ b - a + 1 \in Nat
      BY FS_Interval
    <3>2. R[n].start \in Int /\ R[n].end \in Int /\ R[n].start <= R[n].end
      BY <1>1
    <3> QED
      BY <3>1, <3>2, Zenon
  <2>2. first(n) = first(n - 1) \cup here
    <3>1. \A m : m \in 1 .. n <=> m \in 1 .. n - 1 \/ m = n
      BY <1>1
    <3>2. R[n].start \in Int /\ R[n].end \in Int
      BY <1>1, Zenon
    <3>3. \A e : e \in here <=> e \in Int /\ R[n].start <= e /\ e <= R[n].end
      BY <3>2
    <3>4. ASSUME NEW e \in Int
          PROVE  Within(e, R, 1, n) <=> Within(e, R, 1, n - 1) \/ e \in here
      BY <3>1, <3>3, Zenon DEF Within
    <3> HIDE DEF here
    <3> QED
      BY <3>3, <3>4
  <2>3. first(n - 1) \cap here = {}
    <3> SUFFICES ASSUME NEW e \in Int, Within(e, R, 1, n - 1), e \in here
                 PROVE  FALSE
      OBVIOUS
    <3>1. PICK m \in 1 .. n - 1 : R[m].start <= e /\ e <= R[m].end
      BY DEF Within
    <3>2. m \in 1 .. Len(R) /\ m < n
      BY <1>1
    <3>3. /\ R[m].end \in Int /\ R[n].start \in Int /\ R[n].end \in Int
          /\ R[m].end + 1 < R[n].start
      BY <3>2, InOrder, Zenon
    <3> QED
      BY <3>1, <3>3
  <2>4. /\ IsFiniteSet(first(n))
        /\ Cardinality(first(n)) =
             Cardinality(first(n - 1)) + Cardinality(here) - Cardinality({})
    <3> HIDE DEF first, here
    <3>1. IsFiniteSet(first(n - 1)) /\ IsFiniteSet(here)
      BY <1>6, <2>1, Zenon
    <3>2. /\ IsFiniteSet(first(n - 1) \cup here)
          /\ Cardinality(first(n - 1) \cup here) =
               Cardinality(first(n - 1)) + Cardinality(here)
                 - Cardinality(first(n - 1) \cap here)
      BY <3>1, FS_Union, Zenon
    <3> QED
      BY <2>2, <2>3, <3>2, Zenon
  <2> HIDE DEF first, here
  <2> QED
    BY <1>4, <1>6, <2>1, <2>4, FS_EmptySet
<1>7. bad = {}
  <2> HIDE DEF Right
  <2> SUFFICES ASSUME bad # {} PROVE FALSE
    OBVIOUS
  <2>0. bad \subseteq Nat
    BY <1>1
  <2>1. Min(bad) \in bad /\ \A l \in bad : Min(bad) <= l
    BY <2>0, LeastOfNats
  <2>2. PICK l : l = Min(bad)
    OBVIOUS
  <2>3. l \in 0 .. Len(R) /\ l # 0 /\ ~ Right(l)
    BY <1>5, <2>1, <2>2
  <2>4. l \in 1 .. Len(R) /\ l - 1 \in 0 .. Len(R) /\ ~ (l <= l - 1)
    BY <1>1, <2>3
  <2>5. l - 1 \notin bad
    BY <2>1, <2>2, <2>4
  <2>6. Right(l - 1)
    BY <2>4, <2>5
  <2> QED
    BY <1>6, <2>3, <2>4, <2>6
<1>8. \A n \in 0 .. Len(R) : Right(n)
  <2> HIDE DEF Right
  <2> QED
    BY <1>7
<1> QED
  BY <1>3, <1>4, <1>8

\* size counts the elements of a canonical list.
LEMMA SizeExact ==
    ASSUME NEW R \in Seq(RangeType), IsCanonical(R)
    PROVE  /\ IsFiniteSet(Elements(R))
           /\ size(R) = Cardinality(Elements(R))
           /\ size(R) \in Nat
<1>1. Len(R) \in 0 .. Len(R)
  <2>1. Len(R) \in Nat
    BY LenProperties
  <2> QED
    BY <2>1
<1>2. Elements(R) = {e \in Int : Within(e, R, 1, Len(R))}
  <2>1. \A e : e \in Elements(R) <=> e \in Int /\ Within(e, R, 1, Len(R))
    BY InElements
  <2> QED
    BY <2>1, Zenon
<1> QED
  BY <1>1, <1>2, CountedExact, Zenon DEF size

\* The binary search of contains finds the elements of a canonical list.
LEMMA ContainsExact ==
    ASSUME NEW R \in Seq(RangeType), IsCanonical(R), NEW el \in Int
    PROVE  contains(R, el) <=> el \in Elements(R)
<1> DEFINE reach == {k \in DOMAIN R : R[k].end >= el}
<1>1. /\ Len(R) \in Nat
      /\ \A m \in 1 .. Len(R) : R[m].start \in Int /\ R[m].end \in Int
      /\ \A m \in 1 .. Len(R) : R[m].start <= R[m].end
      /\ \A m, n \in 1 .. Len(R) : m < n => R[m].end + 1 < R[n].start
  BY CanonicalAt
<1>2. DOMAIN R = 1 .. Len(R) /\ (R # <<>> <=> Len(R) # 0)
  BY LenProperties, EmptySeq
<1>3. el \in Elements(R) <=> Within(el, R, 1, Len(R))
  BY InElements
<1>4. reach \subseteq Nat
  BY <1>1, <1>2
<1>5. ASSUME contains(R, el) PROVE Within(el, R, 1, Len(R))
  <2>1. reach # {} /\ R[Min(reach)].start <= el
    BY <1>5 DEF contains
  <2>2. Min(reach) \in reach
    BY <1>4, <2>1, LeastOfNats
  <2>3. PICK k : k = Min(reach)
    OBVIOUS
  <2>4. k \in 1 .. Len(R) /\ R[k].end >= el /\ R[k].start <= el
    BY <1>2, <2>1, <2>2, <2>3
  <2> QED
    BY <1>1, <2>4 DEF Within
<1>6. ASSUME Within(el, R, 1, Len(R)) PROVE contains(R, el)
  <2>1. PICK m \in 1 .. Len(R) : R[m].start <= el /\ el <= R[m].end
    BY <1>6 DEF Within
  <2>2. m \in reach
    BY <1>1, <1>2, <2>1
  <2>3. Min(reach) \in reach /\ \A n \in reach : Min(reach) <= n
    BY <1>4, <2>2, LeastOfNats
  <2>4. PICK k : k = Min(reach)
    OBVIOUS
  <2>5. k \in 1 .. Len(R) /\ R[k].end >= el /\ k <= m
    BY <1>2, <2>2, <2>3, <2>4
  <2>6. R[k].start <= el
    <3>1. R[k].start \in Int /\ R[m].start \in Int /\ R[k].start <= R[m].start
      BY <2>5, InOrder, Zenon
    <3> QED
      BY <2>1, <3>1
  <2>7. R # <<>> /\ Head(R) = R[1] /\ Last(R) = R[Len(R)]
        /\ 1 \in 1 .. Len(R) /\ Len(R) \in 1 .. Len(R)
    BY <1>1, <1>2, <2>1, HeadTailProperties DEF Last, Head
  <2>8. R[1].start <= el
    <3>1. 1 <= m
      BY <1>1
    <3>2. R[1].start \in Int /\ R[m].start \in Int /\ R[1].start <= R[m].start
      BY <2>7, <3>1, InOrder, Zenon
    <3> QED
      BY <2>1, <3>2
  <2>9. el <= R[Len(R)].end
    <3>1. m <= Len(R)
      BY <1>1
    <3>2. /\ R[m].end \in Int /\ R[Len(R)].end \in Int
          /\ R[m].end <= R[Len(R)].end
      BY <2>7, <3>1, InOrder, Zenon
    <3> QED
      BY <2>1, <3>2
  <2>10. reach # {} /\ R[Min(reach)].start <= el
    BY <2>2, <2>4, <2>6
  <2> HIDE DEF reach
  <2>11. Head(R).start <= el /\ el <= Last(R).end
    BY <2>7, <2>8, <2>9
  <2> USE DEF reach
  <2> QED
    BY <2>7, <2>10, <2>11, Zenon DEF contains
<1> QED
  BY <1>3, <1>5, <1>6, Zenon

\* get returns the element that n elements precede.
LEMMA GetExact ==
    ASSUME NEW R \in Seq(RangeType), IsCanonical(R),
           NEW n \in Nat, n < size(R)
    PROVE  /\ get(R, n) \in Elements(R)
           /\ Cardinality({e \in Elements(R) : e < get(R, n)}) = n
<1> DEFINE at == {k \in DOMAIN R : n < counted(R)[k]}
           first(m) == {e \in Int : Within(e, R, 1, m)}
<1>1. /\ Len(R) \in Nat
      /\ \A m \in 1 .. Len(R) : R[m].start \in Int /\ R[m].end \in Int
      /\ \A m \in 1 .. Len(R) : R[m].start <= R[m].end
      /\ \A m, l \in 1 .. Len(R) : m < l => R[m].end + 1 < R[l].start
  BY CanonicalAt
<1>2. DOMAIN R = 1 .. Len(R)
  BY LenProperties
<1>3. /\ counted(R)[0] = 0
      /\ \A m \in 1 .. Len(R) :
           counted(R)[m] = counted(R)[m - 1] + (R[m].end - R[m].start + 1)
      /\ \A m \in 0 .. Len(R) :
           /\ IsFiniteSet(first(m))
           /\ Cardinality(first(m)) = counted(R)[m]
           /\ counted(R)[m] \in Nat
  BY CountedExact
<1>4. Len(R) \in at
  <2>1. Len(R) # 0
    BY <1>3 DEF size
  <2> QED
    BY <1>1, <1>2, <2>1 DEF size
<1>5. Min(at) \in at /\ \A k \in at : Min(at) <= k
  <2>1. at \subseteq Nat
    BY <1>1, <1>2
  <2> QED
    BY <1>4, <2>1, LeastOfNats
<1>6. PICK k : k = Min(at)
  OBVIOUS
<1>7. k \in 1 .. Len(R) /\ n < counted(R)[k]
  BY <1>2, <1>5, <1>6
<1>8. counted(R)[k - 1] <= n
  <2>1. CASE k = 1
    <3>1. k - 1 = 0
      BY <2>1
    <3> QED
      BY <1>3, <3>1
  <2>2. CASE k # 1
    <3>1. k - 1 \in 1 .. Len(R) /\ k - 1 \in 0 .. Len(R) /\ ~ (k <= k - 1)
      BY <1>1, <1>7, <2>2
    <3>2. k - 1 \notin at
      BY <1>5, <1>6, <3>1
    <3>3. ~ (n < counted(R)[k - 1]) /\ counted(R)[k - 1] \in Nat
      BY <1>2, <1>3, <3>1, <3>2
    <3> QED
      BY <3>3
  <2> QED
    BY <2>1, <2>2
<1>9. PICK c : c = counted(R)[k - 1]
  OBVIOUS
<1>0. R[k].start \in Int /\ R[k].end \in Int /\ R[k].start <= R[k].end
  BY <1>7, InOrder, Zenon
<1>10. c \in Nat /\ c <= n /\ n - c < R[k].end - R[k].start + 1
  <2>1. k - 1 \in 0 .. Len(R)
    BY <1>1, <1>7
  <2>2. c \in Nat /\ c <= n
    BY <1>3, <1>8, <1>9, <2>1, Zenon
  <2>3. n < c + (R[k].end - R[k].start + 1)
    BY <1>3, <1>7, <1>9, Zenon
  <2> QED
    BY <1>0, <2>2, <2>3
<1>11. PICK g : g = R[k].start + (n - c)
  OBVIOUS
<1>12. g \in Int /\ R[k].start <= g /\ g <= R[k].end /\ g - 1 \in Int
  <2>1. \A a, b \in Int : g = a + (n - c) /\ n - c < b - a + 1 =>
          g \in Int /\ a <= g /\ g <= b /\ g - 1 \in Int
    BY <1>10
  <2> QED
    BY <1>0, <1>10, <1>11, <2>1, Zenon
<1>13. get(R, n) = g
  BY <1>4, <1>6, <1>9, <1>11, Zenon DEF get
<1>14. g \in Elements(R)
  <2>1. Within(g, R, 1, Len(R))
    BY <1>7, <1>12 DEF Within
  <2> QED
    BY <1>12, <2>1, InElements
<1> DEFINE below == {e \in Elements(R) : e < g}
           here == R[k].start .. g - 1
<1>15. below = first(k - 1) \cup here
  <2>1. ASSUME NEW e \in Int, Within(e, R, 1, Len(R)), e < g
        PROVE  Within(e, R, 1, k - 1) \/ e \in here
    <3>1. PICK m \in 1 .. Len(R) : R[m].start <= e /\ e <= R[m].end
      BY <2>1 DEF Within
    <3>2. CASE m < k
      <4>1. m \in 1 .. k - 1
        BY <1>1, <1>7, <3>2
      <4> QED
        BY <3>1, <4>1, Zenon DEF Within
    <3>3. CASE m = k
      <4>1. R[k].start <= e /\ e <= g - 1
        BY <1>12, <2>1, <3>1, <3>3
      <4> QED
        BY <1>0, <1>12, <4>1
    <3>4. CASE m > k
      <4>1. k < m
        BY <1>1, <1>7, <3>4
      <4>2. R[m].start \in Int /\ R[k].end + 1 < R[m].start
        BY <1>7, <4>1, InOrder, Zenon
      <4>3. FALSE
        BY <1>0, <1>12, <2>1, <3>1, <4>2
      <4> QED
        BY <4>3
    <3> QED
      BY <1>1, <1>7, <3>2, <3>3, <3>4
  <2>2. ASSUME NEW e \in Int, Within(e, R, 1, k - 1)
        PROVE  Within(e, R, 1, Len(R)) /\ e < g
    <3>1. PICK m \in 1 .. k - 1 : R[m].start <= e /\ e <= R[m].end
      BY <2>2 DEF Within
    <3>2. m \in 1 .. Len(R) /\ m < k
      BY <1>1, <1>7
    <3>3. R[m].end \in Int /\ R[m].end + 1 < R[k].start
      BY <1>7, <3>2, InOrder, Zenon
    <3>4. e < g
      <4>1. \A a, b \in Int : e <= a /\ a + 1 < b /\ b <= g => e < g
        BY <1>12
      <4> QED
        BY <1>0, <1>12, <3>1, <3>3, <4>1, Zenon
    <3> QED
      BY <3>1, <3>2, <3>4 DEF Within
  <2>3. ASSUME NEW e \in here
        PROVE  e \in Int /\ Within(e, R, 1, Len(R)) /\ e < g
    <3>1. e \in Int /\ R[k].start <= e /\ e <= R[k].end /\ e < g
      BY <1>0, <1>12
    <3> QED
      BY <1>7, <3>1, Zenon DEF Within
  <2>4. \A e : e \in Elements(R) <=> e \in Int /\ Within(e, R, 1, Len(R))
    BY InElements
  <2> HIDE DEF here
  <2> QED
    BY <2>1, <2>2, <2>3, <2>4
<1>16. first(k - 1) \cap here = {}
  <2> SUFFICES ASSUME NEW e \in Int, Within(e, R, 1, k - 1), e \in here
               PROVE  FALSE
    OBVIOUS
  <2>1. PICK m \in 1 .. k - 1 : R[m].start <= e /\ e <= R[m].end
    BY DEF Within
  <2>2. m \in 1 .. Len(R) /\ m < k
    BY <1>1, <1>7
  <2>3. R[m].end \in Int /\ R[m].end + 1 < R[k].start
    BY <1>7, <2>2, InOrder, Zenon
  <2>4. \A a, b \in Int : a + 1 < b => ~ (e <= a /\ e \in b .. g - 1)
    BY <1>12
  <2> QED
    BY <1>0, <2>1, <2>3, <2>4, Zenon
<1>17. IsFiniteSet(here) /\ Cardinality(here) = n - c
  <2>1. \A a \in Int : g = a + (n - c) =>
          (IF a > g - 1 THEN 0 ELSE (g - 1) - a + 1) = n - c
    BY <1>10
  <2>2. \A a, b \in Int : /\ IsFiniteSet(a .. b)
                          /\ Cardinality(a .. b) = IF a > b THEN 0 ELSE b - a + 1
    BY FS_Interval, Zenon
  <2>3. \A a \in Int : g = a + (n - c) =>
          IsFiniteSet(a .. g - 1) /\ Cardinality(a .. g - 1) = n - c
    BY <1>12, <2>1, <2>2
  <2> QED
    BY <1>0, <1>11, <2>3, Zenon
<1>18. IsFiniteSet(first(k - 1)) /\ Cardinality(first(k - 1)) = c
  <2>1. k - 1 \in 0 .. Len(R)
    BY <1>1, <1>7
  <2> HIDE DEF first
  <2> QED
    BY <1>3, <1>9, <2>1
<1>19. Cardinality(below) = c + (n - c) - 0
  <2> HIDE DEF below, first, here
  <2> QED
    BY <1>15, <1>16, <1>17, <1>18, FS_Union, FS_EmptySet
<1>20. Cardinality(below) = n
  <2> HIDE DEF below
  <2> QED
    BY <1>10, <1>19
<1> QED
  BY <1>13, <1>14, <1>20

\* The first and the last range bound the elements of a canonical list.
LEMMA EndsExact ==
    ASSUME NEW R \in Seq(RangeType), IsCanonical(R), Elements(R) # {}
    PROVE  /\ getMinElement(R) = Min(Elements(R))
           /\ getMaxElement(R) = Max(Elements(R))
<1>1. /\ Len(R) \in Nat
      /\ \A m \in 1 .. Len(R) : R[m].start \in Int /\ R[m].end \in Int
      /\ \A m \in 1 .. Len(R) : R[m].start <= R[m].end
      /\ \A m, n \in 1 .. Len(R) : m < n => R[m].end + 1 < R[n].start
  BY CanonicalAt
<1>2. \A e : e \in Elements(R) <=> e \in Int /\ Within(e, R, 1, Len(R))
  BY InElements
<1>3. R # <<>>
  BY EmptyList
<1>4. Len(R) # 0
  BY <1>3, LenProperties, EmptySeq
<1>5. 1 \in 1 .. Len(R) /\ Len(R) \in 1 .. Len(R)
  BY <1>1, <1>4
<1>6. getMinElement(R) = R[1].start /\ getMaxElement(R) = R[Len(R)].end
  BY <1>3 DEF getMinElement, getMaxElement, Head, Last
<1>7. /\ R[1].start \in Elements(R)
      /\ R[Len(R)].end \in Elements(R)
  <2>1. Within(R[1].start, R, 1, Len(R)) /\ Within(R[Len(R)].end, R, 1, Len(R))
    <3>1. /\ R[1].start \in Int /\ R[Len(R)].end \in Int
          /\ R[1].start <= R[1].end /\ R[1].start <= R[1].start
          /\ R[Len(R)].start <= R[Len(R)].end
          /\ R[Len(R)].end <= R[Len(R)].end
      BY <1>5, InOrder
    <3> QED
      BY <1>5, <3>1, Zenon DEF Within
  <2>2. R[1].start \in Int /\ R[Len(R)].end \in Int
    BY <1>1, <1>5, Zenon
  <2> QED
    BY <1>2, <2>1, <2>2, Zenon
<1>8. ASSUME NEW e \in Elements(R)
      PROVE  e \in Int /\ R[1].start <= e /\ e <= R[Len(R)].end
  <2>1. e \in Int
    BY <1>2
  <2>2. PICK m \in 1 .. Len(R) : R[m].start <= e /\ e <= R[m].end
    BY <1>2 DEF Within
  <2>3. 1 <= m /\ m <= Len(R)
    BY <1>1
  <2>4. /\ R[1].start \in Int /\ R[m].start \in Int
        /\ R[1].start <= R[m].start
    BY <1>5, <2>3, InOrder, Zenon
  <2>5. /\ R[m].end \in Int /\ R[Len(R)].end \in Int
        /\ R[m].end <= R[Len(R)].end
    BY <1>5, <2>3, InOrder, Zenon
  <2> QED
    BY <2>1, <2>2, <2>4, <2>5
<1>9. ASSUME NEW S, NEW x \in S, S \subseteq Int, \A y \in S : x <= y
      PROVE  Min(S) = x
  <2>1. Min(S) \in S /\ \A y \in S : Min(S) <= y
    BY <1>9, Zenon DEF Min
  <2>2. Min(S) \in Int /\ x \in Int /\ Min(S) <= x /\ x <= Min(S)
    BY <1>9, <2>1
  <2> QED
    BY <2>2
<1>10. ASSUME NEW S, NEW x \in S, S \subseteq Int, \A y \in S : x >= y
       PROVE  Max(S) = x
  <2>1. Max(S) \in S /\ \A y \in S : Max(S) >= y
    BY <1>10, Zenon DEF Max
  <2>2. Max(S) \in Int /\ x \in Int /\ Max(S) >= x /\ x >= Max(S)
    BY <1>10, <2>1
  <2> QED
    BY <2>2
<1>11. Elements(R) \subseteq Int
  BY <1>8
<1>12. Min(Elements(R)) = R[1].start
  BY <1>7, <1>8, <1>9, <1>11
<1>13. Max(Elements(R)) = R[Len(R)].end
  <2>1. \A e \in Elements(R) : R[Len(R)].end >= e
    BY <1>1, <1>5, <1>8
  <2> QED
    BY <1>7, <1>10, <1>11, <2>1
<1> QED
  BY <1>6, <1>12, <1>13

\* getSingleElement returns the element of a list that has one only.
LEMMA SingleExact ==
    ASSUME NEW R \in Seq(RangeType), getSingleElement(R) # -1
    PROVE  Elements(R) = {getSingleElement(R)}
<1>1. /\ Len(R) = 1 /\ R[1].start = R[1].end
      /\ getSingleElement(R) = R[1].start
  BY DEF getSingleElement
<1>2. R[1].start \in Int
  <2>1. 1 \in Nat \ {0} /\ 1 <= Len(R)
    BY <1>1
  <2> QED
    BY <2>1, InList, Zenon
<1>3. \A e : e \in Elements(R) <=> e \in Int /\ Within(e, R, 1, 1)
  BY <1>1, InElements
<1>4. \A e \in Int : Within(e, R, 1, 1) <=> e = R[1].start
  <2>1. \A m \in 1 .. 1 : m = 1
    OBVIOUS
  <2>2. 1 \in 1 .. 1
    OBVIOUS
  <2> QED
    BY <1>1, <1>2, <2>1, <2>2 DEF Within
<1> QED
  BY <1>1, <1>2, <1>3, <1>4

-----------------------------------------------------------------------------
\* What an operation under way has done and has yet to do, element by element.

\* The operands of And and subtract are sets of two objects.
Operands == pc \in {"and", "subtract"} =>
    \E p, q \in Objects : this = _ranges[p] /\ other = _ranges[q]

\* addAll: what is built and what is left make up two objects' sets.
AddsUp == pc = "addAll" =>
    \E p, q \in Objects : \A e \in Int :
      e \in Elements(result) \/ Within(e, other, j, Len(other)) <=>
        e \in Elements(_ranges[p]) \/ e \in Elements(_ranges[q])

\* And: what is built and what both have left make up the intersection.
Intersects == pc = "and" => \A e \in Int :
    e \in Elements(this) /\ e \in Elements(other) <=>
      \/ e \in Elements(result)
      \/ /\ Within(e, this, i, Len(this))
         /\ Within(e, other, j, Len(other))

\* subtract: see DifferenceInLoop.
Differs == pc = "subtract" =>
    /\ i <= Len(result) + 1 /\ j <= Len(other) + 1
    /\ \A e \in Int : e \in Elements(result) => e \in Elements(this)
    /\ (\A e \in Elements(this) : e >= 0) => \A e \in Int :
         e \in Elements(this) /\ e \notin Elements(other) => e \in Elements(result)
    /\ \A e \in Int : ~ (Within(e, result, 1, i - 1) /\ e \in Elements(other))
    /\ \A e \in Int : ~ (e \in Elements(result) /\ Within(e, other, 1, j - 1))

IInv == TypeOK /\ Canonical /\ Operands /\ AddsUp /\ Intersects /\ Differs

\* An object that is assigned a canonical list; no operation is left under way.
LEMMA AssignKeeps ==
    ASSUME IInv, NEW o \in Objects, NEW R \in Seq(RangeType), IsCanonical(R),
           Assign(o, R)
    PROVE  IInv'
<1>1. TypeOK'
  <2>1. dest' \in Objects
    BY ObjectsAssumption DEF Assign
  <2> QED
    BY <2>1, EmptyList DEF IInv, TypeOK, Assign
<1>2. Canonical'
  BY EmptyList DEF IInv, TypeOK, Canonical, Assign
<1> QED
  BY <1>1, <1>2 DEF IInv, Operands, AddsUp, Intersects, Differs, Assign

-----------------------------------------------------------------------------
\* One iteration of addAll.
LEMMA AddNextKeeps == IInv /\ AddNext => IInv'
<1> SUFFICES ASSUME IInv, AddNext PROVE IInv'
  OBVIOUS
<1>1. /\ pc = "addAll" /\ j \in Nat \ {0} /\ j <= Len(other)
      /\ result \in Seq(RangeType) /\ other \in Seq(RangeType)
      /\ IsCanonical(result)
      /\ result' = Added(result, other[j]) /\ j' = j + 1
      /\ _ranges' = _ranges /\ pc' = pc /\ dest' = dest /\ this' = this
      /\ other' = other /\ i' = i
  BY DEF IInv, TypeOK, Canonical, AddNext
<1>2. j \in 1 .. Len(other) /\ other[j] \in RangeType
  BY <1>1, InList
<1>3. /\ result' \in Seq(RangeType)
      /\ IsCanonical(result')
      /\ \A e \in Int : e \in Elements(result') <=>
           \/ e \in Elements(result)
           \/ other[j].start <= e /\ e <= other[j].end
  BY <1>1, <1>2, AddedCorrect
<1>4. TypeOK'
  BY <1>1, <1>3 DEF IInv, TypeOK
<1>5. Canonical'
  BY <1>1, <1>3 DEF IInv, Canonical
<1>6. AddsUp'
  <2>1. PICK p \in Objects, q \in Objects : \A e \in Int :
          e \in Elements(result) \/ Within(e, other, j, Len(other)) <=>
            e \in Elements(_ranges[p]) \/ e \in Elements(_ranges[q])
    BY <1>1 DEF IInv, AddsUp
  <2>2. Len(other) \in Int /\ j \in Int
    BY <1>1, LenProperties
  <2>3. \A e \in Int : Within(e, other, j, Len(other)) <=>
          \/ other[j].start <= e /\ e <= other[j].end
          \/ Within(e, other, j + 1, Len(other))
    BY <1>1, <2>2, WithinSplit
  <2>4. \A e \in Int :
          e \in Elements(result') \/ Within(e, other, j + 1, Len(other)) <=>
            e \in Elements(_ranges[p]) \/ e \in Elements(_ranges[q])
    BY <1>3, <2>1, <2>3
  <2>5. \A e \in Int :
          e \in Elements(result') \/ Within(e, other', j', Len(other')) <=>
            e \in Elements(_ranges'[p]) \/ e \in Elements(_ranges'[q])
    BY <1>1, <2>4
  <2> QED
    BY <2>5 DEF AddsUp
<1> QED
  BY <1>1, <1>4, <1>5, <1>6 DEF IInv, Operands, Intersects, Differs

\* An operation is entered.
LEMMA AddAllKeeps ==
    ASSUME IInv, NEW o \in Objects, NEW left, left \in Seq(RangeType),
           IsCanonical(left), NEW right, right \in Seq(RangeType),
           \E p, q \in Objects : \A e \in Int :
             e \in Elements(left) \/ e \in Elements(right) <=>
               e \in Elements(_ranges[p]) \/ e \in Elements(_ranges[q]),
           Start("addAll", o, <<>>, right, left)
    PROVE  IInv'
<1>1. TypeOK'
  BY EmptyList DEF IInv, TypeOK, Start
<1>2. Canonical'
  BY DEF IInv, Canonical, Start
<1>3. AddsUp'
  <2>1. \A e \in Int : e \in Elements(right) <=> Within(e, right, 1, Len(right))
    BY InElements
  <2>2. /\ result' = left /\ other' = right /\ j' = 1
        /\ _ranges' = _ranges
    BY DEF Start
  <2>3. PICK p \in Objects, q \in Objects : \A e \in Int :
             e \in Elements(left) \/ e \in Elements(right) <=>
               e \in Elements(_ranges[p]) \/ e \in Elements(_ranges[q])
    OBVIOUS
  <2>4. \A e \in Int :
          e \in Elements(result') \/ Within(e, other', j', Len(other')) <=>
            e \in Elements(_ranges'[p]) \/ e \in Elements(_ranges'[q])
    BY <2>1, <2>2, <2>3
  <2> QED
    BY <2>4 DEF AddsUp
<1> QED
  BY <1>1, <1>2, <1>3 DEF IInv, Operands, Intersects, Differs, Start

\* And is entered with its operands, and nothing found yet.
LEMMA AndKeeps ==
    ASSUME IInv, NEW o \in Objects, NEW p \in Objects, NEW q \in Objects,
           And(o, p, q)
    PROVE  IInv'
<1>1. _ranges[p] \in Seq(RangeType) /\ _ranges[q] \in Seq(RangeType)
  BY DEF IInv, TypeOK
<1>2. TypeOK'
  BY <1>1, EmptyList DEF IInv, TypeOK, And, Start
<1>3. Canonical'
  BY EmptyList DEF IInv, Canonical, And, Start
<1>4. Operands'
  BY DEF Operands, And, Start
<1>5. Intersects'
  <2>1. /\ result' = <<>> /\ this' = _ranges[p] /\ other' = _ranges[q]
        /\ i' = 1 /\ j' = 1
    BY DEF And, Start
  <2>2. \A e \in Int :
          /\ e \in Elements(_ranges[p]) <=>
               Within(e, _ranges[p], 1, Len(_ranges[p]))
          /\ e \in Elements(_ranges[q]) <=>
               Within(e, _ranges[q], 1, Len(_ranges[q]))
          /\ e \notin Elements(<<>>)
    BY <1>1, InElements, EmptyList
  <2> QED
    BY <2>1, <2>2 DEF Intersects
<1> QED
  BY <1>2, <1>3, <1>4, <1>5 DEF IInv, AddsUp, Differs, And, Start

\* subtract is entered with a copy of its left operand as result, or returns it.
LEMMA SubtractKeeps ==
    ASSUME IInv, NEW o \in Objects, NEW p \in Objects, NEW q \in Objects,
           Start("subtract", o, _ranges[p], _ranges[q], _ranges[p])
    PROVE  IInv'
<1>1. /\ _ranges[p] \in Seq(RangeType) /\ _ranges[q] \in Seq(RangeType)
      /\ IsCanonical(_ranges[p])
  BY DEF IInv, TypeOK, Canonical
<1>2. TypeOK'
  BY <1>1 DEF IInv, TypeOK, Start
<1>3. Canonical'
  BY <1>1 DEF IInv, Canonical, Start
<1>4. Operands'
  BY DEF Operands, Start
<1>5. Differs'
  <2>1. /\ result' = _ranges[p] /\ this' = _ranges[p] /\ other' = _ranges[q]
        /\ i' = 1 /\ j' = 1
    BY DEF Start
  <2>2. \A e, R : ~ Within(e, R, 1, 1 - 1)
    BY WithinEmpty
  <2>3. 1 <= Len(_ranges[p]) + 1 /\ 1 <= Len(_ranges[q]) + 1
    BY <1>1, LenProperties
  <2> QED
    BY <2>1, <2>2, <2>3 DEF Differs
<1> QED
  BY <1>2, <1>3, <1>4, <1>5 DEF IInv, AddsUp, Intersects, Start

-----------------------------------------------------------------------------
\* What the two ranges at the indices of And are.
LEMMA AndRanges ==
    ASSUME IInv, pc = "and", BothLeft
    PROVE  /\ i \in 1 .. Len(this) /\ mine \in RangeType
           /\ mine.start \in Int /\ mine.end \in Int /\ mine.start <= mine.end
           /\ j \in 1 .. Len(other) /\ theirs \in RangeType
           /\ theirs.start \in Int /\ theirs.end \in Int
           /\ theirs.start <= theirs.end
           /\ \A m \in i + 1 .. Len(this) : /\ mine.end + 1 < this[m].start
                                            /\ this[m].start \in Int
           /\ \A m \in j + 1 .. Len(other) : /\ theirs.end + 1 < other[m].start
                                             /\ other[m].start \in Int
<1>1. /\ this \in Seq(RangeType) /\ i \in Nat \ {0} /\ i <= Len(this)
      /\ other \in Seq(RangeType) /\ j \in Nat \ {0} /\ j <= Len(other)
  BY DEF IInv, TypeOK, BothLeft
<1>2. IsCanonical(this) /\ IsCanonical(other)
  BY DEF IInv, Operands, Canonical
<1>3. /\ i \in 1 .. Len(this) /\ mine \in RangeType
      /\ mine.start \in Int /\ mine.end \in Int
      /\ j \in 1 .. Len(other) /\ theirs \in RangeType
      /\ theirs.start \in Int /\ theirs.end \in Int
  BY <1>1, InList DEF mine, theirs
<1>4. mine.start <= mine.end /\ theirs.start <= theirs.end
  BY <1>1, <1>2, <1>3, CanonicalAt DEF mine, theirs
<1>5. Len(this) \in Nat /\ Len(other) \in Nat
  BY <1>1, LenProperties
<1>6. \A m \in i + 1 .. Len(this) :
        mine.end + 1 < this[m].start /\ this[m].start \in Int
  <2>1. \A m \in i + 1 .. Len(this) : m \in 1 .. Len(this) /\ i < m
    BY <1>3, <1>5
  <2> QED
    BY <1>1, <1>2, <1>3, <2>1, CanonicalAt DEF mine
<1>7. \A m \in j + 1 .. Len(other) :
        theirs.end + 1 < other[m].start /\ other[m].start \in Int
  <2>1. \A m \in j + 1 .. Len(other) : m \in 1 .. Len(other) /\ j < m
    BY <1>3, <1>5
  <2> QED
    BY <1>1, <1>2, <1>3, <2>1, CanonicalAt DEF theirs
<1> QED
  BY <1>3, <1>4, <1>6, <1>7

\* What the two have left, before and after an index moves on.
LEMMA AndLeft ==
    ASSUME IInv, pc = "and", BothLeft, NEW e \in Int
    PROVE  /\ Within(e, this, i, Len(this)) <=>
                \/ mine.start <= e /\ e <= mine.end
                \/ Within(e, this, i + 1, Len(this))
           /\ Within(e, other, j, Len(other)) <=>
                \/ theirs.start <= e /\ e <= theirs.end
                \/ Within(e, other, j + 1, Len(other))
           /\ Within(e, this, i + 1, Len(this)) => mine.end < e
           /\ Within(e, other, j + 1, Len(other)) => theirs.end < e
<1>1. /\ Len(this) \in Nat /\ Len(other) \in Nat
      /\ i \in Nat \ {0} /\ i <= Len(this) /\ j \in Nat \ {0} /\ j <= Len(other)
  BY LenProperties DEF IInv, TypeOK, BothLeft
<1>2. /\ Within(e, this, i, Len(this)) <=>
           \/ mine.start <= e /\ e <= mine.end
           \/ Within(e, this, i + 1, Len(this))
      /\ Within(e, other, j, Len(other)) <=>
           \/ theirs.start <= e /\ e <= theirs.end
           \/ Within(e, other, j + 1, Len(other))
  <2>1. /\ i \in Int /\ j \in Int /\ Len(this) \in Int /\ Len(other) \in Int
    BY <1>1
  <2> QED
    BY <1>1, <2>1, WithinSplit, Zenon DEF mine, theirs
<1>3. ASSUME Within(e, this, i + 1, Len(this)) PROVE mine.end < e
  <2>1. PICK m \in i + 1 .. Len(this) : this[m].start <= e
    BY <1>3 DEF Within
  <2>2. mine.end + 1 < this[m].start /\ this[m].start \in Int
        /\ mine.end \in Int
    BY AndRanges
  <2> QED
    BY <2>1, <2>2
<1>4. ASSUME Within(e, other, j + 1, Len(other)) PROVE theirs.end < e
  <2>1. PICK m \in j + 1 .. Len(other) : other[m].start <= e
    BY <1>4 DEF Within
  <2>2. theirs.end + 1 < other[m].start /\ other[m].start \in Int
        /\ theirs.end \in Int
    BY AndRanges
  <2> QED
    BY <2>1, <2>2
<1> QED
  BY <1>2, <1>3, <1>4

\* And leaves a range that ends before the other begins: it meets no later one.
LEMMA AndSkipKeeps == IInv /\ AndSkip => IInv'
<1> SUFFICES ASSUME IInv, AndSkip PROVE IInv'
  OBVIOUS
<1>1. /\ pc = "and" /\ BothLeft
      /\ _ranges' = _ranges /\ pc' = pc /\ dest' = dest /\ this' = this
      /\ other' = other /\ result' = result
  BY DEF AndSkip
<1>2. i \in Nat \ {0} /\ j \in Nat \ {0}
  BY DEF IInv, TypeOK
<1>3. \/ startsBeforeDisjoint(mine, theirs) /\ i' = i + 1 /\ j' = j
      \/ startsBeforeDisjoint(theirs, mine) /\ i' = i /\ j' = j + 1
  BY DEF AndSkip
<1>4. TypeOK'
  BY <1>1, <1>2, <1>3 DEF IInv, TypeOK
<1>5. \A e \in Int :
        e \in Elements(this) /\ e \in Elements(other) <=>
          \/ e \in Elements(result)
          \/ /\ Within(e, this, i, Len(this))
             /\ Within(e, other, j, Len(other))
  BY <1>1 DEF IInv, Intersects
<1>6. /\ mine.start \in Int /\ mine.end \in Int
      /\ theirs.start \in Int /\ theirs.end \in Int
      /\ mine.start <= mine.end /\ theirs.start <= theirs.end
  BY <1>1, AndRanges
<1>7. ASSUME NEW e \in Int
      PROVE  Within(e, this, i', Len(this)) /\ Within(e, other, j', Len(other))
               <=> Within(e, this, i, Len(this)) /\ Within(e, other, j, Len(other))
  <2>1. CASE startsBeforeDisjoint(mine, theirs) /\ i' = i + 1 /\ j' = j
    <3>1. mine.end < theirs.start
      BY <2>1 DEF startsBeforeDisjoint
    <3> QED
      BY <1>1, <1>6, <2>1, <3>1, AndLeft
  <2>2. CASE startsBeforeDisjoint(theirs, mine) /\ i' = i /\ j' = j + 1
    <3>1. theirs.end < mine.start
      BY <2>2 DEF startsBeforeDisjoint
    <3> QED
      BY <1>1, <1>6, <2>2, <3>1, AndLeft
  <2> QED
    BY <1>3, <2>1, <2>2
<1>8. Intersects'
  BY <1>1, <1>5, <1>7 DEF Intersects
<1> QED
  BY <1>1, <1>4, <1>8 DEF IInv, Canonical, Operands, AddsUp, Differs

\* And adds an overlap and leaves the range that ends first.
LEMMA AndOverlapKeeps == IInv /\ AndOverlap => IInv'
<1> SUFFICES ASSUME IInv, AndOverlap PROVE IInv'
  OBVIOUS
<1>1. /\ pc = "and" /\ BothLeft
      /\ _ranges' = _ranges /\ pc' = pc /\ dest' = dest /\ this' = this
      /\ other' = other /\ result' = Added(result, overlap(mine, theirs))
      /\ i' = IF PassMine THEN i + 1 ELSE i
      /\ j' = IF PassTheirs THEN j + 1 ELSE j
  BY DEF AndOverlap
<1>2. /\ i \in Nat \ {0} /\ j \in Nat \ {0}
      /\ result \in Seq(RangeType) /\ IsCanonical(result)
  BY DEF IInv, TypeOK, Canonical
<1>3. /\ mine.start \in Int /\ mine.end \in Int
      /\ theirs.start \in Int /\ theirs.end \in Int
      /\ mine.start <= mine.end /\ theirs.start <= theirs.end
  BY <1>1, AndRanges
<1>4. PICK x : x = overlap(mine, theirs)
  OBVIOUS
<1>5. /\ x \in RangeType
      /\ \A e \in Int : x.start <= e /\ e <= x.end <=>
           /\ mine.start <= e /\ e <= mine.end
           /\ theirs.start <= e /\ e <= theirs.end
  <2>1. /\ x \in RangeType
        /\ x.start = Greater(mine.start, theirs.start)
        /\ x.end = Lesser(mine.end, theirs.end)
    BY <1>3, <1>4 DEF overlap, RangeOf, RangeType, Greater, Lesser
  <2> QED
    BY <1>3, <2>1 DEF Greater, Lesser
<1>6. /\ result' \in Seq(RangeType) /\ IsCanonical(result')
      /\ \A e \in Int : e \in Elements(result') <=>
           e \in Elements(result) \/ (x.start <= e /\ e <= x.end)
  BY <1>1, <1>2, <1>4, <1>5, AddedCorrect
<1>7. i' \in Nat \ {0} /\ j' \in Nat \ {0}
  BY <1>1, <1>2
<1>8. TypeOK'
  BY <1>1, <1>6, <1>7 DEF IInv, TypeOK
<1>9. Canonical'
  BY <1>1, <1>6 DEF IInv, Canonical
<1>10. /\ PassTheirs => theirs.end <= mine.end
       /\ PassMine => mine.end <= theirs.end
  BY <1>3 DEF PassTheirs, PassMine, properlyContains, startsAfterNonDisjoint
<1>11. \A e \in Int :
         e \in Elements(this) /\ e \in Elements(other) <=>
           \/ e \in Elements(result)
           \/ /\ Within(e, this, i, Len(this))
              /\ Within(e, other, j, Len(other))
  BY <1>1 DEF IInv, Intersects
<1>12. ASSUME NEW e \in Int
       PROVE  (x.start <= e /\ e <= x.end)
                \/ (/\ Within(e, this, i', Len(this))
                    /\ Within(e, other, j', Len(other)))
              <=> (x.start <= e /\ e <= x.end)
                    \/ (/\ Within(e, this, i, Len(this))
                        /\ Within(e, other, j, Len(other)))
  <2>1. x.start <= e /\ e <= x.end <=>
           /\ mine.start <= e /\ e <= mine.end
           /\ theirs.start <= e /\ e <= theirs.end
    BY <1>5
  <2>2. CASE PassMine /\ ~ PassTheirs
    <3>1. i' = i + 1 /\ j' = j /\ mine.end <= theirs.end
      BY <1>1, <1>10, <2>2
    <3> QED
      BY <1>1, <1>3, <2>1, <3>1, AndLeft
  <2>3. CASE PassTheirs /\ ~ PassMine
    <3>1. i' = i /\ j' = j + 1 /\ theirs.end <= mine.end
      BY <1>1, <1>10, <2>3
    <3> QED
      BY <1>1, <1>3, <2>1, <3>1, AndLeft
  <2>4. CASE ~ PassTheirs /\ ~ PassMine
    <3>1. i' = i /\ j' = j
      BY <1>1, <2>4
    <3> QED
      BY <3>1
  <2>5. ~ (PassTheirs /\ PassMine)
    BY DEF PassMine
  <2> QED
    BY <2>2, <2>3, <2>4, <2>5
<1>13. Intersects'
  <2>1. ASSUME NEW e \in Int
        PROVE  e \in Elements(this) /\ e \in Elements(other) <=>
                 \/ e \in Elements(result')
                 \/ /\ Within(e, this, i', Len(this))
                    /\ Within(e, other, j', Len(other))
    <3>1. e \in Elements(result') <=>
            e \in Elements(result) \/ (x.start <= e /\ e <= x.end)
      BY <1>6
    <3>2. e \in Elements(this) /\ e \in Elements(other) <=>
            \/ e \in Elements(result)
            \/ /\ Within(e, this, i, Len(this))
               /\ Within(e, other, j, Len(other))
      BY <1>11
    <3>3. x.start <= e /\ e <= x.end =>
            Within(e, this, i, Len(this)) /\ Within(e, other, j, Len(other))
      BY <1>1, <1>5, AndLeft
    <3> QED
      BY <3>1, <3>2, <3>3, <1>12
  <2> QED
    BY <1>1, <2>1 DEF Intersects
<1> QED
  BY <1>1, <1>8, <1>9, <1>13 DEF IInv, Operands, AddsUp, Differs

-----------------------------------------------------------------------------
\* What the two intervals at the indices of subtract are.
LEMMA SubtractRanges ==
    ASSUME IInv, pc = "subtract", BothRemain
    PROVE  /\ result \in Seq(RangeType) /\ IsCanonical(result)
           /\ Len(result) \in Nat /\ Len(other) \in Nat
           /\ i \in 1 .. Len(result) /\ i \in Int /\ resultInterval \in RangeType
           /\ resultInterval.start \in Int /\ resultInterval.end \in Int
           /\ resultInterval.start <= resultInterval.end
           /\ j \in 1 .. Len(other) /\ j \in Int
           /\ rightInterval.start \in Int /\ rightInterval.end \in Int
           /\ rightInterval.start <= rightInterval.end
           /\ \A m \in 1 .. i - 1 : /\ result[m].end + 1 < resultInterval.start
                                    /\ result[m].end \in Int
           /\ \A m \in i + 1 .. Len(result) :
                /\ resultInterval.end + 1 < result[m].start
                /\ result[m].start \in Int
           /\ \A m \in j + 1 .. Len(other) :
                /\ rightInterval.end + 1 < other[m].start
                /\ other[m].start \in Int
<1>1. /\ result \in Seq(RangeType) /\ i \in Nat \ {0} /\ i <= Len(result)
      /\ other \in Seq(RangeType) /\ j \in Nat \ {0} /\ j <= Len(other)
  BY DEF IInv, TypeOK, BothRemain
<1>2. IsCanonical(result) /\ IsCanonical(other)
  BY DEF IInv, Operands, Canonical
<1>3. Len(result) \in Nat /\ Len(other) \in Nat
  BY <1>1, LenProperties
<1>4. /\ i \in 1 .. Len(result) /\ resultInterval \in RangeType
      /\ resultInterval.start \in Int /\ resultInterval.end \in Int
      /\ j \in 1 .. Len(other)
      /\ rightInterval.start \in Int /\ rightInterval.end \in Int
  BY <1>1, InList DEF resultInterval, rightInterval
<1>5. /\ resultInterval.start <= resultInterval.end
      /\ rightInterval.start <= rightInterval.end
  BY <1>1, <1>2, <1>4, CanonicalAt DEF resultInterval, rightInterval
<1>6. \A m \in 1 .. i - 1 :
        result[m].end + 1 < resultInterval.start /\ result[m].end \in Int
  <2>1. \A m \in 1 .. i - 1 : m \in 1 .. Len(result) /\ m < i
    BY <1>3, <1>4
  <2> QED
    BY <1>1, <1>2, <1>4, <2>1, CanonicalAt DEF resultInterval
<1>7. \A m \in i + 1 .. Len(result) :
        resultInterval.end + 1 < result[m].start /\ result[m].start \in Int
  <2>1. \A m \in i + 1 .. Len(result) : m \in 1 .. Len(result) /\ i < m
    BY <1>3, <1>4
  <2> QED
    BY <1>1, <1>2, <1>4, <2>1, CanonicalAt DEF resultInterval
<1>8. \A m \in j + 1 .. Len(other) :
        rightInterval.end + 1 < other[m].start /\ other[m].start \in Int
  <2>1. \A m \in j + 1 .. Len(other) : m \in 1 .. Len(other) /\ j < m
    BY <1>3, <1>4
  <2> QED
    BY <1>1, <1>2, <1>4, <2>1, CanonicalAt DEF rightInterval
<1> QED
  BY <1>1, <1>2, <1>3, <1>4, <1>5, <1>6, <1>7, <1>8

\* Where the elements of the two lists are, relative to the indices.
LEMMA SubtractSides ==
    ASSUME IInv, pc = "subtract", BothRemain, NEW e \in Int
    PROVE  /\ e \in Elements(result) <=>
                \/ Within(e, result, 1, i - 1)
                \/ resultInterval.start <= e /\ e <= resultInterval.end
                \/ Within(e, result, i + 1, Len(result))
           /\ e \in Elements(other) <=>
                \/ Within(e, other, 1, j - 1)
                \/ rightInterval.start <= e /\ e <= rightInterval.end
                \/ Within(e, other, j + 1, Len(other))
           /\ Within(e, result, 1, i - 1) => e < resultInterval.start
           /\ Within(e, result, i + 1, Len(result)) => resultInterval.end < e
           /\ Within(e, other, j + 1, Len(other)) => rightInterval.end < e
           /\ Within(e, result, 1, (i + 1) - 1) <=>
                \/ Within(e, result, 1, i - 1)
                \/ resultInterval.start <= e /\ e <= resultInterval.end
           /\ Within(e, other, 1, (j + 1) - 1) <=>
                \/ Within(e, other, 1, j - 1)
                \/ rightInterval.start <= e /\ e <= rightInterval.end
<1>1. /\ result \in Seq(RangeType) /\ other \in Seq(RangeType)
      /\ Len(result) \in Nat /\ Len(other) \in Nat
      /\ i \in Int /\ i \in 1 .. Len(result)
      /\ j \in Int /\ j \in 1 .. Len(other)
  BY SubtractRanges DEF IInv, TypeOK
<1>2. /\ \A m \in Int : m \in 1 .. Len(result) <=>
           m \in 1 .. i - 1 \/ m = i \/ m \in i + 1 .. Len(result)
      /\ \A m \in Int : m \in 1 .. Len(other) <=>
           m \in 1 .. j - 1 \/ m = j \/ m \in j + 1 .. Len(other)
      /\ \A m \in Int : m \in 1 .. (i + 1) - 1 <=> m \in 1 .. i - 1 \/ m = i
      /\ \A m \in Int : m \in 1 .. (j + 1) - 1 <=> m \in 1 .. j - 1 \/ m = j
  BY <1>1
<1>3. /\ e \in Elements(result) <=> Within(e, result, 1, Len(result))
      /\ e \in Elements(other) <=> Within(e, other, 1, Len(other))
  BY <1>1, InElements
<1>4. /\ Within(e, result, 1, Len(result)) <=>
           \/ Within(e, result, 1, i - 1)
           \/ resultInterval.start <= e /\ e <= resultInterval.end
           \/ Within(e, result, i + 1, Len(result))
      /\ Within(e, result, 1, (i + 1) - 1) <=>
           \/ Within(e, result, 1, i - 1)
           \/ resultInterval.start <= e /\ e <= resultInterval.end
  BY <1>1, <1>2 DEF Within, resultInterval
<1>5. /\ Within(e, other, 1, Len(other)) <=>
           \/ Within(e, other, 1, j - 1)
           \/ rightInterval.start <= e /\ e <= rightInterval.end
           \/ Within(e, other, j + 1, Len(other))
      /\ Within(e, other, 1, (j + 1) - 1) <=>
           \/ Within(e, other, 1, j - 1)
           \/ rightInterval.start <= e /\ e <= rightInterval.end
  BY <1>1, <1>2 DEF Within, rightInterval
<1>6. ASSUME Within(e, result, 1, i - 1) PROVE e < resultInterval.start
  <2>1. PICK m \in 1 .. i - 1 : e <= result[m].end
    BY <1>6 DEF Within
  <2>2. result[m].end + 1 < resultInterval.start /\ result[m].end \in Int
        /\ resultInterval.start \in Int
    BY SubtractRanges
  <2> QED
    BY <2>1, <2>2
<1>7. ASSUME Within(e, result, i + 1, Len(result)) PROVE resultInterval.end < e
  <2>1. PICK m \in i + 1 .. Len(result) : result[m].start <= e
    BY <1>7 DEF Within
  <2>2. resultInterval.end + 1 < result[m].start /\ result[m].start \in Int
        /\ resultInterval.end \in Int
    BY SubtractRanges
  <2> QED
    BY <2>1, <2>2
<1>8. ASSUME Within(e, other, j + 1, Len(other)) PROVE rightInterval.end < e
  <2>1. PICK m \in j + 1 .. Len(other) : other[m].start <= e
    BY <1>8 DEF Within
  <2>2. rightInterval.end + 1 < other[m].start /\ other[m].start \in Int
        /\ rightInterval.end \in Int
    BY SubtractRanges
  <2> QED
    BY <2>1, <2>2
<1> QED
  BY <1>3, <1>4, <1>5, <1>6, <1>7, <1>8, Zenon

\* subtract leaves a range that ends before the other begins.
LEMMA SubtractSkipKeeps == IInv /\ SubtractSkip => IInv'
<1> SUFFICES ASSUME IInv, SubtractSkip PROVE IInv'
  OBVIOUS
<1>1. /\ pc = "subtract" /\ BothRemain
      /\ _ranges' = _ranges /\ pc' = pc /\ dest' = dest /\ this' = this
      /\ other' = other /\ result' = result
  BY DEF SubtractSkip
<1>2. i \in Nat \ {0} /\ j \in Nat \ {0}
  BY DEF IInv, TypeOK
<1>3. \/ rightInterval.end < resultInterval.start /\ i' = i /\ j' = j + 1
      \/ rightInterval.start > resultInterval.end /\ i' = i + 1 /\ j' = j
  BY DEF SubtractSkip
<1>4. TypeOK'
  BY <1>1, <1>2, <1>3 DEF IInv, TypeOK
<1>5. /\ resultInterval.start \in Int /\ resultInterval.end \in Int
      /\ resultInterval.start <= resultInterval.end
      /\ rightInterval.start \in Int /\ rightInterval.end \in Int
      /\ rightInterval.start <= rightInterval.end
  BY <1>1, SubtractRanges
<1>6. ASSUME NEW e \in Int
      PROVE  /\ ~ (Within(e, result, 1, i - 1) /\ e \in Elements(other))
             /\ ~ (e \in Elements(result) /\ Within(e, other, 1, j - 1))
  BY <1>1 DEF IInv, Differs
<1>7. ASSUME NEW e \in Int
      PROVE  /\ ~ (Within(e, result, 1, i' - 1) /\ e \in Elements(other))
             /\ ~ (e \in Elements(result) /\ Within(e, other, 1, j' - 1))
  <2>1. CASE rightInterval.end < resultInterval.start /\ i' = i /\ j' = j + 1
    BY <1>1, <1>5, <1>6, <2>1, SubtractSides
  <2>2. CASE rightInterval.start > resultInterval.end /\ i' = i + 1 /\ j' = j
    BY <1>1, <1>5, <1>6, <2>2, SubtractSides
  <2> QED
    BY <1>3, <2>1, <2>2
<1>8. Differs'
  <2>1. /\ \A e \in Int : e \in Elements(result) => e \in Elements(this)
        /\ (\A e \in Elements(this) : e >= 0) => \A e \in Int :
             e \in Elements(this) /\ e \notin Elements(other)
               => e \in Elements(result)
    BY <1>1 DEF IInv, Differs
  <2>2. i' <= Len(result) + 1 /\ j' <= Len(other) + 1
    <3>1. /\ i \in 1 .. Len(result) /\ j \in 1 .. Len(other)
          /\ Len(result) \in Nat /\ Len(other) \in Nat
      BY <1>1, SubtractRanges
    <3> QED
      BY <1>3, <3>1
  <2> QED
    BY <1>1, <1>7, <2>1, <2>2 DEF Differs
<1> QED
  BY <1>1, <1>4, <1>8 DEF IInv, Canonical, Operands, AddsUp, Intersects

\* The pieces that are kept of an interval lie within it and beside the right
\* interval; without negative elements no piece is lost.
LEMMA PiecesFit ==
    ASSUME IInv, pc = "subtract", BothRemain,
           rightInterval.end >= resultInterval.start,
           rightInterval.start <= resultInterval.end
    PROVE  /\ pieces \in Seq(RangeType)
           /\ IsCanonical(pieces)
           /\ \A n \in 1 .. Len(pieces) :
                /\ pieces[n] \in RangeType
                /\ resultInterval.start <= pieces[n].start
                /\ pieces[n].end <= resultInterval.end
           /\ \A e \in Int : Within(e, pieces, 1, Len(pieces)) <=>
                \/ /\ Kept(beforeCurrent)
                   /\ resultInterval.start <= e /\ e < rightInterval.start
                \/ /\ Kept(afterCurrent)
                   /\ rightInterval.end < e /\ e <= resultInterval.end
           /\ Kept(beforeCurrent) =>
                /\ Len(pieces) \in Nat \ {0}
                /\ pieces[1].start = resultInterval.start
                /\ pieces[1].end = rightInterval.start - 1
                /\ resultInterval.start < rightInterval.start
           /\ Kept(afterCurrent) => rightInterval.end < resultInterval.end
           /\ resultInterval.start >= 0 =>
                /\ resultInterval.start < rightInterval.start
                     => Kept(beforeCurrent)
                /\ rightInterval.end < resultInterval.end => Kept(afterCurrent)
<1>1. /\ resultInterval.start \in Int /\ resultInterval.end \in Int
      /\ resultInterval.start <= resultInterval.end
      /\ rightInterval.start \in Int /\ rightInterval.end \in Int
      /\ rightInterval.start <= rightInterval.end
  BY SubtractRanges
<1>2. PICK b : b = beforeCurrent
  OBVIOUS
<1>3. PICK a : a = afterCurrent
  OBVIOUS
<1>4. Kept(b) => /\ b \in RangeType /\ b.start <= b.end
                 /\ b.start = resultInterval.start
                 /\ b.end = rightInterval.start - 1
                 /\ resultInterval.start < rightInterval.start
  BY <1>1, <1>2 DEF beforeCurrent, Kept, RangeOf, RangeType, INVALID
<1>5. Kept(a) => /\ a \in RangeType /\ a.start <= a.end
                 /\ a.start = rightInterval.end + 1
                 /\ a.end = resultInterval.end
                 /\ rightInterval.end < resultInterval.end
  BY <1>1, <1>3 DEF afterCurrent, Kept, RangeOf, RangeType, INVALID
<1>6. resultInterval.start >= 0 =>
        /\ resultInterval.start < rightInterval.start => Kept(b)
        /\ rightInterval.end < resultInterval.end => Kept(a)
  BY <1>1, <1>2, <1>3 DEF beforeCurrent, afterCurrent, Kept, RangeOf
<1>7. PICK P : P = pieces
  OBVIOUS
<1>8. P = IfKept(b) \o IfKept(a)
  BY <1>2, <1>3, <1>7 DEF pieces
<1>9. /\ P \in Seq(RangeType)
      /\ IsCanonical(P)
      /\ \A n \in 1 .. Len(P) : /\ P[n] \in RangeType
                                /\ resultInterval.start <= P[n].start
                                /\ P[n].end <= resultInterval.end
      /\ \A e \in Int : Within(e, P, 1, Len(P)) <=>
           \/ /\ Kept(b)
              /\ resultInterval.start <= e /\ e < rightInterval.start
           \/ /\ Kept(a)
              /\ rightInterval.end < e /\ e <= resultInterval.end
      /\ Kept(b) => Len(P) \in Nat \ {0} /\ P[1] = b
  <2>1. CASE Kept(b) /\ Kept(a)
    <3>1. P = <<b>> \o <<a>>
      BY <1>8, <2>1, Zenon DEF IfKept
    <3>2. /\ P \in Seq(RangeType) /\ Len(P) = 2 /\ P[1] = b /\ P[2] = a
      <4>1. /\ <<b>> \in Seq(RangeType) /\ Len(<<b>>) = 1 /\ <<b>>[1] = b
            /\ <<a>> \in Seq(RangeType) /\ Len(<<a>>) = 1 /\ <<a>>[1] = a
        BY <1>4, <1>5, <2>1, Singleton
      <4>2. /\ P \in Seq(RangeType) /\ Len(P) = Len(<<b>>) + Len(<<a>>)
            /\ \A n \in 1 .. Len(<<b>>) : P[n] = <<b>>[n]
            /\ \A n \in 1 .. Len(<<a>>) : P[Len(<<b>>) + n] = <<a>>[n]
        BY <3>1, <4>1, Concat, Zenon
      <4> QED
        BY <4>1, <4>2
    <3>3. \A n \in 1 .. Len(P) : n = 1 \/ n = 2
      BY <3>2
    <3>4. IsCanonical(P)
      <4>1. b.end + 1 < a.start
        BY <1>1, <1>4, <1>5, <2>1
      <4>2. \A n \in 1 .. Len(P) : P[n].start <= P[n].end
        BY <1>4, <1>5, <2>1, <3>2, <3>3
      <4>3. \A m, n \in 1 .. Len(P) : m < n => P[m].end + 1 < P[n].start
        <5>1. \A m, n \in 1 .. Len(P) : m < n => m = 1 /\ n = 2
          BY <3>3
        <5> QED
          BY <3>2, <4>1, <5>1
      <4> QED
        BY <3>2, <4>2, <4>3, CanonicalAt
    <3>5. \A e \in Int : Within(e, P, 1, Len(P)) <=>
            (b.start <= e /\ e <= b.end) \/ (a.start <= e /\ e <= a.end)
      BY <3>2, <3>3 DEF Within
    <3>6. \A n \in 1 .. Len(P) : /\ P[n] \in RangeType
                                 /\ resultInterval.start <= P[n].start
                                 /\ P[n].end <= resultInterval.end
      BY <1>1, <1>4, <1>5, <2>1, <3>2, <3>3
    <3> QED
      BY <1>1, <1>4, <1>5, <2>1, <3>2, <3>4, <3>5, <3>6
  <2>2. CASE Kept(b) /\ ~ Kept(a)
    <3>1. <<b>> \in Seq(RangeType) /\ IsCanonical(<<b>>)
          /\ Len(<<b>>) = 1 /\ <<b>>[1] = b
      BY <1>4, <2>2, Singleton
    <3>2. P = <<b>>
      <4>1. P = <<b>> \o <<>>
        BY <1>8, <2>2, Zenon DEF IfKept
      <4> QED
        BY <3>1, <4>1, ConcatEmptySeq
    <3> QED
      BY <1>1, <1>4, <2>2, <3>1, <3>2 DEF Within
  <2>3. CASE ~ Kept(b) /\ Kept(a)
    <3>1. <<a>> \in Seq(RangeType) /\ IsCanonical(<<a>>)
          /\ Len(<<a>>) = 1 /\ <<a>>[1] = a
      BY <1>5, <2>3, Singleton
    <3>2. P = <<a>>
      <4>1. P = <<>> \o <<a>>
        BY <1>8, <2>3, Zenon DEF IfKept
      <4> QED
        BY <3>1, <4>1, ConcatEmptySeq
    <3> QED
      BY <1>1, <1>5, <2>3, <3>1, <3>2 DEF Within
  <2>4. CASE ~ Kept(b) /\ ~ Kept(a)
    <3>1. P = <<>> \o <<>>
      BY <1>8, <2>4, Zenon DEF IfKept
    <3>2. P = <<>>
      BY <3>1, EmptyList, ConcatEmptySeq
    <3> QED
      BY <2>4, <3>2, EmptyList DEF Within
  <2> QED
    BY <2>1, <2>2, <2>3, <2>4
<1> QED
  BY <1>2, <1>3, <1>4, <1>5, <1>6, <1>7, <1>9

\* subtract replaces a range by what is left of it before and after the other.
LEMMA SubtractCutKeeps == IInv /\ SubtractCut => IInv'
<1> SUFFICES ASSUME IInv, SubtractCut PROVE IInv'
  OBVIOUS
<1>1. /\ pc = "subtract" /\ BothRemain
      /\ rightInterval.end >= resultInterval.start
      /\ rightInterval.start <= resultInterval.end
      /\ _ranges' = _ranges /\ pc' = pc /\ dest' = dest /\ this' = this
      /\ other' = other
      /\ result' = SubSeq(result, 1, i - 1) \o pieces
                     \o SubSeq(result, i + 1, Len(result))
      /\ i' = IF Kept(beforeCurrent) THEN i + 1 ELSE i
      /\ j' = IF Kept(afterCurrent) THEN j + 1 ELSE j
  BY DEF SubtractCut
<1>2. i \in Nat \ {0} /\ j \in Nat \ {0}
  BY DEF IInv, TypeOK
<1>3. /\ resultInterval.start \in Int /\ resultInterval.end \in Int
      /\ resultInterval.start <= resultInterval.end
      /\ rightInterval.start \in Int /\ rightInterval.end \in Int
      /\ rightInterval.start <= rightInterval.end
      /\ result \in Seq(RangeType) /\ IsCanonical(result)
      /\ Len(result) \in Nat /\ i \in 1 .. Len(result)
      /\ \A m \in 1 .. i - 1 : /\ result[m].end + 1 < resultInterval.start
                               /\ result[m].end \in Int
      /\ \A m \in i + 1 .. Len(result) :
           /\ resultInterval.end + 1 < result[m].start
           /\ result[m].start \in Int
  BY <1>1, SubtractRanges
<1>4. /\ pieces \in Seq(RangeType)
      /\ IsCanonical(pieces)
      /\ \A n \in 1 .. Len(pieces) :
           /\ pieces[n] \in RangeType
           /\ resultInterval.start <= pieces[n].start
           /\ pieces[n].end <= resultInterval.end
      /\ \A e \in Int : Within(e, pieces, 1, Len(pieces)) <=>
           \/ /\ Kept(beforeCurrent)
              /\ resultInterval.start <= e /\ e < rightInterval.start
           \/ /\ Kept(afterCurrent)
              /\ rightInterval.end < e /\ e <= resultInterval.end
      /\ Kept(beforeCurrent) =>
           /\ Len(pieces) \in Nat \ {0}
           /\ pieces[1].start = resultInterval.start
           /\ pieces[1].end = rightInterval.start - 1
           /\ resultInterval.start < rightInterval.start
      /\ Kept(afterCurrent) => rightInterval.end < resultInterval.end
      /\ resultInterval.start >= 0 =>
           /\ resultInterval.start < rightInterval.start => Kept(beforeCurrent)
           /\ rightInterval.end < resultInterval.end => Kept(afterCurrent)
  BY <1>1, PiecesFit
<1>5. IsSplice(result', result, i, i, pieces)
  <2>1. i \in 1 .. Len(result) + 1 /\ i \in i - 1 .. Len(result)
    BY <1>3
  <2> QED
    BY <1>1, <1>3, <1>4, <2>1, Splice, Zenon
<1>6. IsCanonical(result')
  <2>1. \A m \in 1 .. i - 1, n \in 1 .. Len(pieces) :
          result[m].end + 1 < pieces[n].start
    <3> SUFFICES ASSUME NEW m \in 1 .. i - 1, NEW n \in 1 .. Len(pieces)
                 PROVE  result[m].end + 1 < pieces[n].start
      OBVIOUS
    <3>1. /\ result[m].end + 1 < resultInterval.start
          /\ result[m].end \in Int
          /\ resultInterval.start <= pieces[n].start
      BY <1>3, <1>4
    <3>2. pieces[n].start \in Int
      BY <1>4 DEF RangeType
    <3> QED
      BY <1>3, <3>1, <3>2
  <2>2. \A n \in 1 .. Len(pieces), m \in i + 1 .. Len(result) :
          pieces[n].end + 1 < result[m].start
    <3> SUFFICES ASSUME NEW n \in 1 .. Len(pieces),
                        NEW m \in i + 1 .. Len(result)
                 PROVE  pieces[n].end + 1 < result[m].start
      OBVIOUS
    <3>1. /\ resultInterval.end + 1 < result[m].start
          /\ result[m].start \in Int
          /\ pieces[n].end <= resultInterval.end
      BY <1>3, <1>4
    <3>2. pieces[n].end \in Int
      BY <1>4 DEF RangeType
    <3> QED
      BY <1>3, <3>1, <3>2
  <2> QED
    BY <1>3, <1>4, <1>5, <2>1, <2>2, SpliceCanonical, Zenon
<1>7. TypeOK'
  <2>1. result' \in Seq(RangeType)
    BY <1>5 DEF IsSplice
  <2>2. i' \in Nat \ {0} /\ j' \in Nat \ {0}
    BY <1>1, <1>2
  <2> QED
    BY <1>1, <2>1, <2>2 DEF IInv, TypeOK
<1>8. Canonical'
  BY <1>1, <1>6 DEF IInv, Canonical
\* The elements of the new list.
<1>9. ASSUME NEW e \in Int
      PROVE  e \in Elements(result') <=>
               \/ Within(e, result, 1, i - 1)
               \/ /\ Kept(beforeCurrent)
                  /\ resultInterval.start <= e /\ e < rightInterval.start
               \/ /\ Kept(afterCurrent)
                  /\ rightInterval.end < e /\ e <= resultInterval.end
               \/ Within(e, result, i + 1, Len(result))
  BY <1>4, <1>5, SpliceElements
<1>10. ASSUME NEW e \in Int
       PROVE  Within(e, result', 1, i' - 1) <=>
                \/ Within(e, result, 1, i - 1)
                \/ /\ Kept(beforeCurrent)
                   /\ resultInterval.start <= e /\ e < rightInterval.start
  <2>1. \A m \in 1 .. i - 1 : result'[m] = result[m]
    BY <1>5 DEF IsSplice
  <2>2. Within(e, result', 1, i - 1) <=> Within(e, result, 1, i - 1)
    BY <2>1 DEF Within
  <2>3. CASE ~ Kept(beforeCurrent)
    BY <1>1, <2>2, <2>3
  <2>4. CASE Kept(beforeCurrent)
    <3>1. result'[i] = pieces[1]
      <4>1. i - 1 + 1 = i /\ 1 \in 1 .. Len(pieces)
        BY <1>2, <1>4, <2>4
      <4>2. \A n \in 1 .. Len(pieces) : result'[i - 1 + n] = pieces[n]
        BY <1>5 DEF IsSplice
      <4> QED
        BY <4>1, <4>2
    <3>2. result'[i].start <= e /\ e <= result'[i].end <=>
            resultInterval.start <= e /\ e < rightInterval.start
      BY <1>3, <1>4, <2>4, <3>1
    <3>3. i' = i + 1
      BY <1>1, <2>4
    <3>4. \A m \in Int : m \in 1 .. i' - 1 <=> m \in 1 .. i - 1 \/ m = i
      BY <1>2, <3>3
    <3>5. Within(e, result', 1, i' - 1) <=>
            \/ Within(e, result', 1, i - 1)
            \/ result'[i].start <= e /\ e <= result'[i].end
      BY <1>2, <3>4 DEF Within
    <3> QED
      BY <2>2, <2>4, <3>2, <3>5
  <2> QED
    BY <2>3, <2>4
<1>11. ASSUME NEW e \in Int
       PROVE  /\ ~ (Within(e, result, 1, i - 1) /\ e \in Elements(other))
              /\ ~ (e \in Elements(result) /\ Within(e, other, 1, j - 1))
              /\ e \in Elements(result) => e \in Elements(this)
  BY <1>1 DEF IInv, Differs
<1>12. ASSUME NEW e \in Int, e \in Elements(result')
       PROVE  /\ e \in Elements(result)
              /\ Kept(beforeCurrent) \/ Kept(afterCurrent) =>
                   ~ (rightInterval.start <= e /\ e <= rightInterval.end)
                   \/ Within(e, result, 1, i - 1)
                   \/ Within(e, result, i + 1, Len(result))
  <2>1. e \in Elements(result) <=>
           \/ Within(e, result, 1, i - 1)
           \/ resultInterval.start <= e /\ e <= resultInterval.end
           \/ Within(e, result, i + 1, Len(result))
    BY <1>1, SubtractSides
  <2>2. ASSUME resultInterval.start <= e, e < rightInterval.start
        PROVE  /\ resultInterval.start <= e /\ e <= resultInterval.end
               /\ ~ (rightInterval.start <= e)
    BY <1>1, <1>3, <2>2
  <2>3. ASSUME rightInterval.end < e, e <= resultInterval.end
        PROVE  /\ resultInterval.start <= e /\ e <= resultInterval.end
               /\ ~ (e <= rightInterval.end)
    BY <1>1, <1>3, <2>3
  <2> QED
    BY <1>9, <1>12, <2>1, <2>2, <2>3, Zenon
<1>13. ASSUME NEW e \in Int
       PROVE  ~ (Within(e, result', 1, i' - 1) /\ e \in Elements(other))
  <2> SUFFICES ASSUME Kept(beforeCurrent), resultInterval.start <= e,
                      e < rightInterval.start, e \in Elements(other)
               PROVE  FALSE
    BY <1>10, <1>11
  <2>1. e \in Elements(result)
    BY <1>1, <1>3, SubtractSides
  <2> QED
    BY <1>1, <1>3, <1>11, <2>1, SubtractSides
<1>14. ASSUME NEW e \in Int
       PROVE  ~ (e \in Elements(result') /\ Within(e, other, 1, j' - 1))
  <2> SUFFICES ASSUME e \in Elements(result'), Within(e, other, 1, j' - 1)
               PROVE  FALSE
    OBVIOUS
  <2>1. ~ Within(e, other, 1, j - 1)
    BY <1>11, <1>12
  <2>2. Kept(afterCurrent) /\ j' = j + 1
    BY <1>1, <2>1
  <2>3. rightInterval.start <= e /\ e <= rightInterval.end
    BY <1>1, <2>1, <2>2, SubtractSides
  <2>4. e \in Elements(other)
    BY <1>1, <2>3, SubtractSides
  <2>5. ~ Within(e, result, 1, i - 1)
    BY <1>11, <2>4
  <2>6. ~ Within(e, result, i + 1, Len(result))
    BY <1>1, <1>3, <1>4, <2>2, <2>3, SubtractSides
  <2> QED
    BY <1>12, <2>2, <2>3, <2>5, <2>6
<1>15. ASSUME \A e \in Elements(this) : e >= 0,
              NEW e \in Int, e \in Elements(this), e \notin Elements(other)
       PROVE  e \in Elements(result')
  <2>1. e \in Elements(result)
    BY <1>1, <1>15 DEF IInv, Differs
  <2>2. resultInterval.start >= 0
    <3>1. resultInterval.start \in Elements(result)
      BY <1>1, <1>3, SubtractSides
    <3> QED
      BY <1>3, <1>11, <1>15, <3>1
  <2>3. ~ (rightInterval.start <= e /\ e <= rightInterval.end)
    BY <1>1, <1>15, SubtractSides
  <2>4. \/ Within(e, result, 1, i - 1)
        \/ resultInterval.start <= e /\ e <= resultInterval.end
        \/ Within(e, result, i + 1, Len(result))
    BY <1>1, <2>1, SubtractSides
  <2> QED
    BY <1>3, <1>4, <1>9, <2>2, <2>3, <2>4
<1>16. Differs'
  <2>1. i' <= Len(result') + 1
    <3>1. /\ Len(result') = i - 1 + Len(pieces) + Len(result) - i
          /\ Len(pieces) \in Nat
      BY <1>5 DEF IsSplice
    <3>2. i \in Nat /\ Len(result) \in Nat /\ i <= Len(result)
      BY <1>2, <1>3
    <3>3. CASE Kept(beforeCurrent)
      <4>1. i' = i + 1 /\ Len(pieces) >= 1
        BY <1>1, <1>4, <3>1, <3>3
      <4> QED
        BY <3>1, <3>2, <4>1
    <3>4. CASE ~ Kept(beforeCurrent)
      <4>1. i' = i
        BY <1>1, <3>4
      <4> QED
        BY <3>1, <3>2, <4>1
    <3> QED
      BY <3>3, <3>4
  <2>2. j' <= Len(other) + 1
    <3>1. j \in 1 .. Len(other) /\ Len(other) \in Nat
      BY <1>1, SubtractRanges
    <3> QED
      BY <1>1, <3>1
  <2> QED
    BY <1>1, <1>11, <1>12, <1>13, <1>14, <1>15, <2>1, <2>2 DEF Differs
<1> QED
  BY <1>1, <1>7, <1>8, <1>16 DEF IInv, Operands, AddsUp, Intersects

-----------------------------------------------------------------------------
\* The initial state and every step.
LEMMA InitIInv == Init => IInv
<1> SUFFICES ASSUME Init PROVE IInv
  OBVIOUS
<1>1. TypeOK
  <2>1. dest \in Objects
    BY ObjectsAssumption DEF Init
  <2> QED
    BY <2>1, EmptyList DEF Init, TypeOK
<1>2. Canonical
  BY EmptyList DEF Init, Canonical
<1> QED
  BY <1>1, <1>2 DEF Init, IInv, Operands, AddsUp, Intersects, Differs

\* An operation that is called.
LEMMA CallKeeps == IInv /\ Call => IInv'
<1> SUFFICES ASSUME IInv, Call PROVE IInv'
  OBVIOUS
<1>1. \A o \in Objects : _ranges[o] \in Seq(RangeType) /\ IsCanonical(_ranges[o])
  BY DEF IInv, TypeOK, Canonical
<1>2. ASSUME NEW o \in Objects, NEW a \in Universe, NEW b \in Universe,
             Add(o, a, b)
      PROVE  IInv'
  <2>1. RangeOf(a, b) \in RangeType
    BY UniverseAssumption DEF RangeOf, RangeType
  <2> QED
    BY <1>1, <1>2, <2>1, AddedCorrect, AssignKeeps DEF Add
<1>3. ASSUME NEW o \in Objects, NEW el \in Universe, RemoveElement(o, el)
      PROVE  IInv'
  <2>1. el \in Int
    BY UniverseAssumption
  <2> QED
    BY <1>1, <1>3, <2>1, RemovedCorrect, AssignKeeps DEF RemoveElement
<1>4. ASSUME NEW o \in Objects, Clear(o) PROVE IInv'
  BY <1>4, EmptyList, AssignKeeps DEF Clear
<1>5. ASSUME NEW o \in Objects, NEW a \in Universe, NEW b \in Universe,
             AssignOf(o, a, b)
      PROVE  IInv'
  BY <1>5, EmptyList, AssignKeeps DEF AssignOf, of, Dropped
<1>6. ASSUME NEW o \in Objects, NEW p \in Objects, Copy(o, p) PROVE IInv'
  BY <1>1, <1>6, AssignKeeps DEF Copy
<1>7. ASSUME NEW o \in Objects, NEW p \in Objects, MoveConstruct(o, p)
      PROVE  IInv'
  BY <1>7, EmptyList, AssignKeeps DEF MoveConstruct, Dropped
<1>8. ASSUME NEW o \in Objects, NEW p \in Objects, AddAll(o, p) PROVE IInv'
  BY <1>1, <1>8, AddAllKeeps DEF AddAll
<1>9. ASSUME NEW o \in Objects, NEW p \in Objects, NEW q \in Objects, Or(o, p, q)
      PROVE  IInv'
  <2>1. PICK R : R = _ranges[p] \o _ranges[q]
    OBVIOUS
  <2>2. /\ R \in Seq(RangeType) /\ Len(R) = Len(_ranges[p]) + Len(_ranges[q])
        /\ \A n \in 1 .. Len(_ranges[p]) : R[n] = _ranges[p][n]
        /\ \A n \in 1 .. Len(_ranges[q]) :
             R[Len(_ranges[p]) + n] = _ranges[q][n]
    BY <1>1, <2>1, Concat
  <2>3. \A e : e \in Elements(R) <=>
          e \in Elements(_ranges[p]) \/ e \in Elements(_ranges[q])
    BY <1>1, <2>1, ElementsOfConcat, Zenon
  <2>4. \A e \in Int : e \in Elements(<<>>) \/ e \in Elements(R) <=>
          e \in Elements(_ranges[p]) \/ e \in Elements(_ranges[q])
    BY <2>3, EmptyList
  <2>5. Start("addAll", o, <<>>, R, <<>>)
    BY <1>9, <2>1 DEF Or
  <2> QED
    BY <2>2, <2>4, <2>5, EmptyList, AddAllKeeps
<1>10. ASSUME NEW o \in Objects, NEW p \in Objects, NEW q \in Objects,
              And(o, p, q)
       PROVE  IInv'
  BY <1>10, AndKeeps
<1>11. ASSUME NEW o \in Objects, NEW p \in Objects, NEW q \in Objects,
              Subtract(o, _ranges[p], _ranges[q])
       PROVE  IInv'
  <2>1. CASE _ranges[p] = <<>> \/ _ranges[q] = <<>>
    <3>1. Assign(o, _ranges[p])
      BY <1>11, <2>1 DEF Subtract
    <3> QED
      BY <1>1, <3>1, AssignKeeps
  <2>2. CASE ~ (_ranges[p] = <<>> \/ _ranges[q] = <<>>)
    <3>1. Start("subtract", o, _ranges[p], _ranges[q], _ranges[p])
      BY <1>11, <2>2 DEF Subtract
    <3> QED
      BY <3>1, SubtractKeeps
  <2> QED
    BY <2>1, <2>2
<1>12. ASSUME NEW o \in Objects, NEW p \in Objects,
              NEW a \in Universe, NEW b \in Universe,
              Subtract(o, of(a, b), _ranges[p])
       PROVE  IInv'
  <2>1. Assign(o, <<>>)
    BY <1>12 DEF Subtract, of, Dropped
  <2> QED
    BY <2>1, EmptyList, AssignKeeps
<1> QED
  BY <1>2, <1>3, <1>4, <1>5, <1>6, <1>7, <1>8, <1>9, <1>10, <1>11, <1>12
  DEF Call

\* An iteration of a loop, or the return from it.
LEMMA LoopStepKeeps == IInv /\ LoopStep => IInv'
<1> SUFFICES ASSUME IInv, LoopStep PROVE IInv'
  OBVIOUS
<1>1. /\ result \in Seq(RangeType) /\ IsCanonical(result) /\ dest \in Objects
  BY DEF IInv, TypeOK, Canonical
<1>2. CASE AddedAll
  BY <1>1, <1>2, AssignKeeps DEF AddedAll
<1>3. CASE AndReturn
  BY <1>1, <1>3, AssignKeeps DEF AndReturn
<1>4. CASE SubtractReturn
  BY <1>1, <1>4, EmptyList, AssignKeeps DEF SubtractReturn, Dropped
<1> QED
  BY <1>2, <1>3, <1>4, AddNextKeeps, AndSkipKeeps, AndOverlapKeeps,
     SubtractSkipKeeps, SubtractCutKeeps DEF LoopStep

\* The inductive invariant of the RangeSets.
THEOREM RangeSetInvariant == Spec => []IInv
<1>1. IInv /\ UNCHANGED vars => IInv'
  BY DEF IInv, TypeOK, Canonical, Operands, AddsUp, Intersects, Differs, vars
<1>2. IInv /\ [Next]_vars => IInv'
  BY <1>1, CallKeeps, LoopStepKeeps DEF Next
<1> QED
  BY InitIInv, <1>2, PTL DEF Spec

\* Every list of ranges, also one under construction, is sorted and its ranges
\* neither empty nor next to each other, for any objects and any integers.
THEOREM AlwaysCanonical == Spec => []Canonical
<1>1. IInv => Canonical
  BY DEF IInv
<1> QED
  BY <1>1, RangeSetInvariant, PTL

-----------------------------------------------------------------------------
\* subtract removes the elements of the other set and no more, for any sets
\* without negative elements.
THEOREM SubtractInLoop == Spec => []DifferenceInLoop
<1>1. IInv => DifferenceInLoop
  <2> SUFFICES ASSUME IInv, pc = "subtract", \A e \in Elements(this) : e >= 0
               PROVE
        /\ Elements(result) \ Elements(other) = Elements(this) \ Elements(other)
        /\ Elements(SubSeq(result, 1, i - 1)) \cap Elements(other) = {}
        /\ Elements(result) \cap Elements(SubSeq(other, 1, j - 1)) = {}
    BY DEF DifferenceInLoop
  <2>1. /\ result \in Seq(RangeType) /\ this \in Seq(RangeType)
        /\ other \in Seq(RangeType) /\ i \in Nat \ {0} /\ j \in Nat \ {0}
    BY DEF IInv, TypeOK
  <2>2. /\ i <= Len(result) + 1 /\ j <= Len(other) + 1
        /\ \A e \in Int : e \in Elements(result) => e \in Elements(this)
        /\ \A e \in Int : e \in Elements(this) /\ e \notin Elements(other)
                            => e \in Elements(result)
        /\ \A e \in Int :
             ~ (Within(e, result, 1, i - 1) /\ e \in Elements(other))
        /\ \A e \in Int :
             ~ (e \in Elements(result) /\ Within(e, other, 1, j - 1))
    BY DEF IInv, Differs
  <2>3. /\ Elements(result) \subseteq Int /\ Elements(this) \subseteq Int
        /\ Elements(other) \subseteq Int
    BY <2>1, ElementsType
  <2>4. /\ i - 1 \in Nat /\ i - 1 <= Len(result)
        /\ j - 1 \in Nat /\ j - 1 <= Len(other)
    <3>1. Len(result) \in Nat /\ Len(other) \in Nat
      BY <2>1, LenProperties
    <3> QED
      BY <2>1, <2>2, <3>1
  <2>5. \A e \in Int :
          /\ e \in Elements(SubSeq(result, 1, i - 1)) <=>
               Within(e, result, 1, i - 1)
          /\ e \in Elements(SubSeq(other, 1, j - 1)) <=>
               Within(e, other, 1, j - 1)
    BY <2>1, <2>4, ElementsOfPrefix
  <2> QED
    BY <2>2, <2>3, <2>5
<1> QED
  BY <1>1, RangeSetInvariant, PTL

\* operator==, which compares the lists, tells whether two objects are the
\* same set.
THEOREM ListsEqualSets == Spec => []EqualIffSame
<1>1. IInv => EqualIffSame
  <2> SUFFICES ASSUME IInv, NEW o \in Objects, NEW p \in Objects
               PROVE  _ranges[o] = _ranges[p]
                        <=> Elements(_ranges[o]) = Elements(_ranges[p])
    BY DEF EqualIffSame
  <2>1. /\ _ranges[o] \in Seq(RangeType) /\ IsCanonical(_ranges[o])
        /\ _ranges[p] \in Seq(RangeType) /\ IsCanonical(_ranges[p])
    BY DEF IInv, TypeOK, Canonical
  <2> QED
    BY <2>1, CanonicalUnique
<1> QED
  BY <1>1, RangeSetInvariant, PTL

-----------------------------------------------------------------------------
\* The objects' sets when an object is assigned a list.
LEMMA AssignBecomes ==
    ASSUME IInv, NEW o \in Objects, NEW R, Assign(o, R),
           NEW S, S = Elements(R)
    PROVE  Sets!Becomes(o, S)
<1>1. _ranges' = [_ranges EXCEPT ![o] = R]
  BY DEF Assign
<1>2. DOMAIN _ranges = Objects
  BY DEF IInv, TypeOK
<1>3. \A p \in Objects : _ranges'[p] = IF p = o THEN R ELSE _ranges[p]
  BY <1>1, <1>2
<1>4. [p \in Objects |-> Elements(_ranges'[p])]
        = [[p \in Objects |-> Elements(_ranges[p])] EXCEPT ![o] = S]
  <2>1. \A p \in Objects :
          Elements(_ranges'[p]) = IF p = o THEN S ELSE Elements(_ranges[p])
    BY <1>3, Zenon
  <2> QED
    BY <2>1
<1> QED
  BY <1>4 DEF Sets!Becomes

\* The abstract set of an object.
LEMMA SetOf == \A o \in Objects :
    [p \in Objects |-> Elements(_ranges[p])][o] = Elements(_ranges[o])
  OBVIOUS

\* A call is an operation on sets, or begins one.
LEMMA CallRefines ==
    IInv /\ Call => Sets!Next \/ UNCHANGED _ranges
<1> SUFFICES ASSUME IInv, Call PROVE Sets!Next \/ UNCHANGED _ranges
  OBVIOUS
<1>1. \A o \in Objects : /\ _ranges[o] \in Seq(RangeType)
                         /\ IsCanonical(_ranges[o])
                         /\ Elements(_ranges[o]) \subseteq Int
  BY ElementsType DEF IInv, TypeOK, Canonical
<1>2. ASSUME NEW o \in Objects, NEW a \in Universe, NEW b \in Universe,
             Add(o, a, b)
      PROVE  Sets!Next
  <2>1. /\ a \in Int /\ b \in Int
        /\ RangeOf(a, b) \in RangeType
        /\ RangeOf(a, b).start = a /\ RangeOf(a, b).end = b
    BY UniverseAssumption DEF RangeOf, RangeType
  <2>2. PICK R : R = Added(_ranges[o], RangeOf(a, b))
    OBVIOUS
  <2>3. /\ R \in Seq(RangeType)
        /\ \A e \in Int : e \in Elements(R) <=>
             e \in Elements(_ranges[o]) \/ (a <= e /\ e <= b)
    BY <1>1, <2>1, <2>2, AddedCorrect
  <2>4. Elements(_ranges[o]) \cup a .. b = Elements(R)
    BY <1>1, <2>1, <2>3, ElementsType
  <2>5. Sets!Becomes(o, Elements(_ranges[o]) \cup a .. b)
    BY <1>2, <2>2, <2>4, AssignBecomes DEF Add
  <2> QED
    BY <2>5, SetOf DEF Sets!Next
<1>3. ASSUME NEW o \in Objects, NEW el \in Universe, RemoveElement(o, el)
      PROVE  Sets!Next
  <2>1. PICK R : R = Removed(_ranges[o], el)
    OBVIOUS
  <2>2. /\ el \in Int /\ R \in Seq(RangeType)
        /\ \A e \in Int : e \in Elements(R) <=>
             e \in Elements(_ranges[o]) /\ e # el
    BY <1>1, <2>1, UniverseAssumption, RemovedCorrect
  <2>3. Elements(_ranges[o]) \ {el} = Elements(R)
    BY <1>1, <2>2, ElementsType
  <2>4. Sets!Becomes(o, Elements(_ranges[o]) \ {el})
    BY <1>3, <2>1, <2>3, AssignBecomes DEF RemoveElement
  <2> QED
    BY <2>4, SetOf DEF Sets!Next
<1>4. ASSUME NEW o \in Objects, Assign(o, <<>>) PROVE Sets!Next
  <2>1. Sets!Becomes(o, {})
    BY <1>4, EmptyList, AssignBecomes
  <2> QED
    BY <2>1 DEF Sets!Next
<1>5. ASSUME NEW o \in Objects, NEW p \in Objects, Assign(o, _ranges[p])
      PROVE  Sets!Next
  <2>1. Sets!Becomes(o, Elements(_ranges[p]))
    BY <1>5, AssignBecomes
  <2> QED
    BY <2>1, SetOf DEF Sets!Next
<1>6. ASSUME NEW o \in Objects, NEW p \in Objects, NEW q \in Objects,
             Subtract(o, _ranges[p], _ranges[q])
      PROVE  Sets!Next \/ UNCHANGED _ranges
  <2>1. CASE _ranges[p] = <<>> \/ _ranges[q] = <<>>
    BY <1>5, <1>6, <2>1 DEF Subtract
  <2>2. CASE ~ (_ranges[p] = <<>> \/ _ranges[q] = <<>>)
    BY <1>6, <2>2 DEF Subtract, Start
  <2> QED
    BY <2>1, <2>2
<1>7. ASSUME NEW o \in Objects, NEW p \in Objects,
             NEW a \in Universe, NEW b \in Universe,
             Subtract(o, of(a, b), _ranges[p])
      PROVE  Sets!Next
  BY <1>4, <1>7 DEF Subtract, of, Dropped
<1>8. ASSUME NEW o \in Objects, Clear(o) PROVE Sets!Next
  BY <1>4, <1>8 DEF Clear
<1>9. ASSUME NEW o \in Objects, NEW a \in Universe, NEW b \in Universe,
             AssignOf(o, a, b)
      PROVE  Sets!Next
  BY <1>4, <1>9 DEF AssignOf, of, Dropped
<1>10. ASSUME NEW o \in Objects, NEW p \in Objects,
              Copy(o, p) \/ MoveConstruct(o, p) \/ AddAll(o, p)
       PROVE  Sets!Next \/ UNCHANGED _ranges
  BY <1>4, <1>5, <1>10 DEF Copy, MoveConstruct, AddAll, Dropped, Start
<1>11. ASSUME NEW o \in Objects, NEW p \in Objects, NEW q \in Objects,
              Or(o, p, q) \/ And(o, p, q)
       PROVE  UNCHANGED _ranges
  BY <1>11 DEF Or, And, Start
<1> QED
  BY <1>2, <1>3, <1>6, <1>7, <1>8, <1>9, <1>10, <1>11 DEF Call

\* The end of a loop is the operation on sets; its other steps change nothing.
LEMMA LoopStepRefines ==
    IInv /\ LoopStep => Sets!Next \/ UNCHANGED _ranges
<1> SUFFICES ASSUME IInv, LoopStep PROVE Sets!Next \/ UNCHANGED _ranges
  OBVIOUS
<1>1. /\ result \in Seq(RangeType) /\ dest \in Objects
      /\ this \in Seq(RangeType) /\ other \in Seq(RangeType)
      /\ i \in Nat \ {0} /\ j \in Nat \ {0}
      /\ Elements(result) \subseteq Int
      /\ Elements(this) \subseteq Int /\ Elements(other) \subseteq Int
  BY ElementsType DEF IInv, TypeOK
<1>2. \A o \in Objects : Elements(_ranges[o]) \subseteq Int
  BY ElementsType DEF IInv, TypeOK
<1>3. Len(this) \in Nat /\ Len(other) \in Nat /\ Len(result) \in Nat
  BY <1>1, LenProperties
<1>4. ASSUME AddedAll PROVE Sets!Next
  <2>1. pc = "addAll" /\ j > Len(other) /\ Assign(dest, result)
    BY <1>4 DEF AddedAll
  <2>2. PICK p \in Objects, q \in Objects : \A e \in Int :
          e \in Elements(result) \/ Within(e, other, j, Len(other)) <=>
            e \in Elements(_ranges[p]) \/ e \in Elements(_ranges[q])
    BY <2>1 DEF IInv, AddsUp
  <2>3. \A e : ~ Within(e, other, j, Len(other))
    BY <1>1, <1>3, <2>1, WithinEmpty
  <2>4. Elements(_ranges[p]) \cup Elements(_ranges[q]) = Elements(result)
    BY <1>1, <1>2, <2>2, <2>3
  <2>5. Sets!Becomes(dest, Elements(_ranges[p]) \cup Elements(_ranges[q]))
    BY <1>1, <2>1, <2>4, AssignBecomes
  <2> QED
    BY <1>1, <2>5, SetOf DEF Sets!Next
<1>5. ASSUME AndReturn PROVE Sets!Next
  <2>1. pc = "and" /\ ~ BothLeft /\ Assign(dest, result)
    BY <1>5 DEF AndReturn
  <2>2. PICK p \in Objects, q \in Objects :
          this = _ranges[p] /\ other = _ranges[q]
    BY <2>1 DEF IInv, Operands
  <2>3. \A e : ~ (Within(e, this, i, Len(this))
                  /\ Within(e, other, j, Len(other)))
    <3>1. Len(this) < i \/ Len(other) < j
      BY <1>1, <1>3, <2>1 DEF BothLeft
    <3> QED
      BY <1>1, <1>3, <3>1, WithinEmpty
  <2>4. \A e \in Int : e \in Elements(result) <=>
          e \in Elements(this) /\ e \in Elements(other)
    BY <2>1, <2>3 DEF IInv, Intersects
  <2>5. Elements(_ranges[p]) \cap Elements(_ranges[q]) = Elements(result)
    BY <1>1, <2>2, <2>4
  <2>6. Sets!Becomes(dest, Elements(_ranges[p]) \cap Elements(_ranges[q]))
    BY <1>1, <2>1, <2>5, AssignBecomes
  <2> QED
    BY <1>1, <2>6, SetOf DEF Sets!Next
<1>6. ASSUME SubtractReturn PROVE Sets!Next
  <2>1. /\ pc = "subtract" /\ ~ BothRemain
        /\ Assign(dest, result) \/ Assign(dest, <<>>)
    BY <1>6 DEF SubtractReturn, Dropped
  <2>2. PICK p \in Objects, q \in Objects :
          this = _ranges[p] /\ other = _ranges[q]
    BY <2>1 DEF IInv, Operands
  <2>3. PICK D : /\ D = Elements(result) \/ D = {}
                 /\ Sets!Becomes(dest, D)
    <3>1. CASE Assign(dest, result)
      BY <1>1, <3>1, AssignBecomes
    <3>2. CASE Assign(dest, <<>>)
      BY <1>1, <3>2, EmptyList, AssignBecomes
    <3> QED
      BY <2>1, <3>1, <3>2
  <2>4. /\ i <= Len(result) + 1 /\ j <= Len(other) + 1
        /\ \A e \in Int : e \in Elements(result) => e \in Elements(this)
        /\ (\A e \in Elements(this) : e >= 0) => \A e \in Int :
             e \in Elements(this) /\ e \notin Elements(other)
               => e \in Elements(result)
        /\ \A e \in Int :
             ~ (Within(e, result, 1, i - 1) /\ e \in Elements(other))
        /\ \A e \in Int :
             ~ (e \in Elements(result) /\ Within(e, other, 1, j - 1))
    BY <2>1 DEF IInv, Differs
  <2>5. ASSUME NEW e \in Int, e \in Elements(result)
        PROVE  e \in Elements(this) \ Elements(other)
    <3>1. i - 1 = Len(result) \/ j - 1 = Len(other)
      BY <1>1, <1>3, <2>1, <2>4 DEF BothRemain
    <3>2. /\ e \in Elements(result) <=> Within(e, result, 1, Len(result))
          /\ e \in Elements(other) <=> Within(e, other, 1, Len(other))
      BY <1>1, InElements
    <3> QED
      BY <2>4, <2>5, <3>1, <3>2
  <2>6. D \in Sets!Differences(Elements(this), Elements(other))
    <3>1. CASE D = {}
      BY <3>1 DEF Sets!Differences
    <3>2. CASE D = Elements(result) /\ \A e \in Elements(this) : e >= 0
      <4>1. D = Elements(this) \ Elements(other)
        BY <1>1, <2>4, <2>5, <3>2
      <4> QED
        BY <4>1 DEF Sets!Differences
    <3>3. CASE D = Elements(result) /\ ~ \A e \in Elements(this) : e >= 0
      <4>1. \E e \in Elements(this) : e < 0
        BY <1>1, <3>3
      <4>2. D \in SUBSET (Elements(this) \ Elements(other))
        BY <1>1, <2>5, <3>3
      <4> QED
        BY <4>1, <4>2 DEF Sets!Differences
    <3> QED
      BY <2>3, <3>1, <3>2, <3>3
  <2>7. \E D2 \in Sets!Differences(Elements(_ranges[p]), Elements(_ranges[q])) :
          Sets!Becomes(dest, D2)
    BY <2>2, <2>3, <2>6
  <2> QED
    BY <1>1, <2>7, SetOf DEF Sets!Next
<1>7. ASSUME AddNext \/ AndSkip \/ AndOverlap \/ SubtractSkip \/ SubtractCut
      PROVE  UNCHANGED _ranges
  BY <1>7 DEF AddNext, AndSkip, AndOverlap, SubtractSkip, SubtractCut
<1> QED
  BY <1>4, <1>5, <1>6, <1>7 DEF LoopStep

\* The objects behave as sets of integers, but for the differences IntSets
\* allows: every step is an operation on sets or changes none of them.
THEOREM RangeSetImplementsSets == Spec => ImplementsSets
<1>1. Init => Sets!Init
  <2> SUFFICES ASSUME Init PROVE Sets!Init
    OBVIOUS
  <2>1. \A o \in Objects : Elements(_ranges[o]) = {}
    BY EmptyList DEF Init
  <2> QED
    BY <2>1 DEF Sets!Init
<1>2. IInv /\ [Next]_vars
        => [Sets!Next]_([o \in Objects |-> Elements(_ranges[o])])
  <2> SUFFICES ASSUME IInv, [Next]_vars
               PROVE  Sets!Next \/ UNCHANGED [o \in Objects |-> Elements(_ranges[o])]
    OBVIOUS
  <2>1. Sets!Next \/ UNCHANGED _ranges
    BY CallRefines, LoopStepRefines DEF Next, vars
  <2> QED
    BY <2>1
<1> QED
  BY <1>1, <1>2, RangeSetInvariant, PTL DEF Spec, ImplementsSets, Sets!Spec
-----------------------------------------------------------------------------
\* contains, size, get and the elements at the ends answer for the set that the
\* list stands for, for any objects and any integers.
THEOREM QueriesAreExact == Spec => []QueriesExact
<1>1. IInv => QueriesExact
  <2> SUFFICES ASSUME IInv, NEW o \in Objects
               PROVE
        LET ranges == _ranges[o]
            S == Elements(ranges)
        IN /\ \A el \in Universe : contains(ranges, el) <=> el \in S
           /\ size(ranges) = Cardinality(S)
           /\ \A n \in 0 .. Cardinality(S) - 1 :
                /\ get(ranges, n) \in S
                /\ Cardinality({e \in S : e < get(ranges, n)}) = n
           /\ S # {} => /\ getMinElement(ranges) = Min(S)
                        /\ getMaxElement(ranges) = Max(S)
           /\ getSingleElement(ranges) # -1 => S = {getSingleElement(ranges)}
    BY Zenon DEF QueriesExact
  <2> DEFINE R == _ranges[o]
  <2>1. R \in Seq(RangeType) /\ IsCanonical(R)
    BY DEF IInv, TypeOK, Canonical
  <2> HIDE DEF R
  <2>2. \A el \in Universe : contains(R, el) <=> el \in Elements(R)
    BY <2>1, ContainsExact, UniverseAssumption
  <2>3. size(R) = Cardinality(Elements(R)) /\ size(R) \in Nat
    BY <2>1, SizeExact
  <2>4. ASSUME NEW n \in 0 .. Cardinality(Elements(R)) - 1
        PROVE  /\ get(R, n) \in Elements(R)
               /\ Cardinality({e \in Elements(R) : e < get(R, n)}) = n
    <3>1. n \in Nat /\ n < size(R)
      BY <2>3
    <3> QED
      BY <2>1, <3>1, GetExact
  <2>5. Elements(R) # {} => /\ getMinElement(R) = Min(Elements(R))
                            /\ getMaxElement(R) = Max(Elements(R))
    BY <2>1, EndsExact
  <2>6. getSingleElement(R) # -1 => Elements(R) = {getSingleElement(R)}
    BY <2>1, SingleExact
  <2> QED
    BY <2>2, <2>3, <2>4, <2>5, <2>6, Zenon DEF R
<1> QED
  BY <1>1, RangeSetInvariant, PTL
=============================================================================
