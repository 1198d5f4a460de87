----------------------------- MODULE WorldProofs -----------------------------
(***************************************************************************)
(* Theorems about World and the quad tree, for any numbers of bodies and   *)
(* colliders, any positions and shapes and every MAX_COL_NBR.              *)
(***************************************************************************)
EXTENDS World, FiniteSetTheorems, SequenceTheorems, WellFoundedInduction, TLAPS

-----------------------------------------------------------------------------
(* Numbers. *)

(* A finite set of integers that is not empty has a least and a greatest   *)
(* element, and Min and Max return them.  Strict inclusion of finite sets  *)
(* is well-founded.                                                        *)
LEMMA MinOfFinite ==
    ASSUME NEW S \in SUBSET Int, IsFiniteSet(S), S # {}
    PROVE  /\ Min(S) \in S
           /\ \A i \in S : Min(S) <= i
<1>. DEFINE Below(i) == {j \in S : j < i}
            Segments == {Below(i) : i \in S}
<1>1. Segments \subseteq FiniteSubsetsOf(S)
  <2>1. \A i \in S : Below(i) \in SUBSET S
    OBVIOUS
  <2>2. \A i \in S : IsFiniteSet(Below(i))
    BY <2>1, FS_Subset
  <2>. QED  BY <2>1, <2>2 DEF FiniteSubsetsOf
<1>2. PICK D \in Segments :
         \A E \in Segments : ~ (<<E, D>> \in StrictSubsetOrdering(S))
  <2>1. Segments # {}
    OBVIOUS
  <2>2. IsWellFoundedOn(StrictSubsetOrdering(S), FiniteSubsetsOf(S))
    BY FS_StrictSubsetOrderingWellFounded
  <2>. QED  BY <1>1, <2>1, <2>2, WFMin
<1>3. PICK m \in S : D = Below(m)
  OBVIOUS
<1>4. ASSUME NEW i \in S, i < m
      PROVE  FALSE
  <2>1. Below(i) \subseteq Below(m) /\ i \in Below(m) /\ i \notin Below(i)
    <3>1. \A j \in Below(i) : j \in Below(m)
      BY <1>4
    <3>2. i \in Below(m) /\ i \notin Below(i)
      BY <1>4
    <3>. QED  BY <3>1, <3>2
  <2>2. Below(i) \in SUBSET S /\ Below(m) \in SUBSET S /\ Below(i) \in Segments
    OBVIOUS
  <2>. HIDE DEF Below, Segments
  <2>3. <<Below(i), Below(m)>> \in StrictSubsetOrdering(S)
    BY <2>1, <2>2 DEF StrictSubsetOrdering
  <2>. QED  BY <1>2, <1>3, <2>2, <2>3
<1>5. \A i \in S : m <= i
  BY <1>4
<1>. QED  BY <1>5 DEF Min

LEMMA MaxOfFinite ==
    ASSUME NEW S \in SUBSET Int, IsFiniteSet(S), S # {}
    PROVE  /\ Max(S) \in S
           /\ \A i \in S : i <= Max(S)
<1>. DEFINE Above(i) == {j \in S : j > i}
            Segments == {Above(i) : i \in S}
<1>1. Segments \subseteq FiniteSubsetsOf(S)
  <2>1. \A i \in S : Above(i) \in SUBSET S
    OBVIOUS
  <2>2. \A i \in S : IsFiniteSet(Above(i))
    BY <2>1, FS_Subset
  <2>. QED  BY <2>1, <2>2 DEF FiniteSubsetsOf
<1>2. PICK D \in Segments :
         \A E \in Segments : ~ (<<E, D>> \in StrictSubsetOrdering(S))
  <2>1. Segments # {}
    OBVIOUS
  <2>2. IsWellFoundedOn(StrictSubsetOrdering(S), FiniteSubsetsOf(S))
    BY FS_StrictSubsetOrderingWellFounded
  <2>. QED  BY <1>1, <2>1, <2>2, WFMin
<1>3. PICK m \in S : D = Above(m)
  OBVIOUS
<1>4. ASSUME NEW i \in S, i > m
      PROVE  FALSE
  <2>1. Above(i) \subseteq Above(m) /\ i \in Above(m) /\ i \notin Above(i)
    <3>1. \A j \in Above(i) : j \in Above(m)
      BY <1>4
    <3>2. i \in Above(m) /\ i \notin Above(i)
      BY <1>4
    <3>. QED  BY <3>1, <3>2
  <2>2. Above(i) \in SUBSET S /\ Above(m) \in SUBSET S /\ Above(i) \in Segments
    OBVIOUS
  <2>. HIDE DEF Above, Segments
  <2>3. <<Above(i), Above(m)>> \in StrictSubsetOrdering(S)
    BY <2>1, <2>2 DEF StrictSubsetOrdering
  <2>. QED  BY <1>2, <1>3, <2>2, <2>3
<1>5. \A i \in S : m >= i
  BY <1>4
<1>. QED  BY <1>5 DEF Max

(* Induction up to n, about the set of the numbers that have a property.   *)
LEMMA UpTo ==
    ASSUME NEW n \in Nat, NEW S, 0 \in S,
           \A k \in 1 .. n : k - 1 \in S => k \in S
    PROVE  \A k \in 0 .. n : k \in S
<1>. SUFFICES ASSUME NEW k \in 0 .. n, k \notin S PROVE FALSE
  OBVIOUS
<1>. DEFINE Rest == (0 .. n) \ S
<1>1. Rest \in SUBSET Int /\ IsFiniteSet(Rest) /\ Rest # {}
  <2>1. IsFiniteSet(0 .. n)
    BY FS_Interval
  <2>. QED  BY <2>1, FS_Subset
<1>2. Min(Rest) \in Rest /\ \A i \in Rest : Min(Rest) <= i
  <2>. HIDE DEF Rest
  <2>. QED  BY <1>1, MinOfFinite
<1>3. PICK m \in Rest : \A i \in Rest : m <= i
  <2>. HIDE DEF Rest
  <2>. QED  BY <1>2
<1>4. m \in 1 .. n /\ m \notin S
  BY <1>3
<1>5. m - 1 \in S
  BY <1>3, <1>4
<1>. QED  BY <1>4, <1>5

(* The values of a function over a finite set are finitely many.           *)
LEMMA ImageFinite ==
    ASSUME NEW S, IsFiniteSet(S), NEW f, f = [x \in S |-> f[x]]
    PROVE  IsFiniteSet({f[x] : x \in S})
<1>1. f \in Surjection(S, {f[x] : x \in S})
  BY DEF Surjection
<1>. QED  BY <1>1, FS_Surjection

(* Steps one after another: there are values after each of them.           *)
Iterates(f, n, T, a, step) ==
    /\ f \in [0 .. n -> T]
    /\ f[0] = a
    /\ \A k \in 1 .. n : f[k] = step[<<k, f[k - 1]>>]

LEMMA IterationExists ==
    ASSUME NEW n \in Nat, NEW T, NEW a \in T, NEW step \in [(1 .. n) \X T -> T]
    PROVE  \E f : Iterates(f, n, T, a, step)
<1>. DEFINE Upto(f, m) == Iterates(f, m, T, a, step)
            Good == {m \in 0 .. n : \E f : Upto(f, m)}
<1>1. 0 \in Good
  <2>. DEFINE f == [k \in 0 .. 0 |-> a]
  <2>1. Upto(f, 0)
    BY DEF Iterates
  <2>2. \E h : Upto(h, 0)
    <3>. HIDE DEF f, Upto
    <3>. QED  BY <2>1
  <2>. HIDE DEF Upto
  <2>. QED  BY <2>2
<1>2. ASSUME NEW m \in 1 .. n, m - 1 \in Good
      PROVE  m \in Good
  <2>1. PICK f : Upto(f, m - 1)
    BY <1>2
  <2>. DEFINE g == [k \in 0 .. m |-> IF k = m THEN step[<<m, f[m - 1]>>] ELSE f[k]]
  <2>2. f[m - 1] \in T
    BY <2>1 DEF Iterates
  <2>3. step[<<m, f[m - 1]>>] \in T
    BY <2>2
  <2>4. g \in [0 .. m -> T]
    BY <2>1, <2>3 DEF Iterates
  <2>5. g[0] = a
    BY <2>1 DEF Iterates
  <2>6. ASSUME NEW k \in 1 .. m
        PROVE  g[k] = step[<<k, g[k - 1]>>]
    <3>1. k - 1 \in 0 .. m /\ k - 1 # m
      OBVIOUS
    <3>2. g[k - 1] = f[k - 1]
      BY <3>1
    <3>3. CASE k = m
      <4>1. g[m] = step[<<m, f[m - 1]>>]
        OBVIOUS
      <4>2. g[m - 1] = f[m - 1]
        BY <3>2, <3>3
      <4>. HIDE DEF g
      <4>. QED  BY <3>3, <4>1, <4>2
    <3>4. CASE k # m
      <4>1. k \in 1 .. m - 1 /\ g[k] = f[k]
        BY <3>4
      <4>. QED  BY <2>1, <3>2, <4>1 DEF Iterates
    <3>. QED  BY <3>3, <3>4
  <2>. HIDE DEF g
  <2>7. Upto(g, m)
    BY <2>4, <2>5, <2>6 DEF Iterates
  <2>. QED  BY <2>7
<1>3. n \in Good
  <2>. HIDE DEF Good
  <2>. QED  BY <1>1, <1>2, UpTo
<1>. QED  BY <1>3
-----------------------------------------------------------------------------
(* Lists one after another, and how often something is in them. *)

Times(s, x) == Cardinality({k \in DOMAIN s : s[k] = x})

LEMMA TimesNone ==
    ASSUME NEW S, NEW s \in Seq(S), NEW x, \A k \in 1 .. Len(s) : s[k] # x
    PROVE  Times(s, x) = 0
<1>1. {k \in DOMAIN s : s[k] = x} = {}
  BY LenProperties
<1>. QED  BY <1>1, FS_EmptySet DEF Times

LEMMA TimesEmpty == \A x : Times(<< >>, x) = 0
<1>. SUFFICES ASSUME NEW x PROVE Times(<< >>, x) = 0
  OBVIOUS
<1>1. << >> \in Seq({}) /\ Len(<< >>) = 0
  BY EmptySeq
<1>2. \A k \in 1 .. Len(<< >>) : << >>[k] # x
  BY <1>1
<1>. QED  BY <1>1, <1>2, TimesNone

LEMMA TimesOne ==
    ASSUME NEW S, NEW s \in Seq(S), NEW x, NEW m \in 1 .. Len(s),
           \A k \in 1 .. Len(s) : s[k] = x <=> k = m
    PROVE  Times(s, x) = 1
<1>1. {k \in DOMAIN s : s[k] = x} = {m}
  BY LenProperties
<1>. QED  BY <1>1, FS_Singleton DEF Times

LEMMA TimesIsNat ==
    ASSUME NEW S, NEW s \in Seq(S), NEW x
    PROVE  /\ Times(s, x) \in Nat
           /\ Times(s, x) > 0 => \E k \in 1 .. Len(s) : s[k] = x
<1>1. IsFiniteSet(1 .. Len(s)) /\ DOMAIN s = 1 .. Len(s)
  BY LenProperties, FS_Interval
<1>2. IsFiniteSet({k \in DOMAIN s : s[k] = x})
  BY <1>1, FS_Subset
<1>3. Times(s, x) \in Nat
  BY <1>2, FS_CardinalityType DEF Times
<1>. QED  BY <1>3, TimesNone

LEMMA TimesConcat ==
    ASSUME NEW S, NEW s \in Seq(S), NEW t \in Seq(S), NEW x
    PROVE  Times(s \o t, x) = Times(s, x) + Times(t, x)
<1>. DEFINE P == {k \in 1 .. Len(s) : s[k] = x}
            Q == {k \in 1 .. Len(t) : t[k] = x}
            R == {k \in Len(s) + 1 .. Len(s) + Len(t) : t[k - Len(s)] = x}
            shift == [k \in Q |-> k + Len(s)]
<1>1. /\ Len(s) \in Nat /\ Len(t) \in Nat
      /\ DOMAIN s = 1 .. Len(s) /\ DOMAIN t = 1 .. Len(t)
      /\ DOMAIN (s \o t) = 1 .. Len(s) + Len(t)
      /\ \A k \in 1 .. Len(s) + Len(t) :
            (s \o t)[k] = IF k <= Len(s) THEN s[k] ELSE t[k - Len(s)]
  BY LenProperties, ConcatProperties
<1>2. {k \in DOMAIN (s \o t) : (s \o t)[k] = x} = P \cup R
  <2>1. ASSUME NEW k \in 1 .. Len(s) + Len(t)
        PROVE  (s \o t)[k] = x <=> k \in P \/ k \in R
    BY <1>1
  <2>2. P \cup R \subseteq 1 .. Len(s) + Len(t)
    BY <1>1
  <2>. HIDE DEF P, R
  <2>. QED  BY <1>1, <2>1, <2>2
<1>3. IsFiniteSet(P) /\ IsFiniteSet(Q) /\ IsFiniteSet(R)
  <2>1. /\ IsFiniteSet(1 .. Len(s)) /\ IsFiniteSet(1 .. Len(t))
        /\ IsFiniteSet(Len(s) + 1 .. Len(s) + Len(t))
    BY <1>1, FS_Interval
  <2>. QED  BY <2>1, FS_Subset
<1>4. P \cap R = {}
  BY <1>1
<1>5. Cardinality(R) = Cardinality(Q)
  <2>1. shift \in [Q -> R]
    BY <1>1
  <2>2. \A k, l \in Q : shift[k] = shift[l] => k = l
    BY <1>1
  <2>3. ASSUME NEW k \in R
        PROVE  \E l \in Q : shift[l] = k
    <3>1. k - Len(s) \in Q
      BY <1>1
    <3>2. shift[k - Len(s)] = k
      BY <1>1, <3>1
    <3>. QED  BY <3>1, <3>2
  <2>. HIDE DEF Q, R, shift
  <2>4. shift \in Bijection(Q, R)
    BY <2>1, <2>2, <2>3 DEF Bijection, Injection, Surjection, IsInjective
  <2>5. ExistsBijection(Q, R)
    BY <2>4 DEF ExistsBijection
  <2>. QED  BY <1>3, <2>5, FS_Bijection
<1>6. Times(s \o t, x) = Cardinality(P \cup R)
  BY <1>2 DEF Times
<1>7. Times(s, x) = Cardinality(P) /\ Times(t, x) = Cardinality(Q)
  BY <1>1 DEF Times
<1>. HIDE DEF P, Q, R
<1>8. /\ Cardinality(P) \in Nat /\ Cardinality(R) \in Nat
      /\ Cardinality(P \cap R) = 0
  BY <1>3, <1>4, FS_CardinalityType, FS_EmptySet
<1>9. Cardinality(P \cup R) = Cardinality(P) + Cardinality(R) - Cardinality(P \cap R)
  BY <1>3, FS_Union
<1>. QED  BY <1>5, <1>6, <1>7, <1>8, <1>9

(* Flattened lists are appended one after another.                         *)
LEMMA FlattenByParts ==
    ASSUME NEW S, NEW seqs \in Seq(Seq(S))
    PROVE  \E f \in [0 .. Len(seqs) -> Seq(S)] :
              /\ f[0] = << >>
              /\ \A k \in 1 .. Len(seqs) : f[k] = f[k - 1] \o seqs[k]
              /\ FlattenSeq(seqs) = f[Len(seqs)]
<1>. DEFINE n == Len(seqs)
            step == [p \in (1 .. n) \X Seq(S) |-> p[2] \o seqs[p[1]]]
<1>1. n \in Nat /\ \A k \in 1 .. n : seqs[k] \in Seq(S)
  BY LenProperties, ElementOfSeq
<1>2. << >> \in Seq(S)
  BY EmptySeq
<1>3. step \in [(1 .. n) \X Seq(S) -> Seq(S)]
  <2>1. ASSUME NEW p \in (1 .. n) \X Seq(S)
        PROVE  p[2] \o seqs[p[1]] \in Seq(S)
    BY <1>1, ConcatProperties
  <2>. QED  BY <2>1
<1>4. PICK f : Iterates(f, n, Seq(S), << >>, step)
  <2>. HIDE DEF n, step
  <2>. QED  BY <1>1, <1>2, <1>3, IterationExists
<1>5. \A k \in 1 .. n : f[k] = f[k - 1] \o seqs[k]
  <2>1. ASSUME NEW k \in 1 .. n
        PROVE  f[k - 1] \in Seq(S)
    <3>1. k - 1 \in 0 .. n
      BY <1>1
    <3>. QED  BY <1>4, <3>1 DEF Iterates
  <2>2. ASSUME NEW k \in 1 .. n
        PROVE  <<k, f[k - 1]>> \in (1 .. n) \X Seq(S)
    BY <2>1
  <2>. QED  BY <1>4, <2>2 DEF Iterates
<1>6. FlattenSeq(seqs) = f[n]
  <2>1. CASE n = 0
    <3>1. seqs = << >>
      BY <2>1, EmptySeq
    <3>. QED  BY <1>4, <2>1, <3>1 DEF FlattenSeq, Iterates
  <2>2. CASE n # 0
    <3>. DEFINE Defines(g) == g = [i \in 1 .. n |->
                                     IF i = 1 THEN seqs[i] ELSE g[i - 1] \o seqs[i]]
                h == [i \in 1 .. n |-> f[i]]
    <3>1. Defines(h)
      <4>1. ASSUME NEW i \in 1 .. n
            PROVE  f[i] = IF i = 1 THEN seqs[i] ELSE h[i - 1] \o seqs[i]
        <5>1. CASE i = 1
          <6>1. f[1] = << >> \o seqs[1]
            <7>1. 1 \in 1 .. n /\ 1 - 1 = 0
              BY <5>1
            <7>2. f[1] = f[1 - 1] \o seqs[1]
              BY <1>5, <7>1
            <7>. QED  BY <1>4, <7>1, <7>2 DEF Iterates
          <6>2. << >> \o seqs[1] = seqs[1]
            BY <1>1, <5>1, ConcatEmptySeq
          <6>. QED  BY <5>1, <6>1, <6>2
        <5>2. CASE i # 1
          <6>1. i - 1 \in 1 .. n
            BY <1>1, <5>2
          <6>. QED  BY <1>5, <5>2, <6>1
        <5>. QED  BY <5>1, <5>2
      <4>. QED  BY <4>1
    <3>. DEFINE flatten == CHOOSE g : Defines(g)
    <3>2. Defines(flatten)
      <4>1. \E g : Defines(g)
        <5>. HIDE DEF h, Defines
        <5>. QED  BY <3>1
      <4>. HIDE DEF Defines
      <4>. QED  BY <4>1
    <3>3. FlattenSeq(seqs) = flatten[n]
      BY <2>2 DEF FlattenSeq
    <3>. HIDE DEF flatten
    <3>. DEFINE Same == {j \in 0 .. n : j # 0 => flatten[j] = f[j]}
    <3>4. \A i \in 0 .. n : i \in Same
      <4>1. 0 \in Same
        BY <1>1
      <4>2. ASSUME NEW k \in 1 .. n, k - 1 \in Same
            PROVE  k \in Same
        <5>1. flatten[k] = IF k = 1 THEN seqs[k] ELSE flatten[k - 1] \o seqs[k]
          BY <3>2
        <5>2. f[k] = IF k = 1 THEN seqs[k] ELSE h[k - 1] \o seqs[k]
          BY <3>1
        <5>3. k # 1 => flatten[k - 1] = f[k - 1] /\ h[k - 1] = f[k - 1]
          BY <4>2
        <5>. QED  BY <5>1, <5>2, <5>3
      <4>. HIDE DEF Same, Defines, h, n
      <4>. QED  BY <1>1, <4>1, <4>2, UpTo
    <3>5. flatten[n] = f[n]
      BY <1>1, <2>2, <3>4
    <3>. QED  BY <3>3, <3>5
  <2>. QED  BY <2>1, <2>2
<1>. QED  BY <1>4, <1>5, <1>6 DEF Iterates

LEMMA FlattenType ==
    ASSUME NEW S, NEW seqs \in Seq(Seq(S))
    PROVE  FlattenSeq(seqs) \in Seq(S)
<1>1. Len(seqs) \in 0 .. Len(seqs)
  BY LenProperties
<1>2. PICK f \in [0 .. Len(seqs) -> Seq(S)] : FlattenSeq(seqs) = f[Len(seqs)]
  BY FlattenByParts
<1>. QED  BY <1>1, <1>2

(* What is in one of the lists only is in the flattened list as often.     *)
LEMMA TimesFlattened ==
    ASSUME NEW S, NEW seqs \in Seq(Seq(S)), NEW x, NEW m \in 1 .. Len(seqs),
           \A k \in 1 .. Len(seqs) : k # m => Times(seqs[k], x) = 0
    PROVE  Times(FlattenSeq(seqs), x) = Times(seqs[m], x)
<1>1. PICK f \in [0 .. Len(seqs) -> Seq(S)] :
         /\ f[0] = << >>
         /\ \A k \in 1 .. Len(seqs) : f[k] = f[k - 1] \o seqs[k]
         /\ FlattenSeq(seqs) = f[Len(seqs)]
  BY FlattenByParts
<1>2. Len(seqs) \in Nat /\ \A k \in 1 .. Len(seqs) : seqs[k] \in Seq(S)
  BY LenProperties, ElementOfSeq
<1>3. Times(seqs[m], x) \in Nat
  BY <1>2, TimesIsNat
<1>. DEFINE Known == {k \in 0 .. Len(seqs) :
                        Times(f[k], x) = IF k < m THEN 0 ELSE Times(seqs[m], x)}
<1>4. 0 \in Known
  BY <1>1, <1>2, TimesEmpty
<1>5. ASSUME NEW k \in 1 .. Len(seqs), k - 1 \in Known
      PROVE  k \in Known
  <2>1. f[k - 1] \in Seq(S) /\ seqs[k] \in Seq(S) /\ f[k] = f[k - 1] \o seqs[k]
    <3>1. k - 1 \in 0 .. Len(seqs)
      BY <1>2
    <3>. QED  BY <1>1, <1>2, <3>1
  <2>2. Times(f[k], x) = Times(f[k - 1], x) + Times(seqs[k], x)
    BY <2>1, TimesConcat
  <2>3. Times(f[k - 1], x) = IF k - 1 < m THEN 0 ELSE Times(seqs[m], x)
    BY <1>5
  <2>4. Times(seqs[k], x) = IF k = m THEN Times(seqs[m], x) ELSE 0
    OBVIOUS
  <2>. QED  BY <1>2, <1>3, <2>2, <2>3, <2>4
<1>6. \A k \in 0 .. Len(seqs) : k \in Known
  <2>. HIDE DEF Known
  <2>. QED  BY <1>2, <1>4, <1>5, UpTo
<1>. QED  BY <1>1, <1>2, <1>6

(* What is at most once in each list is in the flattened list at most once *)
(* for each.                                                               *)
LEMMA TimesAtMost ==
    ASSUME NEW S, NEW seqs \in Seq(Seq(S)), NEW x,
           \A k \in 1 .. Len(seqs) : Times(seqs[k], x) <= 1
    PROVE  Times(FlattenSeq(seqs), x) <= Len(seqs)
<1>1. PICK f \in [0 .. Len(seqs) -> Seq(S)] :
         /\ f[0] = << >>
         /\ \A k \in 1 .. Len(seqs) : f[k] = f[k - 1] \o seqs[k]
         /\ FlattenSeq(seqs) = f[Len(seqs)]
  BY FlattenByParts
<1>2. Len(seqs) \in Nat /\ \A k \in 1 .. Len(seqs) : seqs[k] \in Seq(S)
  BY LenProperties, ElementOfSeq
<1>. DEFINE Known == {k \in 0 .. Len(seqs) : Times(f[k], x) <= k}
<1>3. 0 \in Known
  BY <1>1, <1>2, TimesEmpty
<1>4. ASSUME NEW k \in 1 .. Len(seqs), k - 1 \in Known
      PROVE  k \in Known
  <2>1. f[k - 1] \in Seq(S) /\ seqs[k] \in Seq(S) /\ f[k] = f[k - 1] \o seqs[k]
    <3>1. k - 1 \in 0 .. Len(seqs)
      BY <1>2
    <3>. QED  BY <1>1, <1>2, <3>1
  <2>2. Times(f[k], x) = Times(f[k - 1], x) + Times(seqs[k], x)
    BY <2>1, TimesConcat
  <2>3. Times(f[k - 1], x) \in Nat /\ Times(seqs[k], x) \in Nat
    BY <2>1, TimesIsNat
  <2>4. Times(f[k - 1], x) <= k - 1 /\ Times(seqs[k], x) <= 1
    BY <1>4
  <2>. QED  BY <1>2, <2>2, <2>3, <2>4
<1>5. \A k \in 0 .. Len(seqs) : k \in Known
  <2>. HIDE DEF Known
  <2>. QED  BY <1>2, <1>3, <1>4, UpTo
<1>. QED  BY <1>1, <1>2, <1>5

LEMMA TimesNowhere ==
    ASSUME NEW S, NEW seqs \in Seq(Seq(S)), NEW x,
           \A k \in 1 .. Len(seqs) : Times(seqs[k], x) = 0
    PROVE  Times(FlattenSeq(seqs), x) = 0
<1>1. Len(seqs) \in Nat
  BY LenProperties
<1>2. CASE Len(seqs) = 0
  <2>1. FlattenSeq(seqs) \in Seq(S) /\ Times(FlattenSeq(seqs), x) \in Nat
    BY FlattenType, TimesIsNat
  <2>2. Times(FlattenSeq(seqs), x) <= Len(seqs)
    <3>1. \A k \in 1 .. Len(seqs) : Times(seqs[k], x) <= 1
      BY <1>2
    <3>. QED  BY <3>1, TimesAtMost
  <2>. QED  BY <1>2, <2>1, <2>2
<1>3. CASE Len(seqs) # 0
  <2>1. 1 \in 1 .. Len(seqs)
    BY <1>1, <1>3
  <2>2. Times(FlattenSeq(seqs), x) = Times(seqs[1], x)
    BY <2>1, TimesFlattened
  <2>. QED  BY <2>1, <2>2
<1>. QED  BY <1>2, <1>3
-----------------------------------------------------------------------------
(* The quarters of the tree. *)

Box == {r \in Rectangle : r.x.min <= r.x.max /\ r.y.min <= r.y.max}

Covers(i, j) == i.min <= j.min /\ j.max <= i.max
CoversBox(r, s) == Covers(r.x, s.x) /\ Covers(r.y, s.y)

(* Two intervals that meet, in one that is cut in half, meet a half both.  *)
LEMMA HalvesShare ==
    ASSUME NEW b \in Interval, NEW e \in Interval, NEW f \in Interval,
           e.min <= e.max, f.min <= f.max, Covers(b, e), Covers(b, f), ~ Apart(e, f)
    PROVE  \/ ~ Apart(e, Low(b)) /\ ~ Apart(f, Low(b))
           \/ ~ Apart(e, High(b)) /\ ~ Apart(f, High(b))
<1>. DEFINE m == b.min + (b.max - b.min) \div 2
<1>1. /\ b.min \in Int /\ b.max \in Int /\ e.min \in Int /\ e.max \in Int
      /\ f.min \in Int /\ f.max \in Int
  BY DEF Interval
<1>2. /\ m \in Int /\ b.min <= m /\ m <= b.max
  BY <1>1 DEF Covers
<1>3. /\ Low(b).min = b.min /\ Low(b).max = m
      /\ High(b).min = m /\ High(b).max = b.max
  BY DEF Low, High
<1>. HIDE DEF m
<1>. QED  BY <1>1, <1>2, <1>3 DEF Apart, Covers

(* So two boxes that meet do meet a quarter both.                          *)
LEMMA QuartersShare ==
    ASSUME NEW b \in Rectangle, NEW r \in Box, NEW s \in Box,
           CoversBox(b, r), CoversBox(b, s), Intersect(r, s)
    PROVE  \E n \in 1 .. 4 : /\ Intersect(r, Quarter(b)[n])
                             /\ Intersect(s, Quarter(b)[n])
<1>1. /\ b.x \in Interval /\ b.y \in Interval /\ r.x \in Interval
      /\ r.y \in Interval /\ s.x \in Interval /\ s.y \in Interval
      /\ r.x.min <= r.x.max /\ r.y.min <= r.y.max
      /\ s.x.min <= s.x.max /\ s.y.min <= s.y.max
  BY DEF Box, Rectangle
<1>2. /\ Covers(b.x, r.x) /\ Covers(b.x, s.x) /\ ~ Apart(r.x, s.x)
      /\ Covers(b.y, r.y) /\ Covers(b.y, s.y) /\ ~ Apart(r.y, s.y)
  BY DEF CoversBox, Intersect
<1>3. \E h \in {Low(b.x), High(b.x)} : ~ Apart(r.x, h) /\ ~ Apart(s.x, h)
  BY <1>1, <1>2, HalvesShare
<1>4. \E h \in {Low(b.y), High(b.y)} : ~ Apart(r.y, h) /\ ~ Apart(s.y, h)
  BY <1>1, <1>2, HalvesShare
<1>5. /\ Quarter(b)[1] = [x |-> Low(b.x), y |-> Low(b.y)]
      /\ Quarter(b)[2] = [x |-> Low(b.x), y |-> High(b.y)]
      /\ Quarter(b)[3] = [x |-> High(b.x), y |-> Low(b.y)]
      /\ Quarter(b)[4] = [x |-> High(b.x), y |-> High(b.y)]
  BY DEF Quarter
<1>6. \E n \in {1, 2, 3, 4} : /\ Intersect(r, Quarter(b)[n])
                              /\ Intersect(s, Quarter(b)[n])
  BY <1>3, <1>4, <1>5 DEF Intersect
<1>. QED  BY <1>6
-----------------------------------------------------------------------------
(* The lists of the tree. *)

(* The list holds the colliders of a set, each once, in the order of their *)
(* slots, with their boxes.                                                *)
Lists(list, I, box) ==
    /\ list \in Seq(ColliderRefAabb)
    /\ \A k \in 1 .. Len(list) : list[k].ColRef \in I
    /\ \A i \in I : \E k \in 1 .. Len(list) : list[k].ColRef = i
    /\ \A k \in 1 .. Len(list) : list[k].Aabb = box[list[k].ColRef]
    /\ \A k, l \in 1 .. Len(list) : k < l => list[k].ColRef < list[l].ColRef

LEMMA EmptyLists == \A box : Lists(<< >>, {}, box)
<1>1. << >> \in Seq(ColliderRefAabb) /\ Len(<< >>) = 0
  BY EmptySeq
<1>. QED  BY <1>1 DEF Lists

LEMMA ListsAppended ==
    ASSUME NEW list, NEW I \in SUBSET Nat, NEW box, Lists(list, I, box),
           NEW i \in Nat, \A j \in I : j < i, box[i] \in Rectangle
    PROVE  Lists(Append(list, [Aabb |-> box[i], ColRef |-> i]), I \cup {i}, box)
<1>. DEFINE e == [Aabb |-> box[i], ColRef |-> i]
            new == Append(list, e)
<1>1. list \in Seq(ColliderRefAabb) /\ e \in ColliderRefAabb
  BY DEF Lists, ColliderRefAabb
<1>2. /\ Len(list) \in Nat
      /\ new \in Seq(ColliderRefAabb)
      /\ Len(new) = Len(list) + 1
      /\ \A k \in 1 .. Len(list) : new[k] = list[k]
      /\ new[Len(list) + 1] = e
  <2>. HIDE DEF e
  <2>. QED  BY <1>1, AppendProperties, LenProperties
<1>3. e.ColRef = i /\ e.Aabb = box[i]
  OBVIOUS
<1>. HIDE DEF new, e
<1>4. \A k \in 1 .. Len(new) : \/ k \in 1 .. Len(list) /\ new[k] = list[k]
                               \/ k = Len(list) + 1 /\ new[k] = e
  BY <1>2
<1>5. \A k \in 1 .. Len(new) : /\ new[k].ColRef \in I \cup {i}
                               /\ new[k].Aabb = box[new[k].ColRef]
  BY <1>3, <1>4 DEF Lists
<1>6. ASSUME NEW j \in I \cup {i}
      PROVE  \E k \in 1 .. Len(new) : new[k].ColRef = j
  <2>1. CASE j = i
    <3>1. Len(list) + 1 \in 1 .. Len(new)
      BY <1>2
    <3>. QED  BY <1>2, <1>3, <2>1, <3>1
  <2>2. CASE j \in I
    <3>1. PICK k \in 1 .. Len(list) : list[k].ColRef = j
      BY <2>2 DEF Lists
    <3>2. k \in 1 .. Len(new)
      BY <1>2
    <3>. QED  BY <1>2, <3>1, <3>2
  <2>. QED  BY <2>1, <2>2
<1>7. ASSUME NEW k \in 1 .. Len(new), NEW l \in 1 .. Len(new), k < l
      PROVE  new[k].ColRef < new[l].ColRef
  <2>1. k \in 1 .. Len(list) /\ new[k] = list[k]
    BY <1>2, <1>7
  <2>2. CASE l \in 1 .. Len(list)
    BY <1>2, <1>7, <2>1, <2>2 DEF Lists
  <2>3. CASE l = Len(list) + 1
    BY <1>2, <1>3, <2>1, <2>3 DEF Lists
  <2>. QED  BY <1>2, <2>2, <2>3
<1>. QED  BY <1>2, <1>5, <1>6, <1>7 DEF Lists, new, e

LEMMA ListsLength ==
    ASSUME NEW list, NEW I \in SUBSET Nat, NEW box, Lists(list, I, box)
    PROVE  IsFiniteSet(I) /\ Cardinality(I) = Len(list)
<1>. DEFINE f == [k \in 1 .. Len(list) |-> list[k].ColRef]
<1>1. Len(list) \in Nat
  BY LenProperties DEF Lists
<1>2. f \in [1 .. Len(list) -> I]
  BY DEF Lists
<1>3. \A k, l \in 1 .. Len(list) : f[k] = f[l] => k = l
  <2>1. \A k, l \in 1 .. Len(list) : k < l => f[k] < f[l]
    BY DEF Lists
  <2>2. \A k \in 1 .. Len(list) : f[k] \in Nat
    BY <1>2
  <2>. HIDE DEF f
  <2>. QED  BY <1>1, <2>1, <2>2
<1>4. \A i \in I : \E k \in 1 .. Len(list) : f[k] = i
  BY DEF Lists
<1>. HIDE DEF f
<1>5. f \in Bijection(1 .. Len(list), I)
  BY <1>2, <1>3, <1>4 DEF Bijection, Injection, Surjection, IsInjective
<1>6. ExistsBijection(1 .. Len(list), I)
  BY <1>5 DEF ExistsBijection
<1>7. IsFiniteSet(1 .. Len(list)) /\ Cardinality(1 .. Len(list)) = Len(list)
  <2>. DEFINE n == Len(list)
  <2>1. n \in Int /\ 1 \in Int
    BY <1>1
  <2>. HIDE DEF n
  <2>2. IsFiniteSet(1 .. n) /\ Cardinality(1 .. n) = IF 1 > n THEN 0 ELSE n - 1 + 1
    BY <2>1, FS_Interval
  <2>. QED  BY <1>1, <2>2 DEF n
<1>. QED  BY <1>6, <1>7, FS_Bijection

(* The two loops over a list look at each pair of its colliders once, the  *)
(* lower slot first, and at nothing else.                                  *)
PairsIn(I) == {p \in I \X I : p[1] < p[2]}

LEMMA PairsOfLists ==
    ASSUME NEW list, NEW I \in SUBSET Nat, NEW box, Lists(list, I, box)
    PROVE  /\ PairsOf(list) \in Seq(PairsIn(I))
           /\ \A i, j \in Nat : i < j =>
                 Times(PairsOf(list), <<i, j>>) = IF i \in I /\ j \in I THEN 1 ELSE 0
<1>. DEFINE n == Len(list)
            row(i) == [k \in 1 .. n - i |-> <<list[i].ColRef, list[i + k].ColRef>>]
            rows == [i \in 1 .. n |-> row(i)]
<1>1. n \in Nat
  BY LenProperties DEF Lists
<1>2. \A k \in 1 .. n : list[k].ColRef \in I
  BY DEF Lists
<1>3. \A k, l \in 1 .. n : k < l => list[k].ColRef < list[l].ColRef
  BY DEF Lists
<1>4. ASSUME NEW i \in 1 .. n
      PROVE  row(i) \in Seq(PairsIn(I)) /\ Len(row(i)) = n - i
  <2>1. n - i \in Nat
    BY <1>1
  <2>2. ASSUME NEW k \in 1 .. n - i
        PROVE  <<list[i].ColRef, list[i + k].ColRef>> \in PairsIn(I)
    <3>1. i + k \in 1 .. n /\ i < i + k
      BY <1>1
    <3>. HIDE DEF n
    <3>. QED  BY <1>2, <1>3, <3>1 DEF PairsIn
  <2>3. row(i) \in [1 .. n - i -> PairsIn(I)]
    BY <2>2
  <2>. HIDE DEF row, n
  <2>. QED  BY <2>1, <2>3, SeqDef
<1>5. rows \in Seq(Seq(PairsIn(I))) /\ Len(rows) = n
  <2>1. rows \in [1 .. n -> Seq(PairsIn(I))]
    BY <1>4
  <2>. HIDE DEF rows, n
  <2>. QED  BY <1>1, <2>1, SeqDef
<1>6. PairsOf(list) = FlattenSeq(rows)
  BY DEF PairsOf
<1>7. PairsOf(list) \in Seq(PairsIn(I))
  <2>. HIDE DEF rows
  <2>. QED  BY <1>5, <1>6, FlattenType
<1>8. ASSUME NEW i \in Nat, NEW j \in Nat, i < j
      PROVE  Times(PairsOf(list), <<i, j>>) = IF i \in I /\ j \in I THEN 1 ELSE 0
  <2>0. ASSUME NEW m \in 1 .. n, NEW k \in 1 .. n - m, row(m)[k] = <<i, j>>
        PROVE  list[m].ColRef = i /\ list[m + k].ColRef = j /\ m + k \in 1 .. n
    BY <1>1, <2>0
  <2>1. CASE i \in I /\ j \in I
    <3>1. PICK p \in 1 .. n : list[p].ColRef = i
      BY <2>1 DEF Lists
    <3>2. PICK q \in 1 .. n : list[q].ColRef = j
      BY <2>1 DEF Lists
    <3>3. p < q
      BY <1>1, <1>3, <1>8, <3>1, <3>2
    <3>4. q - p \in 1 .. n - p
      BY <1>1, <3>3
    <3>5. \A k \in 1 .. n : list[k].ColRef \in Nat
      BY <1>2
    <3>6. /\ \A k \in 1 .. n : list[k].ColRef = i => k = p
          /\ \A k \in 1 .. n : list[k].ColRef = j => k = q
      <4>. HIDE DEF n
      <4>. QED  BY <1>1, <1>3, <3>1, <3>2, <3>5
    <3>7. \A k \in 1 .. n - p : row(p)[k] = <<i, j>> <=> k = q - p
      <4>1. row(p)[q - p] = <<i, j>>
        <5>1. p + (q - p) = q
          BY <1>1
        <5>. QED  BY <3>1, <3>2, <3>4, <5>1
      <4>2. ASSUME NEW k \in 1 .. n - p, row(p)[k] = <<i, j>>
            PROVE  k = q - p
        <5>1. list[p + k].ColRef = j /\ p + k \in 1 .. n
          BY <2>0, <4>2
        <5>2. p + k = q
          BY <3>6, <5>1
        <5>. QED  BY <1>1, <5>2
      <4>. HIDE DEF row
      <4>. QED  BY <4>1, <4>2
    <3>8. Times(row(p), <<i, j>>) = 1
      <4>. DEFINE s == row(p)
                  m == q - p
      <4>1. s \in Seq(PairsIn(I)) /\ Len(s) = n - p
        BY <1>4
      <4>2. m \in 1 .. Len(s) /\ \A k \in 1 .. Len(s) : s[k] = <<i, j>> <=> k = m
        BY <3>4, <3>7, <4>1
      <4>. HIDE DEF s, m, row, n
      <4>3. Times(s, <<i, j>>) = 1
        BY <4>1, <4>2, TimesOne
      <4>. QED  BY <4>3 DEF s
    <3>9. ASSUME NEW m \in 1 .. n, m # p
          PROVE  Times(rows[m], <<i, j>>) = 0
      <4>1. \A k \in 1 .. n - m : row(m)[k] # <<i, j>>
        BY <2>0, <3>6, <3>9
      <4>2. Times(row(m), <<i, j>>) = 0
        <5>. HIDE DEF row
        <5>. QED  BY <1>4, <4>1, TimesNone
      <4>. QED  BY <4>2
    <3>10. Times(rows[p], <<i, j>>) = 1
      BY <3>8
    <3>. HIDE DEF rows, n
    <3>11. Times(FlattenSeq(rows), <<i, j>>) = Times(rows[p], <<i, j>>)
      BY <1>5, <3>9, TimesFlattened
    <3>. QED  BY <1>6, <2>1, <3>10, <3>11
  <2>2. CASE ~ (i \in I /\ j \in I)
    <3>1. ASSUME NEW m \in 1 .. n
          PROVE  Times(rows[m], <<i, j>>) = 0
      <4>1. \A k \in 1 .. n - m : row(m)[k] # <<i, j>>
        BY <1>2, <2>0, <2>2
      <4>2. Times(row(m), <<i, j>>) = 0
        <5>. HIDE DEF row
        <5>. QED  BY <1>4, <4>1, TimesNone
      <4>. QED  BY <4>2
    <3>. HIDE DEF rows, n
    <3>2. Times(FlattenSeq(rows), <<i, j>>) = 0
      BY <1>5, <3>1, TimesNowhere
    <3>. QED  BY <1>6, <2>2, <3>2
  <2>. QED  BY <2>1, <2>2
<1>. QED  BY <1>7, <1>8
-----------------------------------------------------------------------------
(* The tree. *)

TreeType == [Bounds : Rectangle, divided : BOOLEAN, root : Seq(ColliderRefAabb),
             Children : [1 .. 4 -> Seq(ColliderRefAabb)]]

Meets(I, box, quarter) == {i \in I : Intersect(box[i], quarter)}

(* The children hold the colliders of a set, each those it meets.          *)
InChildren(t, I, box) ==
    /\ t \in TreeType
    /\ t.divided
    /\ \A n \in 1 .. 4 : Lists(t.Children[n], Meets(I, box, Quarter(t.Bounds)[n]), box)

NoChildren(t) == \A n \in 1 .. 4 : t.Children[n] = << >>

(* A tree of the colliders of a set: in the root as long as there is room. *)
Holds(t, I, box) ==
    /\ t \in TreeType
    /\ IsFiniteSet(I)
    /\ IF t.divided
       THEN InChildren(t, I, box) /\ Cardinality(I) > MaxColNbr
       ELSE /\ Lists(t.root, I, box)
            /\ NoChildren(t)
            /\ Cardinality(I) <= MaxColNbr

Entry(box, i) == [Aabb |-> box[i], ColRef |-> i]

LEMMA InsertInChildrenType ==
    ASSUME NEW t \in TreeType, NEW e \in ColliderRefAabb
    PROVE  /\ InsertInChildren(t, e) \in TreeType
           /\ InsertInChildren(t, e).Bounds = t.Bounds
           /\ InsertInChildren(t, e).divided = t.divided
           /\ \A n \in 1 .. 4 : InsertInChildren(t, e).Children[n] =
                 IF Intersect(e.Aabb, Quarter(t.Bounds)[n])
                 THEN Append(t.Children[n], e) ELSE t.Children[n]
<1>. DEFINE u == InsertInChildren(t, e)
            children == [n \in 1 .. 4 |-> IF Intersect(e.Aabb, Quarter(t.Bounds)[n])
                                          THEN Append(t.Children[n], e)
                                          ELSE t.Children[n]]
<1>1. /\ t.Bounds \in Rectangle /\ t.divided \in BOOLEAN
      /\ t.root \in Seq(ColliderRefAabb)
      /\ t.Children \in [1 .. 4 -> Seq(ColliderRefAabb)]
      /\ DOMAIN t = {"Bounds", "divided", "root", "Children"}
  BY DEF TreeType
<1>2. \A n \in 1 .. 4 : Append(t.Children[n], e) \in Seq(ColliderRefAabb)
  BY <1>1, AppendProperties
<1>3. children \in [1 .. 4 -> Seq(ColliderRefAabb)]
  BY <1>1, <1>2
<1>4. u = [t EXCEPT !.Children = children]
  BY DEF InsertInChildren
<1>. HIDE DEF u, children
<1>5. u \in TreeType /\ u.Children = children /\ u.Bounds = t.Bounds /\ u.divided = t.divided
  BY <1>3, <1>4 DEF TreeType
<1>. QED  BY <1>5 DEF children, u

LEMMA ChildrenInserted ==
    ASSUME NEW t, NEW I \in SUBSET Nat, NEW box, InChildren(t, I, box),
           NEW i \in Nat, \A j \in I : j < i, box[i] \in Rectangle
    PROVE  /\ InChildren(InsertInChildren(t, Entry(box, i)), I \cup {i}, box)
           /\ InsertInChildren(t, Entry(box, i)).Bounds = t.Bounds
<1>. DEFINE e == Entry(box, i)
            u == InsertInChildren(t, e)
<1>1. e \in ColliderRefAabb /\ e.Aabb = box[i] /\ t \in TreeType
  BY DEF Entry, ColliderRefAabb, InChildren
<1>2. /\ u \in TreeType /\ u.Bounds = t.Bounds /\ u.divided = t.divided
      /\ \A n \in 1 .. 4 : u.Children[n] =
            IF Intersect(box[i], Quarter(t.Bounds)[n])
            THEN Append(t.Children[n], e) ELSE t.Children[n]
  <2>. HIDE DEF e
  <2>. QED  BY <1>1, InsertInChildrenType
<1>3. ASSUME NEW n \in 1 .. 4
      PROVE  Lists(u.Children[n], Meets(I \cup {i}, box, Quarter(u.Bounds)[n]), box)
  <2>. DEFINE q == Quarter(t.Bounds)[n]
              list == t.Children[n]
              J == Meets(I, box, q)
  <2>1. Lists(list, J, box)
    BY DEF InChildren
  <2>2. J \in SUBSET Nat /\ \A j \in J : j < i
    BY DEF Meets
  <2>3. CASE Intersect(box[i], q)
    <3>1. Meets(I \cup {i}, box, q) = J \cup {i}
      BY <2>3 DEF Meets
    <3>2. u.Children[n] = Append(list, [Aabb |-> box[i], ColRef |-> i])
      BY <1>2, <2>3 DEF Entry
    <3>3. Quarter(u.Bounds)[n] = q
      BY <1>2
    <3>. HIDE DEF J, q, list, u, e
    <3>. QED  BY <2>1, <2>2, <3>1, <3>2, <3>3, ListsAppended
  <2>4. CASE ~ Intersect(box[i], q)
    <3>1. Meets(I \cup {i}, box, q) = J
      BY <2>4 DEF Meets
    <3>2. u.Children[n] = list
      BY <1>2, <2>4
    <3>3. Quarter(u.Bounds)[n] = q
      BY <1>2
    <3>. HIDE DEF J, q, list, u, e
    <3>. QED  BY <2>1, <3>1, <3>2, <3>3
  <2>. QED  BY <2>3, <2>4
<1>4. u.divided
  BY <1>2 DEF InChildren
<1>. HIDE DEF u, e
<1>5. InChildren(u, I \cup {i}, box) /\ u.Bounds = t.Bounds
  BY <1>2, <1>3, <1>4 DEF InChildren
<1>. QED  BY <1>5 DEF u, e

(* The division of the root: its colliders and the new one go to the       *)
(* children, one after another.                                            *)
LEMMA Subdivided ==
    ASSUME NEW t \in TreeType, NEW I \in SUBSET Nat, NEW box, Lists(t.root, I, box),
           NoChildren(t),
           NEW i \in Nat, \A j \in I : j < i, \A j \in I \cup {i} : box[j] \in Rectangle
    PROVE  /\ InChildren(Subdivide(t, Entry(box, i)), I \cup {i}, box)
           /\ Subdivide(t, Entry(box, i)).Bounds = t.Bounds
<1>. DEFINE e == Entry(box, i)
            entries == Append(t.root, e)
            n == Len(entries)
            first == [t EXCEPT !.divided = TRUE, !.root = << >>]
            Defines(g) == g = [k \in 0 .. n |-> IF k = 0 THEN first
                                 ELSE InsertInChildren(g[k - 1], entries[k])]
            moved == CHOOSE g : Defines(g)
            Sofar(k) == {entries[j].ColRef : j \in 1 .. k}
<1>1. Lists(entries, I \cup {i}, box)
  BY ListsAppended DEF Entry
<1>2. Subdivide(t, e) = moved[n]
  BY DEF Subdivide
<1>3. first \in TreeType /\ first.divided /\ first.Bounds = t.Bounds
      /\ first.Children = t.Children
  <2>1. << >> \in Seq(ColliderRefAabb)
    BY EmptySeq
  <2>. QED  BY <2>1 DEF TreeType
<1>. HIDE DEF entries, first
<1>4. n \in Nat /\ \A k \in 1 .. n : entries[k] \in ColliderRefAabb
  BY <1>1, LenProperties, ElementOfSeq DEF Lists
<1>. HIDE DEF n
<1>5. Defines(moved)
  <2>. DEFINE step == [p \in (1 .. n) \X TreeType |-> InsertInChildren(p[2], entries[p[1]])]
  <2>1. step \in [(1 .. n) \X TreeType -> TreeType]
    BY <1>4, InsertInChildrenType
  <2>2. PICK f : Iterates(f, n, TreeType, first, step)
    <3>. HIDE DEF step
    <3>. QED  BY <1>3, <1>4, <2>1, IterationExists
  <2>3. Defines(f)
    <3>1. ASSUME NEW k \in 0 .. n
          PROVE  f[k] = IF k = 0 THEN first ELSE InsertInChildren(f[k - 1], entries[k])
      <4>1. CASE k = 0
        BY <2>2, <4>1 DEF Iterates
      <4>2. CASE k # 0
        <5>1. k \in 1 .. n /\ k - 1 \in 0 .. n
          BY <1>4, <4>2
        <5>2. f[k - 1] \in TreeType
          BY <2>2, <5>1 DEF Iterates
        <5>3. <<k, f[k - 1]>> \in (1 .. n) \X TreeType
          BY <5>1, <5>2
        <5>4. step[<<k, f[k - 1]>>] = InsertInChildren(f[k - 1], entries[k])
          BY <5>3
        <5>. HIDE DEF step
        <5>. QED  BY <2>2, <4>2, <5>1, <5>4 DEF Iterates
      <4>. QED  BY <4>1, <4>2
    <3>2. f = [k \in 0 .. n |-> f[k]]
      BY <2>2 DEF Iterates
    <3>. HIDE DEF step
    <3>. QED  BY <3>1, <3>2
  <2>4. \E g : Defines(g)
    <3>. HIDE DEF Defines
    <3>. QED  BY <2>3
  <2>. HIDE DEF Defines
  <2>. QED  BY <2>4
<1>. HIDE DEF moved
<1>6. moved[0] = first
  BY <1>4, <1>5
<1>7. ASSUME NEW k \in 1 .. n
      PROVE  moved[k] = InsertInChildren(moved[k - 1], entries[k])
  BY <1>4, <1>5
<1>. HIDE DEF Defines
<1>. DEFINE Done == {k \in 0 .. n : InChildren(moved[k], Sofar(k), box)
                                    /\ moved[k].Bounds = t.Bounds}
<1>8. 0 \in Done
  <2>1. Sofar(0) = {}
    OBVIOUS
  <2>2. \A m \in 1 .. 4 : Meets({}, box, Quarter(first.Bounds)[m]) = {}
    BY DEF Meets
  <2>3. ASSUME NEW m \in 1 .. 4
        PROVE  Lists(first.Children[m], Meets({}, box, Quarter(first.Bounds)[m]), box)
    <3>1. first.Children[m] = << >>
      BY <1>3 DEF NoChildren
    <3>. QED  BY <2>2, <3>1, EmptyLists
  <2>4. InChildren(first, {}, box)
    BY <1>3, <2>3 DEF InChildren
  <2>. HIDE DEF Sofar
  <2>5. InChildren(moved[0], Sofar(0), box) /\ moved[0].Bounds = t.Bounds
    BY <1>3, <1>6, <2>1, <2>4
  <2>6. 0 \in 0 .. n
    BY <1>4
  <2>. QED  BY <2>5, <2>6
<1>9. ASSUME NEW k \in 1 .. n, k - 1 \in Done
      PROVE  k \in Done
  <2>. DEFINE j == entries[k].ColRef
  <2>1. j \in I \cup {i} /\ entries[k].Aabb = box[j]
    BY <1>1 DEF Lists, n
  <2>2. entries[k] = Entry(box, j)
    BY <1>4, <2>1 DEF Entry, ColliderRefAabb
  <2>3. Sofar(k) = Sofar(k - 1) \cup {j}
    <3>1. 1 .. k = (1 .. k - 1) \cup {k}
      BY <1>4
    <3>. QED  BY <3>1
  <2>4. \A l \in 1 .. k - 1 : entries[l].ColRef < j
    BY <1>1, <1>4 DEF Lists, n
  <2>5. Sofar(k - 1) \in SUBSET Nat
    <3>1. \A l \in 1 .. n : entries[l].ColRef \in Nat
      BY <1>4 DEF ColliderRefAabb
    <3>2. 1 .. k - 1 \subseteq 1 .. n
      BY <1>4
    <3>. QED  BY <3>1, <3>2
  <2>6. \A l \in Sofar(k - 1) : l < j
    BY <2>4
  <2>7. InChildren(moved[k - 1], Sofar(k - 1), box) /\ moved[k - 1].Bounds = t.Bounds
    BY <1>9
  <2>8. j \in Nat /\ box[j] \in Rectangle
    BY <2>1
  <2>. DEFINE u == moved[k - 1]
              K == Sofar(k - 1)
  <2>9. InChildren(InsertInChildren(u, Entry(box, j)), K \cup {j}, box)
        /\ InsertInChildren(u, Entry(box, j)).Bounds = u.Bounds
    <3>. HIDE DEF u, K, j, e, Sofar, Done
    <3>1. InChildren(u, K, box)
      BY <2>7 DEF u, K
    <3>2. K \in SUBSET Nat /\ \A l \in K : l < j
      BY <2>5, <2>6 DEF K
    <3>. QED  BY <2>8, <3>1, <3>2, ChildrenInserted
  <2>10. moved[k] = InsertInChildren(u, Entry(box, j))
    <3>. HIDE DEF j, e, Sofar, Done
    <3>. QED  BY <1>7, <2>2
  <2>11. InChildren(moved[k], Sofar(k), box) /\ moved[k].Bounds = t.Bounds
    <3>. HIDE DEF j, e, Sofar, Done
    <3>. QED  BY <2>3, <2>7, <2>9, <2>10
  <2>12. k \in 0 .. n
    BY <1>4
  <2>. QED  BY <2>11, <2>12
<1>10. n \in Done
  <2>. HIDE DEF Done
  <2>1. \A k \in 0 .. n : k \in Done
    BY <1>4, <1>8, <1>9, UpTo
  <2>. QED  BY <1>4, <2>1
<1>11. Sofar(n) = I \cup {i}
  <2>1. \A j \in I \cup {i} : \E k \in 1 .. n : entries[k].ColRef = j
    BY <1>1 DEF Lists, n
  <2>2. \A k \in 1 .. n : entries[k].ColRef \in I \cup {i}
    BY <1>1 DEF Lists, n
  <2>. QED  BY <2>1, <2>2
<1>. HIDE DEF Sofar
<1>. QED  BY <1>2, <1>10, <1>11

(* Insert() at the root.                                                   *)
LEMMA InsertHolds ==
    ASSUME NEW t, NEW I \in SUBSET Nat, NEW box, Holds(t, I, box),
           NEW i \in Nat, \A j \in I : j < i, \A j \in I \cup {i} : box[j] \in Rectangle
    PROVE  /\ Holds(Insert(t, Entry(box, i)), I \cup {i}, box)
           /\ Insert(t, Entry(box, i)).Bounds = t.Bounds
<1>. DEFINE e == Entry(box, i)
<1>1. /\ t \in TreeType /\ IsFiniteSet(I) /\ Cardinality(I) \in Nat
      /\ MaxColNbr \in Nat \ {0}
  BY FS_CardinalityType, MaxColNbrAssumption DEF Holds
<1>2. IsFiniteSet(I \cup {i}) /\ Cardinality(I \cup {i}) = Cardinality(I) + 1
  <2>1. i \notin I
    OBVIOUS
  <2>. QED  BY <1>1, <2>1, FS_AddElement
<1>3. CASE t.divided
  <2>1. InChildren(t, I, box) /\ Cardinality(I) > MaxColNbr
    BY <1>3 DEF Holds
  <2>2. Insert(t, e) = InsertInChildren(t, e)
    BY <1>3 DEF Insert
  <2>3. /\ InChildren(InsertInChildren(t, e), I \cup {i}, box)
        /\ InsertInChildren(t, e).Bounds = t.Bounds
    BY <2>1, ChildrenInserted
  <2>4. Cardinality(I \cup {i}) > MaxColNbr
    BY <1>1, <1>2, <2>1
  <2>. HIDE DEF e
  <2>5. Holds(Insert(t, e), I \cup {i}, box) /\ Insert(t, e).Bounds = t.Bounds
    BY <1>2, <2>2, <2>3, <2>4 DEF Holds, InChildren
  <2>. QED  BY <2>5 DEF e
<1>4. CASE ~ t.divided
  <2>1. /\ Lists(t.root, I, box) /\ Cardinality(I) <= MaxColNbr
        /\ NoChildren(t)
    BY <1>4 DEF Holds
  <2>2. Len(t.root) = Cardinality(I)
    BY <2>1, ListsLength
  <2>3. CASE Len(t.root) >= MaxColNbr
    <3>1. Insert(t, e) = Subdivide(t, e)
      BY <1>4, <2>3 DEF Insert
    <3>2. /\ InChildren(Subdivide(t, e), I \cup {i}, box)
          /\ Subdivide(t, e).Bounds = t.Bounds
      <4>. HIDE DEF e
      <4>1. /\ InChildren(Subdivide(t, Entry(box, i)), I \cup {i}, box)
            /\ Subdivide(t, Entry(box, i)).Bounds = t.Bounds
        BY <1>1, <2>1, Subdivided
      <4>. QED  BY <4>1 DEF e
    <3>3. Cardinality(I \cup {i}) > MaxColNbr
      BY <1>1, <1>2, <2>2, <2>3
    <3>. HIDE DEF e
    <3>4. Holds(Insert(t, e), I \cup {i}, box) /\ Insert(t, e).Bounds = t.Bounds
      BY <1>2, <3>1, <3>2, <3>3 DEF Holds, InChildren
    <3>. QED  BY <3>4 DEF e
  <2>4. CASE ~ Len(t.root) >= MaxColNbr
    <3>1. Insert(t, e) = [t EXCEPT !.root = Append(@, e)]
      BY <1>4, <2>4 DEF Insert
    <3>2. Lists(Append(t.root, e), I \cup {i}, box)
      BY <2>1, ListsAppended DEF Entry
    <3>3. Append(t.root, e) \in Seq(ColliderRefAabb)
      BY <3>2 DEF Lists
    <3>. HIDE DEF e
    <3>4. /\ Insert(t, e) \in TreeType
          /\ Insert(t, e).root = Append(t.root, e)
          /\ Insert(t, e).Bounds = t.Bounds
          /\ Insert(t, e).divided = t.divided
          /\ Insert(t, e).Children = t.Children
      BY <1>1, <3>1, <3>3 DEF TreeType
    <3>5. Cardinality(I \cup {i}) <= MaxColNbr
      BY <1>1, <1>2, <2>2, <2>4
    <3>6. Holds(Insert(t, e), I \cup {i}, box) /\ Insert(t, e).Bounds = t.Bounds
      BY <1>2, <1>4, <2>1, <3>2, <3>4, <3>5 DEF Holds, NoChildren
    <3>. QED  BY <3>6 DEF e
  <2>. QED  BY <2>3, <2>4
<1>. QED  BY <1>3, <1>4
(* The list holds what it should. *)
LEMMA EntriesOfLists ==
    ASSUME NEW list, NEW I \in SUBSET Nat, NEW box, Lists(list, I, box)
    PROVE  ToSet(list) = {Entry(box, i) : i \in I}
<1>1. DOMAIN list = 1 .. Len(list) /\ \A k \in 1 .. Len(list) : list[k] \in ColliderRefAabb
  BY LenProperties, ElementOfSeq DEF Lists
<1>2. \A k \in 1 .. Len(list) : list[k] = Entry(box, list[k].ColRef)
  BY <1>1 DEF Lists, Entry, ColliderRefAabb
<1>3. ASSUME NEW e \in ToSet(list)
      PROVE  e \in {Entry(box, i) : i \in I}
  <2>1. PICK k \in 1 .. Len(list) : e = list[k]
    BY <1>1 DEF ToSet
  <2>2. list[k].ColRef \in I
    BY DEF Lists
  <2>. QED  BY <1>2, <2>1, <2>2
<1>4. ASSUME NEW i \in I
      PROVE  Entry(box, i) \in ToSet(list)
  <2>1. PICK k \in 1 .. Len(list) : list[k].ColRef = i
    BY DEF Lists
  <2>2. list[k] = Entry(box, i)
    BY <1>2, <2>1
  <2>. QED  BY <1>1, <2>2 DEF ToSet
<1>. QED  BY <1>3, <1>4

(* The leaves: the root, or its children. *)
LEMMA LeavesHold ==
    ASSUME NEW t, NEW I \in SUBSET Nat, NEW box, Holds(t, I, box)
    PROVE  \/ /\ ~ t.divided /\ Cardinality(I) <= MaxColNbr
              /\ DOMAIN Leaves(t) = 1 .. 1
              /\ Lists(Leaves(t)[1], I, box)
           \/ /\ t.divided /\ Cardinality(I) > MaxColNbr
              /\ DOMAIN Leaves(t) = 1 .. 4
              /\ \A n \in 1 .. 4 :
                    Lists(Leaves(t)[n], Meets(I, box, Quarter(t.Bounds)[n]), box)
<1>1. CASE t.divided
  <2>1. Leaves(t) = t.Children /\ InChildren(t, I, box) /\ Cardinality(I) > MaxColNbr
    BY <1>1 DEF Leaves, Holds
  <2>2. DOMAIN t.Children = 1 .. 4
    BY <2>1 DEF InChildren, TreeType
  <2>. QED  BY <1>1, <2>1, <2>2 DEF InChildren
<1>2. CASE ~ t.divided
  <2>1. Leaves(t) = <<t.root>> /\ Lists(t.root, I, box) /\ Cardinality(I) <= MaxColNbr
    BY <1>2 DEF Leaves, Holds
  <2>2. DOMAIN <<t.root>> = 1 .. 1 /\ <<t.root>>[1] = t.root
    OBVIOUS
  <2>. QED  BY <1>2, <2>1, <2>2
<1>. QED  BY <1>1, <1>2

LEMMA FunctionIsSeq ==
    ASSUME NEW S, NEW n \in Nat, NEW f \in [1 .. n -> S]
    PROVE  f \in Seq(S) /\ Len(f) = n
BY SeqDef

(* Boxes in the bounds of the tree: two that meet are in a leaf both.      *)
SharesLeaves(t, I) ==
    LET leaves   == {ToSet(leaf) : leaf \in ToSet(Leaves(t))}
        inserted == UNION leaves
    IN  /\ {e.ColRef : e \in inserted} = I
        /\ \A e, f \in inserted :
              Intersect(e.Aabb, f.Aabb) => \E leaf \in leaves : {e, f} \subseteq leaf

LEMMA LeavesShared ==
    ASSUME NEW t, NEW I \in SUBSET Nat, NEW box, Holds(t, I, box),
           \A i \in I : box[i] \in Box /\ CoversBox(t.Bounds, box[i])
    PROVE  SharesLeaves(t, I)
<1>0. \/ ~ t.divided /\ DOMAIN Leaves(t) = 1 .. 1 /\ Lists(Leaves(t)[1], I, box)
      \/ /\ t.divided /\ DOMAIN Leaves(t) = 1 .. 4
         /\ \A n \in 1 .. 4 :
               Lists(Leaves(t)[n], Meets(I, box, Quarter(t.Bounds)[n]), box)
  BY LeavesHold
<1>. DEFINE leaves   == {ToSet(l) : l \in ToSet(Leaves(t))}
            inserted == UNION leaves
            leaf(n)  == ToSet(Leaves(t)[n])
            held(n)  == IF t.divided THEN Meets(I, box, Quarter(t.Bounds)[n]) ELSE I
<1>1. ASSUME NEW n \in DOMAIN Leaves(t)
      PROVE  leaf(n) = {Entry(box, i) : i \in held(n)} /\ held(n) \in SUBSET I
  <2>1. Lists(Leaves(t)[n], held(n), box)
    BY <1>0
  <2>2. held(n) \in SUBSET I
    BY DEF Meets
  <2>. DEFINE list == Leaves(t)[n]
              J == held(n)
  <2>3. J \in SUBSET Nat /\ Lists(list, J, box)
    BY <2>1, <2>2
  <2>4. ToSet(list) = {Entry(box, i) : i \in J}
    <3>. HIDE DEF list, J, held
    <3>. QED  BY <2>3, EntriesOfLists
  <2>. HIDE DEF held
  <2>. QED  BY <2>2, <2>4
<1>2. leaves = {leaf(n) : n \in DOMAIN Leaves(t)}
  <2>1. ToSet(Leaves(t)) = {Leaves(t)[n] : n \in DOMAIN Leaves(t)}
    BY DEF ToSet
  <2>. QED  BY <2>1
<1>3. ASSUME NEW i \in I, NEW j \in I, Intersect(box[i], box[j])
      PROVE  \E n \in DOMAIN Leaves(t) : i \in held(n) /\ j \in held(n)
  <2>1. CASE t.divided
    <3>1. DOMAIN Leaves(t) = 1 .. 4
      BY <1>0, <2>1
    <3>2. t.Bounds \in Rectangle
      BY DEF Holds, TreeType
    <3>3. PICK n \in 1 .. 4 : /\ Intersect(box[i], Quarter(t.Bounds)[n])
                              /\ Intersect(box[j], Quarter(t.Bounds)[n])
      BY <1>3, <3>2, QuartersShare
    <3>4. i \in held(n) /\ j \in held(n)
      BY <2>1, <3>3 DEF Meets
    <3>. QED  BY <3>1, <3>4
  <2>2. CASE ~ t.divided
    <3>1. 1 \in DOMAIN Leaves(t)
      BY <1>0, <2>2
    <3>. QED  BY <2>2, <3>1
  <2>. QED  BY <2>1, <2>2
<1>4. ASSUME NEW i \in I
      PROVE  Intersect(box[i], box[i])
  <2>. DEFINE r == box[i]
  <2>1. r \in Box
    OBVIOUS
  <2>. HIDE DEF r
  <2>2. /\ r.x.min \in Int /\ r.x.max \in Int /\ r.x.min <= r.x.max
        /\ r.y.min \in Int /\ r.y.max \in Int /\ r.y.min <= r.y.max
    BY <2>1 DEF Box, Rectangle, Interval
  <2>3. Intersect(r, r)
    BY <2>2 DEF Intersect, Apart
  <2>. QED  BY <2>3 DEF r
<1>5. \A i : Entry(box, i).ColRef = i /\ Entry(box, i).Aabb = box[i]
  BY DEF Entry
<1>. HIDE DEF leaf, held
<1>6. ASSUME NEW e \in inserted
      PROVE  \E i \in I : e = Entry(box, i)
  <2>1. PICK n \in DOMAIN Leaves(t) : e \in leaf(n)
    BY <1>2
  <2>. QED  BY <1>1, <2>1
<1>7. ASSUME NEW i \in I, NEW j \in I, Intersect(box[i], box[j])
      PROVE  \E l \in leaves : {Entry(box, i), Entry(box, j)} \subseteq l
  <2>1. PICK n \in DOMAIN Leaves(t) : i \in held(n) /\ j \in held(n)
    BY <1>3, <1>7
  <2>2. Entry(box, i) \in leaf(n) /\ Entry(box, j) \in leaf(n) /\ leaf(n) \in leaves
    BY <1>1, <1>2, <2>1
  <2>. HIDE DEF leaves
  <2>. QED  BY <2>2
<1>8. \A i \in I : Entry(box, i) \in inserted
  BY <1>4, <1>7
<1>. HIDE DEF leaves
<1>9. {e.ColRef : e \in inserted} = I
  <2>. HIDE DEF inserted
  <2>1. \A e \in inserted : e.ColRef \in I
    BY <1>5, <1>6
  <2>2. ASSUME NEW i \in I
        PROVE  \E e \in inserted : e.ColRef = i
    BY <1>5, <1>8
  <2>. QED  BY <2>1, <2>2
<1>10. ASSUME NEW e \in inserted, NEW f \in inserted, Intersect(e.Aabb, f.Aabb)
       PROVE  \E l \in leaves : {e, f} \subseteq l
  <2>1. PICK i \in I : e = Entry(box, i)
    BY <1>6
  <2>2. PICK j \in I : f = Entry(box, j)
    BY <1>6
  <2>. QED  BY <1>5, <1>7, <1>10, <2>1, <2>2
<1>. QED  BY <1>9, <1>10 DEF SharesLeaves, leaves

(* The pairs of the tree: each at most four times, in a root that is not   *)
(* divided once.                                                           *)
LEMMA PairsOfTheTree ==
    ASSUME NEW t, NEW I \in SUBSET Nat, NEW box, Holds(t, I, box)
    PROVE  /\ PairsOfTree(t) \in Seq(PairsIn(I))
           /\ \A i, j \in I : i < j =>
                 /\ Times(PairsOfTree(t), <<i, j>>) <= 4
                 /\ Cardinality(I) <= MaxColNbr => Times(PairsOfTree(t), <<i, j>>) = 1
<1>. DEFINE lists == [n \in DOMAIN Leaves(t) |-> PairsOf(Leaves(t)[n])]
<1>1. PairsOfTree(t) = FlattenSeq(lists)
  BY DEF PairsOfTree
<1>2. Cardinality(I) \in Nat /\ MaxColNbr \in Nat
  BY FS_CardinalityType, MaxColNbrAssumption DEF Holds
<1>3. CASE ~ t.divided
  <2>1. DOMAIN Leaves(t) = 1 .. 1 /\ Lists(Leaves(t)[1], I, box)
    BY <1>3, LeavesHold
  <2>2. PairsOf(Leaves(t)[1]) \in Seq(PairsIn(I))
    BY <2>1, PairsOfLists
  <2>3. lists \in [1 .. 1 -> Seq(PairsIn(I))] /\ lists[1] = PairsOf(Leaves(t)[1])
    BY <2>1, <2>2
  <2>. HIDE DEF lists
  <2>4. lists \in Seq(Seq(PairsIn(I))) /\ Len(lists) = 1
    <3>. DEFINE m == 1
                L == Seq(PairsIn(I))
    <3>1. m \in Nat /\ lists \in [1 .. m -> L]
      BY <2>3
    <3>. HIDE DEF m, L
    <3>2. lists \in Seq(L) /\ Len(lists) = m
      BY <3>1, FunctionIsSeq
    <3>. QED  BY <3>2 DEF m, L
  <2>5. FlattenSeq(lists) \in Seq(PairsIn(I))
    BY <2>4, FlattenType
  <2>6. ASSUME NEW i \in I, NEW j \in I, i < j
        PROVE  Times(FlattenSeq(lists), <<i, j>>) = 1
    <3>1. Times(lists[1], <<i, j>>) = 1
      BY <2>1, <2>3, <2>6, PairsOfLists
    <3>2. /\ 1 \in 1 .. Len(lists)
          /\ \A k \in 1 .. Len(lists) : k # 1 => Times(lists[k], <<i, j>>) = 0
      BY <2>4
    <3>3. Times(FlattenSeq(lists), <<i, j>>) = Times(lists[1], <<i, j>>)
      BY <2>4, <3>2, TimesFlattened
    <3>. QED  BY <3>1, <3>3
  <2>. QED  BY <1>1, <2>5, <2>6
<1>4. CASE t.divided
  <2>. DEFINE J(n) == Meets(I, box, Quarter(t.Bounds)[n])
  <2>1. /\ DOMAIN Leaves(t) = 1 .. 4 /\ Cardinality(I) > MaxColNbr
        /\ \A n \in 1 .. 4 : Lists(Leaves(t)[n], J(n), box)
    BY <1>4, LeavesHold
  <2>2. ASSUME NEW n \in 1 .. 4
        PROVE  /\ lists[n] \in Seq(PairsIn(I))
               /\ \A i, j \in I : i < j => Times(lists[n], <<i, j>>) <= 1
    <3>1. J(n) \in SUBSET I /\ J(n) \in SUBSET Nat
      BY DEF Meets
    <3>2. lists[n] = PairsOf(Leaves(t)[n])
      BY <2>1
    <3>. HIDE DEF J, lists
    <3>3. /\ PairsOf(Leaves(t)[n]) \in Seq(PairsIn(J(n)))
          /\ \A i, j \in Nat : i < j =>
                Times(PairsOf(Leaves(t)[n]), <<i, j>>) =
                   IF i \in J(n) /\ j \in J(n) THEN 1 ELSE 0
      BY <2>1, <3>1, PairsOfLists
    <3>4. PairsIn(J(n)) \subseteq PairsIn(I)
      BY <3>1 DEF PairsIn
    <3>5. PairsOf(Leaves(t)[n]) \in Seq(PairsIn(I))
      <4>. DEFINE s == PairsOf(Leaves(t)[n])
      <4>1. Len(s) \in Nat /\ s \in [1 .. Len(s) -> PairsIn(J(n))]
        <5>. HIDE DEF s
        <5>1. s \in Seq(PairsIn(J(n)))
          BY <3>3 DEF s
        <5>. QED  BY <5>1, LenProperties
      <4>2. s \in [1 .. Len(s) -> PairsIn(I)]
        <5>. HIDE DEF s
        <5>. QED  BY <3>4, <4>1
      <4>. HIDE DEF s
      <4>3. s \in Seq(PairsIn(I))
        BY <4>1, <4>2, SeqDef
      <4>. QED  BY <4>3 DEF s
    <3>. QED  BY <3>2, <3>3, <3>5
  <2>3. DOMAIN lists = 1 .. 4 /\ lists = [n \in 1 .. 4 |-> lists[n]]
    BY <2>1
  <2>. HIDE DEF lists
  <2>4. lists \in [1 .. 4 -> Seq(PairsIn(I))]
    BY <2>2, <2>3
  <2>5. lists \in Seq(Seq(PairsIn(I))) /\ Len(lists) = 4
    <3>. DEFINE m == 4
                L == Seq(PairsIn(I))
    <3>1. m \in Nat /\ lists \in [1 .. m -> L]
      BY <2>4
    <3>. HIDE DEF m, L
    <3>2. lists \in Seq(L) /\ Len(lists) = m
      BY <3>1, FunctionIsSeq
    <3>. QED  BY <3>2 DEF m, L
  <2>6. FlattenSeq(lists) \in Seq(PairsIn(I))
    BY <2>5, FlattenType
  <2>7. ASSUME NEW i \in I, NEW j \in I, i < j
        PROVE  Times(FlattenSeq(lists), <<i, j>>) <= 4
    <3>1. \A k \in 1 .. Len(lists) : Times(lists[k], <<i, j>>) <= 1
      BY <2>2, <2>5, <2>7
    <3>2. Times(FlattenSeq(lists), <<i, j>>) <= Len(lists)
      BY <2>5, <3>1, TimesAtMost
    <3>. QED  BY <2>5, <3>2
  <2>. QED  BY <1>1, <1>2, <2>1, <2>6, <2>7
<1>. QED  BY <1>3, <1>4
-----------------------------------------------------------------------------
(* The tree of a pass. *)

LEMMA EmptyTreeHolds ==
    ASSUME NEW b \in Rectangle, NEW box
    PROVE  Holds(EmptyTree(b), {}, box) /\ EmptyTree(b).Bounds = b
<1>1. << >> \in Seq(ColliderRefAabb)
  BY EmptySeq
<1>2. EmptyTree(b) \in TreeType
  BY <1>1 DEF EmptyTree, TreeType
<1>3. /\ EmptyTree(b).Bounds = b /\ ~ EmptyTree(b).divided /\ EmptyTree(b).root = << >>
      /\ \A n \in 1 .. 4 : EmptyTree(b).Children[n] = << >>
  BY DEF EmptyTree
<1>4. IsFiniteSet({}) /\ Cardinality({}) <= MaxColNbr
  BY FS_EmptySet, MaxColNbrAssumption
<1>. QED  BY <1>2, <1>3, <1>4, EmptyLists DEF Holds, NoChildren

(* The bounding box of all covers each.                                    *)
Span(J) == [min |-> Min({i.min : i \in J}), max |-> Max({i.max : i \in J} \cup {0})]

LEMMA SpanCovers ==
    ASSUME NEW J \in SUBSET Interval, IsFiniteSet(J), J # {}
    PROVE  Span(J) \in Interval /\ \A i \in J : Covers(Span(J), i)
<1>. DEFINE low  == [i \in J |-> i.min]
            high == [i \in J |-> i.max]
            L    == {i.min : i \in J}
            H    == {i.max : i \in J} \cup {0}
<1>1. L = {low[i] : i \in J} /\ {i.max : i \in J} = {high[i] : i \in J}
  OBVIOUS
<1>2. IsFiniteSet({low[i] : i \in J}) /\ IsFiniteSet({high[i] : i \in J})
  <2>1. low = [i \in J |-> low[i]] /\ high = [i \in J |-> high[i]]
    OBVIOUS
  <2>. HIDE DEF low, high
  <2>. QED  BY <2>1, ImageFinite
<1>3. IsFiniteSet(L) /\ IsFiniteSet(H)
  <2>1. IsFiniteSet({high[i] : i \in J} \cup {0})
    <3>. HIDE DEF high
    <3>. QED  BY <1>2, FS_AddElement
  <2>. QED  BY <1>1, <1>2, <2>1
<1>4. /\ L \in SUBSET Int /\ L # {} /\ \A i \in J : i.min \in L
      /\ H \in SUBSET Int /\ H # {} /\ \A i \in J : i.max \in H
  BY DEF Interval
<1>. HIDE DEF L, H
<1>5. /\ Min(L) \in Int /\ \A l \in L : Min(L) <= l
      /\ Max(H) \in Int /\ \A h \in H : h <= Max(H)
  BY <1>3, <1>4, MinOfFinite, MaxOfFinite
<1>6. Span(J) = [min |-> Min(L), max |-> Max(H)]
  BY DEF Span, L, H
<1>. QED  BY <1>4, <1>5, <1>6 DEF Interval, Covers

LEMMA HullCovers ==
    ASSUME NEW I, IsFiniteSet(I), I # {}, NEW box \in [I -> Rectangle]
    PROVE  /\ Hull({box[i] : i \in I}) \in Rectangle
           /\ \A j \in I : CoversBox(Hull({box[i] : i \in I}), box[j])
<1>. DEFINE R == {box[i] : i \in I}
            X == {r.x : r \in R}
            Y == {r.y : r \in R}
            x == [r \in R |-> r.x]
            y == [r \in R |-> r.y]
<1>1. IsFiniteSet(R)
  <2>1. box = [i \in I |-> box[i]]
    OBVIOUS
  <2>. QED  BY <2>1, ImageFinite
<1>2. R \in SUBSET Rectangle /\ R # {} /\ \A i \in I : box[i] \in R
  OBVIOUS
<1>. HIDE DEF R
<1>3. /\ X \in SUBSET Interval /\ X # {} /\ \A r \in R : r.x \in X
      /\ Y \in SUBSET Interval /\ Y # {} /\ \A r \in R : r.y \in Y
  BY <1>2 DEF Rectangle
<1>4. IsFiniteSet(X) /\ IsFiniteSet(Y)
  <2>1. IsFiniteSet({x[r] : r \in R}) /\ IsFiniteSet({y[r] : r \in R})
    <3>1. x = [r \in R |-> x[r]] /\ y = [r \in R |-> y[r]]
      OBVIOUS
    <3>. HIDE DEF x, y
    <3>. QED  BY <1>1, <3>1, ImageFinite
  <2>2. X = {x[r] : r \in R} /\ Y = {y[r] : r \in R}
    OBVIOUS
  <2>. QED  BY <2>1, <2>2
<1>5. Hull(R) = [x |-> Span(X), y |-> Span(Y)]
  BY DEF Hull, Span
<1>. HIDE DEF X, Y
<1>6. /\ Span(X) \in Interval /\ \A i \in X : Covers(Span(X), i)
      /\ Span(Y) \in Interval /\ \A i \in Y : Covers(Span(Y), i)
  BY <1>3, <1>4, SpanCovers
<1>7. Hull(R) \in Rectangle /\ \A r \in R : CoversBox(Hull(R), r)
  BY <1>3, <1>5, <1>6 DEF Rectangle, CoversBox
<1>. QED  BY <1>2, <1>7 DEF R

(* SetUpQuadTree(): all the attached colliders are in the tree, with the   *)
(* bounding boxes they have at the positions of the bodies.                *)
Boxes(slots) == [i \in AttachedColliders |-> BoundsIn(slots, i)]

LEMMA TreeIsSetUp ==
    ASSUME NEW slots, Len(colliders) \in Nat, DOMAIN colliders = 1 .. Len(colliders),
           Boxes(slots) \in [AttachedColliders -> Box]
    PROVE  /\ Holds(SetUpQuadTree(slots), AttachedColliders, Boxes(slots))
           /\ \A i \in AttachedColliders :
                 CoversBox(SetUpQuadTree(slots).Bounds, Boxes(slots)[i])
<1>. DEFINE n == Len(colliders)
            A == AttachedColliders
            box == Boxes(slots)
            root == SetUpRoot(Hull({BoundsIn(slots, i) : i \in A}))
            new(k, t) == IF colliders[k].IsAttached
                         THEN Insert(t, [Aabb |-> BoundsIn(slots, k), ColRef |-> k])
                         ELSE t
            Sofar(k) == {i \in A : i <= k}
            Defines(g) == g = [k \in 0 .. n |->
               IF k = 0 THEN root
               ELSE IF colliders[k].IsAttached
               THEN Insert(g[k - 1], [Aabb |-> BoundsIn(slots, k), ColRef |-> k])
               ELSE g[k - 1]]
            inserted == CHOOSE g : Defines(g)
<1>1. /\ A \in SUBSET Nat /\ A \in SUBSET (1 .. n) /\ IsFiniteSet(A)
      /\ \A k \in 1 .. n : k \in A <=> colliders[k].IsAttached
  <2>1. A \in SUBSET (1 .. n) /\ \A k \in 1 .. n : k \in A <=> colliders[k].IsAttached
    BY DEF AttachedColliders
  <2>2. IsFiniteSet(1 .. n)
    BY FS_Interval
  <2>3. IsFiniteSet(A)
    <3>. HIDE DEF A, n
    <3>. QED  BY <2>1, <2>2, FS_Subset
  <2>4. 1 .. n \subseteq Nat
    OBVIOUS
  <2>. HIDE DEF A, n
  <2>. QED  BY <2>1, <2>3, <2>4
<1>2. \A i \in A : box[i] = BoundsIn(slots, i) /\ box[i] \in Box /\ box[i] \in Rectangle
  BY DEF Boxes, Box
<1>3. CASE A = {}
  <2>1. SetUpQuadTree(slots) = NoTree
    BY <1>3 DEF SetUpQuadTree
  <2>2. [x |-> [min |-> 0, max |-> 0], y |-> [min |-> 0, max |-> 0]] \in Rectangle
    BY DEF Rectangle, Interval
  <2>3. Holds(NoTree, {}, box)
    BY <2>2, EmptyTreeHolds DEF NoTree, SetUpRoot
  <2>. QED  BY <1>3, <2>1, <2>3
<1>4. CASE A # {}
  <2>1. SetUpQuadTree(slots) = inserted[n]
    BY <1>4 DEF SetUpQuadTree
  <2>2. /\ root \in TreeType /\ Holds(root, {}, box)
        /\ \A i \in A : CoversBox(root.Bounds, box[i])
    <3>. DEFINE h == Hull({box[i] : i \in A})
    <3>1. {BoundsIn(slots, i) : i \in A} = {box[i] : i \in A}
      BY <1>2
    <3>2. box \in [A -> Rectangle]
      BY DEF Box
    <3>3. h \in Rectangle /\ \A i \in A : CoversBox(h, box[i])
      <4>. HIDE DEF box, A
      <4>. QED  BY <1>1, <1>4, <3>2, HullCovers
    <3>4. root = EmptyTree(h)
      BY <3>1 DEF SetUpRoot
    <3>. HIDE DEF h, root
    <3>. QED  BY <3>3, <3>4, EmptyTreeHolds DEF Holds
  <2>. HIDE DEF root
  <2>3. ASSUME NEW g, g[0] = root,
               \A k \in 1 .. n : new(k, g[k - 1]) \in TreeType => g[k] = new(k, g[k - 1])
        PROVE  \A k \in 0 .. n : /\ Holds(g[k], Sofar(k), box)
                                 /\ g[k].Bounds = root.Bounds
    <3>. DEFINE Done == {k \in 0 .. n : Holds(g[k], Sofar(k), box)
                                        /\ g[k].Bounds = root.Bounds}
    <3>1. 0 \in Done
      <4>1. Sofar(0) = {}
        BY <1>1
      <4>. HIDE DEF Sofar, box
      <4>. QED  BY <2>2, <2>3, <4>1
    <3>2. ASSUME NEW k \in 1 .. n, k - 1 \in Done
          PROVE  k \in Done
      <4>. DEFINE u == g[k - 1]
                  K == Sofar(k - 1)
                  e == [Aabb |-> BoundsIn(slots, k), ColRef |-> k]
      <4>1. Holds(u, K, box) /\ u.Bounds = root.Bounds
        BY <3>2
      <4>2. CASE k \in A
        <5>1. e = Entry(box, k)
          BY <1>2, <4>2 DEF Entry
        <5>2. K \in SUBSET Nat /\ (\A j \in K : j < k) /\ k \in Nat
          BY <1>1
        <5>3. \A j \in K \cup {k} : box[j] \in Rectangle
          BY <1>2, <4>2
        <5>4. Sofar(k) = K \cup {k}
          BY <1>1, <4>2
        <5>5. new(k, u) = Insert(u, e)
          BY <1>1, <4>2
        <5>. HIDE DEF box, A, n, u, K, e, Sofar, Done, new
        <5>6. /\ Holds(Insert(u, Entry(box, k)), K \cup {k}, box)
              /\ Insert(u, Entry(box, k)).Bounds = u.Bounds
          BY <4>1, <5>2, <5>3, InsertHolds
        <5>7. new(k, u) \in TreeType
          BY <5>1, <5>5, <5>6 DEF Holds
        <5>8. g[k] = Insert(u, Entry(box, k))
          BY <2>3, <5>1, <5>5, <5>7 DEF u
        <5>9. k \in 0 .. n
          OBVIOUS
        <5>. QED  BY <4>1, <5>4, <5>6, <5>8, <5>9 DEF Done
      <4>3. CASE k \notin A
        <5>1. Sofar(k) = K
          BY <1>1, <4>3
        <5>2. new(k, u) = u
          BY <1>1, <4>3
        <5>. HIDE DEF box, A, n, u, K, e, Sofar, Done, new
        <5>3. new(k, u) \in TreeType
          BY <4>1, <5>2 DEF Holds
        <5>4. g[k] = u
          BY <2>3, <5>2, <5>3 DEF u
        <5>5. k \in 0 .. n
          OBVIOUS
        <5>. QED  BY <4>1, <5>1, <5>4, <5>5 DEF Done
      <4>. QED  BY <4>2, <4>3
    <3>3. \A k \in 0 .. n : k \in Done
      <4>. HIDE DEF Done
      <4>. QED  BY <3>1, <3>2, UpTo
    <3>. QED  BY <3>3
  <2>4. Defines(inserted)
    <3>. DEFINE step == [p \in (1 .. n) \X TreeType |->
                           IF new(p[1], p[2]) \in TreeType THEN new(p[1], p[2]) ELSE p[2]]
    <3>1. step \in [(1 .. n) \X TreeType -> TreeType]
      <4>. HIDE DEF new
      <4>. QED  OBVIOUS
    <3>2. PICK f : Iterates(f, n, TreeType, root, step)
      <4>. HIDE DEF step
      <4>. QED  BY <2>2, <3>1, IterationExists
    <3>3. ASSUME NEW k \in 1 .. n
          PROVE  /\ f[k - 1] \in TreeType
                 /\ f[k] = IF new(k, f[k - 1]) \in TreeType
                           THEN new(k, f[k - 1]) ELSE f[k - 1]
      <4>1. f[k - 1] \in TreeType
        <5>1. k - 1 \in 0 .. n
          OBVIOUS
        <5>. HIDE DEF step
        <5>. QED  BY <3>2, <5>1 DEF Iterates
      <4>2. <<k, f[k - 1]>> \in (1 .. n) \X TreeType
        BY <4>1
      <4>3. step[<<k, f[k - 1]>>] = IF new(k, f[k - 1]) \in TreeType
                                    THEN new(k, f[k - 1]) ELSE f[k - 1]
        <5>. HIDE DEF new
        <5>. QED  BY <4>2
      <4>. HIDE DEF step, new
      <4>. QED  BY <3>2, <4>1, <4>3 DEF Iterates
    <3>4. \A k \in 0 .. n : Holds(f[k], Sofar(k), box)
      <4>1. f[0] = root
        BY <3>2 DEF Iterates
      <4>. HIDE DEF step, new, Sofar, box
      <4>. QED  BY <2>3, <3>3, <4>1
    <3>5. ASSUME NEW k \in 1 .. n
          PROVE  f[k] = new(k, f[k - 1])
      <4>2. CASE new(k, f[k - 1]) \in TreeType
        <5>. HIDE DEF new
        <5>. QED  BY <3>3, <4>2
      <4>3. CASE new(k, f[k - 1]) \notin TreeType
        <5>. DEFINE u == f[k - 1]
                    K == Sofar(k - 1)
        <5>1. k \in A
          BY <1>1, <3>3, <4>3
        <5>2. new(k, u) = Insert(u, Entry(box, k))
          BY <1>1, <1>2, <5>1 DEF Entry
        <5>3. Holds(u, K, box)
          <6>1. k - 1 \in 0 .. n
            OBVIOUS
          <6>. HIDE DEF Sofar, box
          <6>. QED  BY <3>4, <6>1
        <5>4. K \in SUBSET Nat /\ (\A j \in K : j < k) /\ k \in Nat
          BY <1>1
        <5>5. \A j \in K \cup {k} : box[j] \in Rectangle
          BY <1>2, <5>1
        <5>6. Holds(Insert(u, Entry(box, k)), K \cup {k}, box)
          <6>. HIDE DEF u, K, box, new
          <6>. QED  BY <5>3, <5>4, <5>5, InsertHolds
        <5>. HIDE DEF new
        <5>. QED  BY <4>3, <5>2, <5>6 DEF Holds
      <4>. QED  BY <4>2, <4>3
    <3>6. Defines(f)
      <4>1. f = [k \in 0 .. n |-> f[k]] /\ f[0] = root
        BY <3>2 DEF Iterates
      <4>2. \A k \in 0 .. n : k # 0 => k \in 1 .. n
        OBVIOUS
      <4>3. \A k \in 0 .. n : f[k] = IF k = 0 THEN root ELSE new(k, f[k - 1])
        <5>. HIDE DEF new
        <5>. QED  BY <3>5, <4>1, <4>2
      <4>. QED  BY <4>1, <4>3
    <3>7. \E g : Defines(g)
      <4>. HIDE DEF Defines
      <4>. QED  BY <3>6
    <3>. HIDE DEF Defines
    <3>. QED  BY <3>7
  <2>. HIDE DEF inserted
  <2>5. /\ inserted[0] = root
        /\ \A k \in 1 .. n : inserted[k] = new(k, inserted[k - 1])
    BY <2>4
  <2>6. \A k \in 0 .. n : Holds(inserted[k], Sofar(k), box) /\ inserted[k].Bounds = root.Bounds
    <3>. HIDE DEF new, Sofar, box, Defines
    <3>. QED  BY <2>3, <2>5
  <2>7. Sofar(n) = A /\ n \in 0 .. n
    <3>1. \A i \in A : i <= n
      BY <1>1
    <3>. HIDE DEF A
    <3>. QED  BY <3>1
  <2>8. Holds(inserted[n], A, box) /\ inserted[n].Bounds = root.Bounds
    <3>. HIDE DEF Sofar, box, Defines, A
    <3>. QED  BY <2>6, <2>7
  <2>. QED  BY <2>1, <2>2, <2>8
<1>. QED  BY <1>3, <1>4
-----------------------------------------------------------------------------
(* The invariant. *)

(* The vectors are never empty, so that doubling one makes room.           *)
SizesInv == Len(bodies) > 0 /\ Len(colliders) > 0

(* During a pass the tree holds the attached colliders, with boxes that    *)
(* are in its bounds.                                                      *)
TreeInv ==
    Updating =>
        \E box \in [AttachedColliders -> Box] :
            /\ Holds(tree, AttachedColliders, box)
            /\ \A i \in AttachedColliders : CoversBox(tree.Bounds, box[i])

(* A pair is looked at with the lower slot first.  As long as nothing      *)
(* moves, the contacts of the pairs that are not to be looked at any more  *)
(* follow the overlaps.                                                    *)
Watched(i, j) ==
    /\ colliders[i].BodyRef # colliders[j].BodyRef
    /\ colliders[i].IsTrigger \/ colliders[j].IsTrigger

Follows(i, j) == {i, j} \in colRefPairs <=> Overlap(i, j)

PassInv ==
    /\ todo \in Seq(PairsIn(AttachedColliders))
    /\ settled => \A i, j \in AttachedColliders :
          i < j /\ Watched(i, j) => Follows(i, j) \/ <<i, j>> \in ToSet(todo)

WorldInv == TypeOK /\ SizesInv /\ LiveRefsAreDistinct /\ TreeInv /\ PassInv

-----------------------------------------------------------------------------
(* The slots. *)

LEMMA SeqSubset ==
    ASSUME NEW S, NEW T, S \subseteq T, NEW s \in Seq(S)
    PROVE  s \in Seq(T)
<1>1. Len(s) \in Nat /\ s \in [1 .. Len(s) -> S]
  BY LenProperties
<1>2. s \in [1 .. Len(s) -> T]
  BY <1>1
<1>. QED  BY <1>1, <1>2, SeqDef

(* A free slot, in a vector that has grown if it had none.                 *)
LEMMA RoomFor ==
    ASSUME NEW S, NEW slots \in Seq(S), Len(slots) > 0,
           NEW free \in SUBSET DOMAIN slots, NEW default \in S
    PROVE  /\ WithRoom(slots, free, default) \in Seq(S)
           /\ Len(WithRoom(slots, free, default)) > 0
           /\ DOMAIN slots \subseteq DOMAIN WithRoom(slots, free, default)
           /\ FreeSlot(slots, free) \in DOMAIN WithRoom(slots, free, default)
           /\ FreeSlot(slots, free) \in free \/ FreeSlot(slots, free) \notin DOMAIN slots
           /\ \A i \in DOMAIN slots : WithRoom(slots, free, default)[i] = slots[i]
           /\ \A i \in DOMAIN WithRoom(slots, free, default) :
                 i \notin DOMAIN slots => WithRoom(slots, free, default)[i] = default
<1>1. Len(slots) \in Nat /\ DOMAIN slots = 1 .. Len(slots)
  BY LenProperties
<1>2. CASE free = {}
  <2>. DEFINE more == [i \in DOMAIN slots |-> default]
              n == Len(slots)
  <2>1. more \in Seq(S) /\ Len(more) = n
    <3>1. more \in [1 .. n -> S]
      BY <1>1
    <3>. HIDE DEF more, n
    <3>. QED  BY <1>1, <3>1, FunctionIsSeq DEF n
  <2>2. \A i \in 1 .. n : more[i] = default
    BY <1>1
  <2>3. WithRoom(slots, free, default) = slots \o more /\ FreeSlot(slots, free) = n + 1
    BY <1>2 DEF WithRoom, Grown, FreeSlot
  <2>. HIDE DEF more
  <2>4. /\ slots \o more \in Seq(S) /\ DOMAIN (slots \o more) = 1 .. n + n
        /\ Len(slots \o more) = n + n
        /\ \A i \in 1 .. n + n : (slots \o more)[i] = IF i <= n THEN slots[i] ELSE more[i - n]
    <3>1. /\ slots \o more \in Seq(S) /\ Len(slots \o more) = n + n
          /\ \A i \in 1 .. n + n :
                (slots \o more)[i] = IF i <= n THEN slots[i] ELSE more[i - n]
      BY <2>1, ConcatProperties
    <3>2. DOMAIN (slots \o more) = 1 .. Len(slots \o more)
      BY <3>1, LenProperties
    <3>. QED  BY <3>1, <3>2
  <2>5. \A i \in 1 .. n + n : (slots \o more)[i] = IF i <= n THEN slots[i] ELSE default
    BY <1>1, <2>2, <2>4
  <2>6. n \in Nat /\ n > 0 /\ DOMAIN slots = 1 .. n
    BY <1>1
  <2>. HIDE DEF n
  <2>. QED  BY <2>3, <2>4, <2>5, <2>6
<1>3. CASE free # {}
  <2>1. IsFiniteSet(free) /\ free \in SUBSET Int
    <3>1. IsFiniteSet(1 .. Len(slots))
      BY <1>1, FS_Interval
    <3>. QED  BY <1>1, <3>1, FS_Subset
  <2>2. Min(free) \in free
    BY <1>3, <2>1, MinOfFinite
  <2>. QED  BY <1>3, <2>2 DEF WithRoom, FreeSlot
<1>. QED  BY <1>2, <1>3

(* What is known of the slots. *)
LEMMA SlotsKnown ==
    ASSUME TypeOK
    PROVE  /\ bodies \in Seq(Body) /\ Len(bodies) \in Nat
           /\ DOMAIN bodies = 1 .. Len(bodies) /\ \A i \in DOMAIN bodies : bodies[i] \in Body
           /\ colliders \in Seq(Collider(EnabledBodies)) /\ Len(colliders) \in Nat
           /\ DOMAIN colliders = 1 .. Len(colliders)
           /\ \A i \in DOMAIN colliders : colliders[i] \in Collider(EnabledBodies)
           /\ EnabledBodies \in SUBSET Nat /\ IsFiniteSet(EnabledBodies)
           /\ AttachedColliders \in SUBSET Nat /\ IsFiniteSet(AttachedColliders)
<1>1. bodies \in Seq(Body) /\ colliders \in Seq(Collider(EnabledBodies))
  BY DEF TypeOK
<1>2. /\ Len(bodies) \in Nat /\ DOMAIN bodies = 1 .. Len(bodies)
      /\ \A i \in DOMAIN bodies : bodies[i] \in Body
  BY <1>1, LenProperties, ElementOfSeq
<1>3. /\ Len(colliders) \in Nat /\ DOMAIN colliders = 1 .. Len(colliders)
      /\ \A i \in DOMAIN colliders : colliders[i] \in Collider(EnabledBodies)
  BY <1>1, LenProperties, ElementOfSeq
<1>4. /\ EnabledBodies \in SUBSET (1 .. Len(bodies))
      /\ AttachedColliders \in SUBSET (1 .. Len(colliders))
  BY <1>2, <1>3 DEF EnabledBodies, AttachedColliders
<1>5. IsFiniteSet(1 .. Len(bodies)) /\ IsFiniteSet(1 .. Len(colliders))
  BY <1>2, <1>3, FS_Interval
<1>6. IsFiniteSet(EnabledBodies) /\ IsFiniteSet(AttachedColliders)
  BY <1>4, <1>5, FS_Subset
<1>. QED  BY <1>1, <1>2, <1>3, <1>4, <1>6

(* Moving bodies changes positions of dynamic ones and nothing else.       *)
LEMMA MovedBodies ==
    ASSUME bodies \in Seq(Body), NEW which, NEW slots \in Moved(which)
    PROVE  /\ slots \in Seq(Body) /\ Len(slots) = Len(bodies)
           /\ DOMAIN slots = DOMAIN bodies
           /\ \A i \in DOMAIN bodies : slots[i].enabled = bodies[i].enabled
<1>1. /\ Len(bodies) \in Nat /\ DOMAIN bodies = 1 .. Len(bodies)
      /\ \A i \in DOMAIN bodies : bodies[i] \in Body
  BY LenProperties, ElementOfSeq
<1>2. PICK to \in [which \cap Movable -> Position] :
         slots = [i \in DOMAIN bodies |->
                    IF i \in DOMAIN to THEN [bodies[i] EXCEPT !.Position = to[i]]
                    ELSE bodies[i]]
  BY DEF Moved
<1>3. ASSUME NEW i \in DOMAIN bodies
      PROVE  slots[i] \in Body /\ slots[i].enabled = bodies[i].enabled
  <2>1. CASE i \in DOMAIN to
    <3>1. bodies[i].enabled /\ to[i] \in Position
      BY <1>2, <2>1 DEF Movable, EnabledBodies
    <3>2. bodies[i] \in [enabled : {TRUE}, dynamic : BOOLEAN, Position : Position]
      BY <1>1, <3>1 DEF Body
    <3>3. slots[i] = [bodies[i] EXCEPT !.Position = to[i]]
      BY <1>2, <2>1
    <3>4. /\ slots[i] \in [enabled : {TRUE}, dynamic : BOOLEAN, Position : Position]
          /\ slots[i].enabled = bodies[i].enabled
      BY <3>1, <3>2, <3>3
    <3>. QED  BY <3>4 DEF Body
  <2>2. CASE i \notin DOMAIN to
    BY <1>1, <1>2, <2>2
  <2>. QED  BY <2>1, <2>2
<1>4. slots \in [1 .. Len(bodies) -> Body]
  BY <1>1, <1>2, <1>3
<1>5. slots \in Seq(Body) /\ Len(slots) = Len(bodies)
  BY <1>1, <1>4, FunctionIsSeq
<1>. QED  BY <1>1, <1>3, <1>4, <1>5
(* What creating and destroying does to the slots. *)
BodyTaken(s) ==
    /\ bodies' \in Seq(Body) /\ Len(bodies') > 0
    /\ s \notin EnabledBodies
    /\ EnabledBodies' = EnabledBodies \cup {s}
    /\ \A i \in EnabledBodies : bodies'[i] = bodies[i]

LEMMA BodyCreated ==
    TypeOK /\ SizesInv /\ CreateBody => \E s : BodyTaken(s)
<1>. SUFFICES ASSUME TypeOK, SizesInv, CreateBody
              PROVE  \E s : BodyTaken(s)
  OBVIOUS
<1>. DEFINE free == DOMAIN bodies \ EnabledBodies
            room == WithRoom(bodies, free, FreeBody(TRUE))
            s == FreeSlot(bodies, free)
<1>1. PICK kind \in BodyKind : bodies' = [room EXCEPT ![s] = LiveBody(@, kind)]
  BY DEF CreateBody
<1>2. kind.Position \in Position /\ kind.dynamic \in BOOLEAN
  BY KindAssumption
<1>3. /\ bodies \in Seq(Body) /\ Len(bodies) > 0 /\ free \in SUBSET DOMAIN bodies
      /\ FreeBody(TRUE) \in Body
  BY SlotsKnown DEF SizesInv, FreeBody, Body
<1>4. /\ room \in Seq(Body) /\ Len(room) > 0 /\ DOMAIN bodies \subseteq DOMAIN room
      /\ s \in DOMAIN room /\ (s \in free \/ s \notin DOMAIN bodies)
      /\ \A i \in DOMAIN bodies : room[i] = bodies[i]
      /\ \A i \in DOMAIN room : i \notin DOMAIN bodies => room[i] = FreeBody(TRUE)
  <2>. HIDE DEF free
  <2>. QED  BY <1>3, RoomFor
<1>5. /\ Len(room) \in Nat /\ DOMAIN room = 1 .. Len(room)
      /\ \A i \in DOMAIN room : room[i] \in Body
  <2>. HIDE DEF room
  <2>. QED  BY <1>4, LenProperties, ElementOfSeq
<1>6. s \notin EnabledBodies
  BY <1>4 DEF EnabledBodies
<1>7. \A i \in DOMAIN room : i # s => (room[i].enabled <=> i \in EnabledBodies)
  <2>1. ASSUME NEW i \in DOMAIN room, i \notin DOMAIN bodies
        PROVE  ~ room[i].enabled /\ i \notin EnabledBodies
    <3>1. room[i] = FreeBody(TRUE)
      BY <1>4, <2>1
    <3>. QED  BY <2>1, <3>1 DEF FreeBody, EnabledBodies
  <2>2. ASSUME NEW i \in DOMAIN bodies
        PROVE  room[i].enabled <=> i \in EnabledBodies
    BY <1>4 DEF EnabledBodies
  <2>. HIDE DEF room, s, free
  <2>. QED  BY <2>1, <2>2
<1>8. EnabledBodies \subseteq DOMAIN room /\ \A i \in EnabledBodies : room[i] = bodies[i]
  BY <1>4 DEF EnabledBodies
<1>9. LiveBody(room[s], kind) \in Body /\ LiveBody(room[s], kind).enabled
  <2>1. room[s].dynamic \in BOOLEAN
    BY <1>4, <1>5 DEF Body
  <2>. QED  BY <1>2, <2>1 DEF LiveBody, Body
<1>. HIDE DEF room, s, free
<1>10. bodies' = [i \in DOMAIN room |-> IF i = s THEN LiveBody(room[s], kind) ELSE room[i]]
  BY <1>1
<1>11. bodies' \in [1 .. Len(room) -> Body]
  BY <1>5, <1>9, <1>10
<1>12. bodies' \in Seq(Body) /\ Len(bodies') = Len(room)
  BY <1>5, <1>11, FunctionIsSeq
<1>13. EnabledBodies' = EnabledBodies \cup {s}
  <2>1. EnabledBodies' = {i \in DOMAIN room : bodies'[i].enabled}
    BY <1>10 DEF EnabledBodies
  <2>2. \A i \in DOMAIN room : bodies'[i].enabled <=> i = s \/ i \in EnabledBodies
    BY <1>7, <1>9, <1>10
  <2>. QED  BY <1>4, <1>8, <2>1, <2>2
<1>14. \A i \in EnabledBodies : bodies'[i] = bodies[i]
  BY <1>6, <1>8, <1>10
<1>15. BodyTaken(s)
  BY <1>4, <1>6, <1>12, <1>13, <1>14 DEF BodyTaken
<1>. QED  BY <1>15

BodyFreed(i) ==
    /\ bodies' \in Seq(Body) /\ Len(bodies') > 0
    /\ EnabledBodies' = EnabledBodies \ {i}
    /\ \A j \in EnabledBodies \ {i} : bodies'[j] = bodies[j]

LEMMA BodyDestroyed ==
    \A i : TypeOK /\ SizesInv /\ DestroyBody(i) => BodyFreed(i)
<1>. SUFFICES ASSUME NEW i, TypeOK, SizesInv, DestroyBody(i)
              PROVE  BodyFreed(i)
  OBVIOUS
<1>1. /\ bodies \in Seq(Body) /\ Len(bodies) \in Nat /\ DOMAIN bodies = 1 .. Len(bodies)
      /\ \A j \in DOMAIN bodies : bodies[j] \in Body
  BY SlotsKnown
<1>2. i \in DOMAIN bodies /\ i \in EnabledBodies
  BY DEF DestroyBody, EnabledBodies
<1>3. bodies' = [j \in DOMAIN bodies |->
                   IF j = i THEN FreeBody(bodies[i].dynamic) ELSE bodies[j]]
  BY DEF DestroyBody
<1>4. FreeBody(bodies[i].dynamic) \in Body /\ ~ FreeBody(bodies[i].dynamic).enabled
  <2>1. bodies[i].dynamic \in BOOLEAN
    BY <1>1, <1>2 DEF Body
  <2>. QED  BY <2>1 DEF FreeBody, Body
<1>5. bodies' \in [1 .. Len(bodies) -> Body]
  BY <1>1, <1>3, <1>4
<1>6. bodies' \in Seq(Body) /\ Len(bodies') = Len(bodies)
  BY <1>1, <1>5, FunctionIsSeq
<1>7. EnabledBodies' = EnabledBodies \ {i}
  BY <1>3, <1>4 DEF EnabledBodies
<1>8. \A j \in EnabledBodies \ {i} : bodies'[j] = bodies[j]
  BY <1>3 DEF EnabledBodies
<1>. QED  BY <1>6, <1>7, <1>8 DEF BodyFreed, SizesInv

ColliderTaken(s) ==
    /\ colliders' \in Seq(Collider(EnabledBodies)) /\ Len(colliders') > 0
    /\ s \notin AttachedColliders
    /\ AttachedColliders' = AttachedColliders \cup {s}
    /\ DOMAIN colliders \subseteq DOMAIN colliders'
    /\ \A i \in AttachedColliders : colliders'[i] = colliders[i]

LEMMA ColliderCreated ==
    \A body : TypeOK /\ SizesInv /\ CreateCollider(body) => \E s : ColliderTaken(s)
<1>. SUFFICES ASSUME NEW body, TypeOK, SizesInv, CreateCollider(body)
              PROVE  \E s : ColliderTaken(s)
  OBVIOUS
<1>. DEFINE C == Collider(EnabledBodies)
            free == DOMAIN colliders \ AttachedColliders
            default == FreeCollider(FALSE)
            room == WithRoom(colliders, free, default)
            s == FreeSlot(colliders, free)
<1>1. PICK kind \in ColliderKind :
         colliders' = [room EXCEPT ![s] = LiveCollider(@, kind, body)]
  BY DEF CreateCollider
<1>2. kind.IsTrigger \in BOOLEAN /\ body \in EnabledBodies
  BY KindAssumption DEF CreateCollider
<1>3. /\ colliders \in Seq(C) /\ Len(colliders) > 0 /\ free \in SUBSET DOMAIN colliders
      /\ default \in C
  BY SlotsKnown DEF SizesInv, FreeCollider, Collider
<1>4. /\ room \in Seq(C) /\ Len(room) > 0 /\ DOMAIN colliders \subseteq DOMAIN room
      /\ s \in DOMAIN room /\ (s \in free \/ s \notin DOMAIN colliders)
      /\ \A i \in DOMAIN colliders : room[i] = colliders[i]
      /\ \A i \in DOMAIN room : i \notin DOMAIN colliders => room[i] = default
  <2>. HIDE DEF free, C, default
  <2>. QED  BY <1>3, RoomFor
<1>5. /\ Len(room) \in Nat /\ DOMAIN room = 1 .. Len(room)
      /\ \A i \in DOMAIN room : room[i] \in C
  <2>. HIDE DEF room, C
  <2>. QED  BY <1>4, LenProperties, ElementOfSeq
<1>6. s \notin AttachedColliders
  BY <1>4 DEF AttachedColliders
<1>7. \A i \in DOMAIN room : i # s => (room[i].IsAttached <=> i \in AttachedColliders)
  <2>1. ASSUME NEW i \in DOMAIN room, i \notin DOMAIN colliders
        PROVE  ~ room[i].IsAttached /\ i \notin AttachedColliders
    <3>1. room[i] = default
      BY <1>4, <2>1
    <3>. QED  BY <2>1, <3>1 DEF FreeCollider, AttachedColliders
  <2>2. ASSUME NEW i \in DOMAIN colliders
        PROVE  room[i].IsAttached <=> i \in AttachedColliders
    BY <1>4 DEF AttachedColliders
  <2>. HIDE DEF room, s, free
  <2>. QED  BY <2>1, <2>2
<1>8. /\ AttachedColliders \subseteq DOMAIN room
      /\ \A i \in AttachedColliders : room[i] = colliders[i]
  BY <1>4 DEF AttachedColliders
<1>9. LiveCollider(room[s], kind, body) \in C /\ LiveCollider(room[s], kind, body).IsAttached
  <2>1. room[s].IsTrigger \in BOOLEAN
    BY <1>4, <1>5 DEF Collider
  <2>. QED  BY <1>2, <2>1 DEF LiveCollider, Collider
<1>. HIDE DEF room, s, free
<1>10. colliders' = [i \in DOMAIN room |->
                       IF i = s THEN LiveCollider(room[s], kind, body) ELSE room[i]]
  BY <1>1
<1>11. colliders' \in [1 .. Len(room) -> C]
  <2>. HIDE DEF C
  <2>. QED  BY <1>5, <1>9, <1>10
<1>12. colliders' \in Seq(C) /\ Len(colliders') = Len(room)
  <2>. HIDE DEF C
  <2>. QED  BY <1>5, <1>11, FunctionIsSeq
<1>13. AttachedColliders' = AttachedColliders \cup {s}
  <2>1. AttachedColliders' = {i \in DOMAIN room : colliders'[i].IsAttached}
    BY <1>10 DEF AttachedColliders
  <2>2. \A i \in DOMAIN room : colliders'[i].IsAttached <=> i = s \/ i \in AttachedColliders
    BY <1>7, <1>9, <1>10
  <2>. QED  BY <1>4, <1>8, <2>1, <2>2
<1>14. \A i \in AttachedColliders : colliders'[i] = colliders[i]
  BY <1>6, <1>8, <1>10
<1>15. ColliderTaken(s)
  BY <1>4, <1>6, <1>10, <1>12, <1>13, <1>14 DEF ColliderTaken
<1>. QED  BY <1>15

ColliderFreed(i) ==
    /\ colliders' \in Seq(Collider(EnabledBodies)) /\ Len(colliders') > 0
    /\ AttachedColliders' = AttachedColliders \ {i}
    /\ DOMAIN colliders \subseteq DOMAIN colliders'
    /\ \A j \in AttachedColliders \ {i} : colliders'[j] = colliders[j]

LEMMA ColliderDestroyed ==
    \A i : TypeOK /\ SizesInv /\ DestroyCollider(i) => ColliderFreed(i)
<1>. SUFFICES ASSUME NEW i, TypeOK, SizesInv, DestroyCollider(i)
              PROVE  ColliderFreed(i)
  OBVIOUS
<1>. DEFINE C == Collider(EnabledBodies)
<1>1. /\ colliders \in Seq(C) /\ Len(colliders) \in Nat
      /\ DOMAIN colliders = 1 .. Len(colliders)
      /\ \A j \in DOMAIN colliders : colliders[j] \in C
  BY SlotsKnown
<1>2. i \in DOMAIN colliders
  BY DEF DestroyCollider, AttachedColliders
<1>3. colliders' = [j \in DOMAIN colliders |->
                      IF j = i THEN FreeCollider(colliders[i].IsTrigger) ELSE colliders[j]]
  BY DEF DestroyCollider
<1>4. /\ FreeCollider(colliders[i].IsTrigger) \in C
      /\ ~ FreeCollider(colliders[i].IsTrigger).IsAttached
  <2>1. colliders[i].IsTrigger \in BOOLEAN
    BY <1>1, <1>2 DEF Collider
  <2>. QED  BY <2>1 DEF FreeCollider, Collider
<1>5. colliders' \in [1 .. Len(colliders) -> C]
  <2>. HIDE DEF C
  <2>. QED  BY <1>1, <1>3, <1>4
<1>6. colliders' \in Seq(C) /\ Len(colliders') = Len(colliders)
  <2>. HIDE DEF C
  <2>. QED  BY <1>1, <1>5, FunctionIsSeq
<1>7. AttachedColliders' = AttachedColliders \ {i}
  BY <1>3, <1>4 DEF AttachedColliders
<1>8. \A j \in AttachedColliders \ {i} : colliders'[j] = colliders[j]
  BY <1>3 DEF AttachedColliders
<1>. QED  BY <1>3, <1>6, <1>7, <1>8 DEF ColliderFreed, SizesInv
-----------------------------------------------------------------------------
(* The invariant is inductive. *)

(* What is known of an attached collider. *)
LEMMA Attached ==
    ASSUME TypeOK, NEW i \in AttachedColliders
    PROVE  /\ i \in DOMAIN colliders
           /\ colliders[i].BodyRef \in EnabledBodies
           /\ colliders[i].IsTrigger \in BOOLEAN
           /\ \E kind \in ColliderKind : colliders[i].Shape = kind.Shape
<1>1. i \in DOMAIN colliders /\ colliders[i].IsAttached
  BY DEF AttachedColliders
<1>2. colliders[i] \in Collider(EnabledBodies)
  BY <1>1, SlotsKnown
<1>3. colliders[i] \in [IsAttached : {TRUE}, IsTrigger : BOOLEAN, BodyRef : EnabledBodies,
                        Shape : {kind.Shape : kind \in ColliderKind}]
  BY <1>1, <1>2 DEF Collider
<1>. QED  BY <1>1, <1>3

LEMMA BoxesAreBoxes ==
    ASSUME TypeOK, NEW slots, \A b \in EnabledBodies : slots[b].Position \in Position
    PROVE  Boxes(slots) \in [AttachedColliders -> Box]
<1>1. ASSUME NEW i \in AttachedColliders
      PROVE  BoundsIn(slots, i) \in Box
  <2>. DEFINE p == slots[colliders[i].BodyRef].Position
              r == colliders[i].Shape
  <2>1. p \in Int \X Int
    BY Attached, PositionAssumption
  <2>2. PICK kind \in ColliderKind : r = kind.Shape
    BY Attached
  <2>3. kind.Shape \in Rectangle /\ kind.Shape.x.min <= kind.Shape.x.max
        /\ kind.Shape.y.min <= kind.Shape.y.max
    BY KindAssumption
  <2>4. /\ r.x.min \in Int /\ r.x.max \in Int /\ r.x.min <= r.x.max
        /\ r.y.min \in Int /\ r.y.max \in Int /\ r.y.min <= r.y.max
    BY <2>2, <2>3 DEF Rectangle, Interval
  <2>5. BoundsIn(slots, i) = [x |-> Shift(r.x, p[1]), y |-> Shift(r.y, p[2])]
    BY DEF BoundsIn
  <2>6. p[1] \in Int /\ p[2] \in Int
    BY <2>1
  <2>. HIDE DEF p, r
  <2>. QED  BY <2>4, <2>5, <2>6 DEF Shift, Box, Rectangle, Interval
<1>. QED  BY <1>1 DEF Boxes

LEMMA BodiesHavePositions ==
    ASSUME TypeOK
    PROVE  \A b \in EnabledBodies : bodies[b].Position \in Position
BY SlotsKnown DEF EnabledBodies, Body

LEMMA NoTreeType ==
    /\ \A n \in 1 .. 4 : NoTree.Children[n] \in Seq(ColliderRefAabb)
    /\ NoTree.root \in Seq(ColliderRefAabb)
<1>1. << >> \in Seq(ColliderRefAabb)
  BY EmptySeq
<1>. QED  BY <1>1 DEF NoTree, SetUpRoot, EmptyTree

LEMMA HeldTreeType ==
    ASSUME NEW t, NEW I, NEW box, Holds(t, I, box)
    PROVE  /\ \A n \in 1 .. 4 : t.Children[n] \in Seq(ColliderRefAabb)
           /\ t.root \in Seq(ColliderRefAabb)
BY DEF Holds, TreeType

LEMMA InitInvariant == Init => WorldInv
<1>. SUFFICES ASSUME Init PROVE WorldInv
  OBVIOUS
<1>. DEFINE n == InitSize
<1>0. n \in Nat /\ n > 0
  BY SizesAssumption
<1>. HIDE DEF n
<1>1. /\ bodies = [i \in 1 .. n |-> FreeBody(TRUE)]
      /\ colliders = [i \in 1 .. n |-> FreeCollider(FALSE)]
  BY DEF Init, n
<1>2. FreeBody(TRUE) \in Body /\ FreeCollider(FALSE) \in Collider(EnabledBodies)
  BY DEF FreeBody, Body, FreeCollider, Collider
<1>3. /\ bodies \in [1 .. n -> Body] /\ colliders \in [1 .. n -> Collider(EnabledBodies)]
  BY <1>1, <1>2
<1>4. /\ bodies \in Seq(Body) /\ Len(bodies) = n
      /\ colliders \in Seq(Collider(EnabledBodies)) /\ Len(colliders) = n
  BY <1>0, <1>3, FunctionIsSeq
<1>5. EnabledBodies = {} /\ AttachedColliders = {}
  BY <1>1 DEF EnabledBodies, AttachedColliders, FreeBody, FreeCollider
<1>6. Cardinality(EnabledBodies) = 0 /\ Cardinality(AttachedColliders) = 0
  BY <1>5, FS_EmptySet
<1>7. /\ todo \in Seq(AttachedColliders \X AttachedColliders)
      /\ todo \in Seq(PairsIn(AttachedColliders))
  BY EmptySeq DEF Init
<1>8. TypeOK
  <2>1. /\ \A m \in 1 .. 4 : tree.Children[m] \in Seq(ColliderRefAabb)
        /\ tree.root \in Seq(ColliderRefAabb)
    BY NoTreeType DEF Init
  <2>2. colRefPairs \subseteq {{i, j} : i, j \in DOMAIN colliders}
    BY DEF Init
  <2>3. made \in [{"bodies", "colliders"} -> Nat] /\ settled \in BOOLEAN
    <3>1. made \in [{"bodies", "colliders"} -> Nat]
      BY DEF Init
    <3>2. settled \in BOOLEAN
      BY DEF Init
    <3>. QED  BY <3>1, <3>2
  <2>. QED  BY <1>4, <1>7, <2>1, <2>2, <2>3 DEF TypeOK
<1>9. SizesInv /\ LiveRefsAreDistinct
  BY <1>0, <1>4, <1>6 DEF SizesInv, LiveRefsAreDistinct, Init
<1>10. TreeInv /\ PassInv
  BY <1>7 DEF TreeInv, PassInv, Updating, Init
<1>. QED  BY <1>8, <1>9, <1>10 DEF WorldInv

(* A step outside a pass.  Contacts still follow the overlaps when no      *)
(* collider came and the bodies of those that are left did not move.       *)
OutsideAPass ==
    /\ ~ Updating /\ todo' = todo /\ tree' = tree
    /\ bodies' \in Seq(Body) /\ Len(bodies') > 0
    /\ colliders' \in Seq(Collider(EnabledBodies')) /\ Len(colliders') > 0
    /\ colRefPairs' \subseteq {{i, j} : i, j \in DOMAIN colliders'}
    /\ made' \in [{"bodies", "colliders"} -> Nat]
    /\ settled' \in BOOLEAN
    /\ settled' =>
          /\ settled /\ colRefPairs' = colRefPairs
          /\ AttachedColliders' \subseteq AttachedColliders
          /\ \A i \in AttachedColliders' :
                /\ colliders'[i] = colliders[i]
                /\ bodies'[colliders[i].BodyRef] = bodies[colliders[i].BodyRef]

LEMMA OutsideInvariant ==
    WorldInv /\ OutsideAPass /\ LiveRefsAreDistinct' => WorldInv'
<1>. SUFFICES ASSUME WorldInv, OutsideAPass, LiveRefsAreDistinct'
              PROVE  WorldInv'
  OBVIOUS
<1>1. todo = << >> /\ todo' = << >>
  BY DEF OutsideAPass, Updating
<1>2. /\ todo' \in Seq(AttachedColliders' \X AttachedColliders')
      /\ todo' \in Seq(PairsIn(AttachedColliders'))
  BY <1>1, EmptySeq
<1>3. TypeOK'
  BY <1>2 DEF OutsideAPass, WorldInv, TypeOK
<1>4. SizesInv'
  BY DEF OutsideAPass, SizesInv
<1>5. TreeInv'
  BY <1>1 DEF TreeInv, Updating
<1>6. PassInv'
  <2>1. ASSUME settled', NEW i \in AttachedColliders', NEW j \in AttachedColliders',
               i < j, Watched(i, j)'
        PROVE  Follows(i, j)'
    <3>1. /\ settled /\ colRefPairs' = colRefPairs
          /\ i \in AttachedColliders /\ j \in AttachedColliders
          /\ colliders'[i] = colliders[i] /\ colliders'[j] = colliders[j]
          /\ bodies'[colliders[i].BodyRef] = bodies[colliders[i].BodyRef]
          /\ bodies'[colliders[j].BodyRef] = bodies[colliders[j].BodyRef]
      BY <2>1 DEF OutsideAPass
    <3>2. Watched(i, j)
      BY <2>1, <3>1 DEF Watched
    <3>3. <<i, j>> \notin ToSet(todo)
      BY <1>1 DEF ToSet
    <3>4. Follows(i, j)
      BY <2>1, <3>1, <3>2, <3>3 DEF WorldInv, PassInv
    <3>5. Overlap(i, j)' = Overlap(i, j)
      BY <3>1 DEF Overlap, BoundsIn
    <3>. QED  BY <3>1, <3>4, <3>5 DEF Follows
  <2>. QED  BY <1>2, <2>1 DEF PassInv
<1>. QED  BY <1>3, <1>4, <1>5, <1>6 DEF WorldInv
LEMMA CreateBodyInvariant == WorldInv /\ CreateBody => WorldInv'
<1>. SUFFICES ASSUME WorldInv, CreateBody PROVE WorldInv'
  OBVIOUS
<1>1. TypeOK /\ SizesInv /\ LiveRefsAreDistinct
  BY DEF WorldInv
<1>2. PICK s : BodyTaken(s)
  BY <1>1, BodyCreated
<1>3. /\ colliders' = colliders /\ colRefPairs' = colRefPairs /\ tree' = tree
      /\ todo' = todo /\ settled' = settled /\ ~ Updating
      /\ made' = [made EXCEPT !["bodies"] = @ + 1]
      /\ made \in [{"bodies", "colliders"} -> Nat]
      /\ AttachedColliders' = AttachedColliders
  BY <1>1 DEF CreateBody, AttachedColliders, TypeOK
<1>4. colliders' \in Seq(Collider(EnabledBodies'))
  <2>1. Collider(EnabledBodies) \subseteq Collider(EnabledBodies')
    BY <1>2 DEF BodyTaken, Collider
  <2>. QED  BY <1>1, <1>3, <2>1, SlotsKnown, SeqSubset
<1>5. LiveRefsAreDistinct'
  <2>1. Cardinality(EnabledBodies \cup {s}) = Cardinality(EnabledBodies) + 1
    BY <1>1, <1>2, SlotsKnown, FS_AddElement DEF BodyTaken
  <2>. QED  BY <1>1, <1>2, <1>3, <2>1 DEF LiveRefsAreDistinct, BodyTaken
<1>6. ASSUME NEW i \in AttachedColliders
      PROVE  bodies'[colliders[i].BodyRef] = bodies[colliders[i].BodyRef]
  BY <1>1, <1>2, Attached DEF BodyTaken
<1>7. OutsideAPass
  BY SMTT(30), <1>1, <1>2, <1>3, <1>4, <1>6
  DEF OutsideAPass, BodyTaken, TypeOK, SizesInv
<1>. QED  BY <1>5, <1>7, OutsideInvariant

LEMMA DestroyBodyInvariant == \A b : WorldInv /\ DestroyBody(b) => WorldInv'
<1>. SUFFICES ASSUME NEW b, WorldInv, DestroyBody(b) PROVE WorldInv'
  OBVIOUS
<1>1. TypeOK /\ SizesInv /\ LiveRefsAreDistinct
  BY DEF WorldInv
<1>2. BodyFreed(b)
  BY <1>1, BodyDestroyed
<1>3. /\ colliders' = colliders /\ colRefPairs' = colRefPairs /\ tree' = tree
      /\ todo' = todo /\ settled' = settled /\ ~ Updating
      /\ made' = [made EXCEPT !["bodies"] = @ - 1]
      /\ made \in [{"bodies", "colliders"} -> Nat]
      /\ AttachedColliders' = AttachedColliders
      /\ b \in EnabledBodies /\ \A c \in AttachedColliders : colliders[c].BodyRef # b
  BY <1>1 DEF DestroyBody, AttachedColliders, TypeOK
<1>4. colliders' \in Seq(Collider(EnabledBodies'))
  <2>1. ASSUME NEW c \in DOMAIN colliders
        PROVE  colliders[c] \in Collider(EnabledBodies')
    <3>1. colliders[c] \in Collider(EnabledBodies)
      BY <1>1, SlotsKnown
    <3>2. CASE colliders[c].IsAttached
      <4>1. c \in AttachedColliders
        BY <3>2 DEF AttachedColliders
      <4>2. colliders[c].BodyRef # b
        BY <1>3, <4>1
      <4>. QED  BY <1>2, <3>1, <3>2, <4>2 DEF Collider, BodyFreed
    <3>3. CASE ~ colliders[c].IsAttached
      BY <3>1, <3>3 DEF Collider
    <3>. QED  BY <3>2, <3>3
  <2>2. /\ Len(colliders) \in Nat /\ DOMAIN colliders = 1 .. Len(colliders)
        /\ colliders = [c \in DOMAIN colliders |-> colliders[c]]
    <3>1. colliders \in Seq(Collider(EnabledBodies))
      BY <1>1, SlotsKnown
    <3>. QED  BY <3>1, LenProperties
  <2>3. colliders \in [1 .. Len(colliders) -> Collider(EnabledBodies')]
    BY <2>1, <2>2
  <2>. QED  BY <1>3, <2>2, <2>3, FunctionIsSeq
<1>5. LiveRefsAreDistinct' /\ made' \in [{"bodies", "colliders"} -> Nat]
  <2>1. Cardinality(EnabledBodies \ {b}) = Cardinality(EnabledBodies) - 1
    BY <1>1, <1>3, SlotsKnown, FS_RemoveElement
  <2>2. Cardinality(EnabledBodies \ {b}) \in Nat
    <3>1. IsFiniteSet(EnabledBodies \ {b})
      BY <1>1, SlotsKnown, FS_Subset
    <3>. QED  BY <3>1, FS_CardinalityType
  <2>3. made["bodies"] - 1 \in Nat
    BY <1>1, <2>1, <2>2 DEF LiveRefsAreDistinct
  <2>. QED  BY <1>1, <1>2, <1>3, <2>1, <2>3 DEF LiveRefsAreDistinct, BodyFreed
<1>6. ASSUME NEW i \in AttachedColliders
      PROVE  bodies'[colliders[i].BodyRef] = bodies[colliders[i].BodyRef]
  BY <1>1, <1>2, <1>3, Attached DEF BodyFreed
<1>7. OutsideAPass
  BY SMTT(30), <1>1, <1>2, <1>3, <1>4, <1>5, <1>6
  DEF OutsideAPass, BodyFreed, TypeOK, SizesInv
<1>. QED  BY <1>5, <1>7, OutsideInvariant

(* The pairs of slots are those of the larger vector too.                  *)
LEMMA PairsOfMore ==
    ASSUME NEW D, NEW E, D \subseteq E, NEW P, P \subseteq {{i, j} : i, j \in D}
    PROVE  P \subseteq {{i, j} : i, j \in E}
OBVIOUS

LEMMA CreateColliderInvariant == \A body : WorldInv /\ CreateCollider(body) => WorldInv'
<1>. SUFFICES ASSUME NEW body, WorldInv, CreateCollider(body) PROVE WorldInv'
  OBVIOUS
<1>1. TypeOK /\ SizesInv /\ LiveRefsAreDistinct
  BY DEF WorldInv
<1>2. PICK s : ColliderTaken(s)
  BY <1>1, ColliderCreated
<1>3. /\ bodies' = bodies /\ colRefPairs' = colRefPairs /\ tree' = tree
      /\ todo' = todo /\ settled' = FALSE /\ ~ Updating
      /\ made' = [made EXCEPT !["colliders"] = @ + 1]
      /\ made \in [{"bodies", "colliders"} -> Nat]
      /\ EnabledBodies' = EnabledBodies
      /\ colRefPairs \subseteq {{i, j} : i, j \in DOMAIN colliders}
  BY <1>1 DEF CreateCollider, EnabledBodies, TypeOK
<1>4. LiveRefsAreDistinct'
  <2>1. Cardinality(AttachedColliders \cup {s}) = Cardinality(AttachedColliders) + 1
    BY <1>1, <1>2, SlotsKnown, FS_AddElement DEF ColliderTaken
  <2>. QED  BY <1>1, <1>2, <1>3, <2>1 DEF LiveRefsAreDistinct, ColliderTaken
<1>5. colRefPairs' \subseteq {{i, j} : i, j \in DOMAIN colliders'}
  BY <1>2, <1>3, PairsOfMore DEF ColliderTaken
<1>6. made' \in [{"bodies", "colliders"} -> Nat] /\ settled' \in BOOLEAN /\ ~ settled'
  <2>1. made' \in [{"bodies", "colliders"} -> Nat]
    BY <1>3
  <2>2. settled' \in BOOLEAN /\ ~ settled'
    BY <1>3
  <2>. QED  BY <2>1, <2>2
<1>7. bodies \in Seq(Body) /\ Len(bodies) > 0
  BY <1>1 DEF TypeOK, SizesInv
<1>8. OutsideAPass
  BY <1>2, <1>3, <1>5, <1>6, <1>7 DEF OutsideAPass, ColliderTaken
<1>. QED  BY <1>4, <1>8, OutsideInvariant

LEMMA DestroyColliderInvariant == \A c : WorldInv /\ DestroyCollider(c) => WorldInv'
<1>. SUFFICES ASSUME NEW c, WorldInv, DestroyCollider(c) PROVE WorldInv'
  OBVIOUS
<1>1. TypeOK /\ SizesInv /\ LiveRefsAreDistinct
  BY DEF WorldInv
<1>2. ColliderFreed(c)
  BY <1>1, ColliderDestroyed
<1>3. /\ bodies' = bodies /\ colRefPairs' = colRefPairs /\ tree' = tree
      /\ todo' = todo /\ settled' = settled /\ ~ Updating
      /\ made' = [made EXCEPT !["colliders"] = @ - 1]
      /\ made \in [{"bodies", "colliders"} -> Nat]
      /\ EnabledBodies' = EnabledBodies /\ c \in AttachedColliders
      /\ colRefPairs \subseteq {{i, j} : i, j \in DOMAIN colliders}
  BY <1>1 DEF DestroyCollider, EnabledBodies, TypeOK
<1>4. LiveRefsAreDistinct' /\ made' \in [{"bodies", "colliders"} -> Nat]
  <2>1. Cardinality(AttachedColliders \ {c}) = Cardinality(AttachedColliders) - 1
    <3>1. IsFiniteSet(AttachedColliders) /\ c \in AttachedColliders
      BY <1>1, <1>3, SlotsKnown
    <3>. QED  BY <3>1, FS_RemoveElement
  <2>2. Cardinality(AttachedColliders \ {c}) \in Nat
    <3>1. IsFiniteSet(AttachedColliders \ {c})
      BY <1>1, SlotsKnown, FS_Subset
    <3>. QED  BY <3>1, FS_CardinalityType
  <2>3. made["colliders"] - 1 \in Nat
    BY <1>1, <2>1, <2>2 DEF LiveRefsAreDistinct
  <2>. QED  BY <1>1, <1>2, <1>3, <2>1, <2>3 DEF LiveRefsAreDistinct, ColliderFreed
<1>5. colRefPairs' \subseteq {{i, j} : i, j \in DOMAIN colliders'}
  BY <1>2, <1>3, PairsOfMore DEF ColliderFreed
<1>6. /\ bodies' \in Seq(Body) /\ Len(bodies') > 0
      /\ colliders' \in Seq(Collider(EnabledBodies')) /\ Len(colliders') > 0
      /\ settled' \in BOOLEAN
  BY <1>1, <1>2, <1>3 DEF ColliderFreed, TypeOK, SizesInv
<1>7. /\ AttachedColliders' \subseteq AttachedColliders
      /\ \A i \in AttachedColliders' :
            /\ colliders'[i] = colliders[i]
            /\ bodies'[colliders[i].BodyRef] = bodies[colliders[i].BodyRef]
  BY <1>2, <1>3 DEF ColliderFreed
<1>8. OutsideAPass
  BY <1>3, <1>4, <1>5, <1>6, <1>7 DEF OutsideAPass
<1>. QED  BY <1>4, <1>8, OutsideInvariant

LEMMA SetUpInvariant == WorldInv /\ TearDownAndSetUp => WorldInv'
<1>. SUFFICES ASSUME WorldInv, TearDownAndSetUp PROVE WorldInv'
  OBVIOUS
<1>. DEFINE n == InitSize
<1>0. n \in Nat /\ n > 0
  BY SizesAssumption
<1>1. /\ bodies' = [i \in 1 .. n |-> FreeBody(TRUE)]
      /\ colliders' = [i \in 1 .. n |-> FreeCollider(FALSE)]
      /\ colRefPairs' = {} /\ tree' = tree /\ todo' = todo /\ settled' = FALSE /\ ~ Updating
      /\ made' = [kind \in {"bodies", "colliders"} |-> 0]
  BY DEF TearDownAndSetUp
<1>. HIDE DEF n
<1>2. FreeBody(TRUE) \in Body /\ FreeCollider(FALSE) \in Collider(EnabledBodies')
  BY DEF FreeBody, Body, FreeCollider, Collider
<1>3. /\ bodies' \in [1 .. n -> Body]
      /\ colliders' \in [1 .. n -> Collider(EnabledBodies')]
  BY <1>1, <1>2
<1>4. /\ bodies' \in Seq(Body) /\ Len(bodies') = n
      /\ colliders' \in Seq(Collider(EnabledBodies')) /\ Len(colliders') = n
  BY <1>0, <1>3, FunctionIsSeq
<1>5. EnabledBodies' = {} /\ AttachedColliders' = {}
  BY <1>1 DEF EnabledBodies, AttachedColliders, FreeBody, FreeCollider
<1>6. LiveRefsAreDistinct'
  BY <1>1, <1>5, FS_EmptySet DEF LiveRefsAreDistinct
<1>7. made' \in [{"bodies", "colliders"} -> Nat]
  BY <1>1
<1>8. settled' \in BOOLEAN /\ ~ settled'
  BY <1>1
<1>9. Len(bodies') > 0 /\ Len(colliders') > 0
  BY <1>0, <1>4
<1>10. colRefPairs' \subseteq {{i, j} : i, j \in DOMAIN colliders'}
  BY <1>1
<1>11. ~ Updating /\ todo' = todo /\ tree' = tree
  BY <1>1
<1>12. OutsideAPass
  BY <1>4, <1>7, <1>8, <1>9, <1>10, <1>11 DEF OutsideAPass
<1>. QED  BY <1>6, <1>12, OutsideInvariant
(* UpdateBodies() and SetUpQuadTree(): every pair is to be looked at,      *)
(* unless the tree is crowded.                                             *)
LEMMA UpdateInvariant == WorldInv /\ Update => WorldInv'
<1>. SUFFICES ASSUME WorldInv, Update PROVE WorldInv'
  OBVIOUS
<1>. DEFINE A == AttachedColliders
            new == SetUpQuadTree(bodies')
            box == Boxes(bodies')
<1>1. TypeOK /\ SizesInv /\ LiveRefsAreDistinct
  BY DEF WorldInv
<1>2. /\ bodies' \in Moved(EnabledBodies)
      /\ colliders' = colliders /\ colRefPairs' = colRefPairs /\ made' = made
      /\ settled' = Uncrowded
      /\ todo' = PairsOfTree(new)
      /\ tree' = IF todo' = << >> THEN NoTree ELSE new
  BY DEF Update
<1>3. /\ bodies' \in Seq(Body) /\ Len(bodies') = Len(bodies)
      /\ DOMAIN bodies' = DOMAIN bodies
      /\ \A i \in DOMAIN bodies : bodies'[i].enabled = bodies[i].enabled
  BY <1>1, <1>2, SlotsKnown, MovedBodies
<1>4. EnabledBodies' = EnabledBodies /\ AttachedColliders' = A
  BY <1>2, <1>3 DEF EnabledBodies, AttachedColliders
<1>5. \A b \in EnabledBodies : bodies'[b].Position \in Position
  <2>1. \A b \in DOMAIN bodies' : bodies'[b] \in Body
    BY <1>3, LenProperties, ElementOfSeq
  <2>. QED  BY <1>3, <2>1 DEF EnabledBodies, Body
<1>6. box \in [A -> Box]
  BY <1>1, <1>5, BoxesAreBoxes
<1>7. /\ Len(colliders) \in Nat /\ DOMAIN colliders = 1 .. Len(colliders)
      /\ A \in SUBSET Nat
  BY <1>1, SlotsKnown
<1>8. Holds(new, A, box) /\ \A i \in A : CoversBox(new.Bounds, box[i])
  BY <1>6, <1>7, TreeIsSetUp
<1>. HIDE DEF A, new, box
<1>9. /\ todo' \in Seq(PairsIn(A))
      /\ \A i, j \in A : i < j =>
            (Cardinality(A) <= MaxColNbr => Times(todo', <<i, j>>) = 1)
  BY <1>2, <1>7, <1>8, PairsOfTheTree
<1>10. todo' \in Seq(A \X A)
  <2>1. PairsIn(A) \subseteq A \X A
    BY DEF PairsIn
  <2>. QED  BY <1>9, <2>1, SeqSubset
<1>11. /\ \A n \in 1 .. 4 : tree'.Children[n] \in Seq(ColliderRefAabb)
       /\ tree'.root \in Seq(ColliderRefAabb)
  <2>1. CASE todo' = << >>
    BY <1>2, <2>1, NoTreeType
  <2>2. CASE todo' # << >>
    BY <1>2, <1>8, <2>2, HeldTreeType
  <2>. QED  BY <2>1, <2>2
<1>12. TypeOK'
  <2>1. settled' \in BOOLEAN
    BY <1>2 DEF Uncrowded
  <2>2. /\ colliders' \in Seq(Collider(EnabledBodies'))
        /\ colRefPairs' \subseteq {{i, j} : i, j \in DOMAIN colliders'}
        /\ made' \in [{"bodies", "colliders"} -> Nat]
    BY <1>1, <1>2, <1>4 DEF TypeOK
  <2>3. todo' \in Seq(AttachedColliders' \X AttachedColliders')
    BY <1>4, <1>10
  <2>. QED  BY <1>3, <1>11, <2>1, <2>2, <2>3 DEF TypeOK
<1>13. SizesInv' /\ LiveRefsAreDistinct'
  BY <1>1, <1>2, <1>3, <1>4 DEF SizesInv, LiveRefsAreDistinct, A
<1>14. TreeInv'
  <2>1. ASSUME todo' # << >>
        PROVE  /\ Holds(tree', A, box)
               /\ \A i \in A : CoversBox(tree'.Bounds, box[i])
    BY <1>2, <1>8, <2>1
  <2>. QED  BY <1>4, <1>6, <2>1 DEF TreeInv, Updating
<1>15. PassInv'
  <2>1. ASSUME settled', NEW i \in A, NEW j \in A, i < j
        PROVE  <<i, j>> \in ToSet(todo')
    <3>1. Cardinality(A) <= MaxColNbr
      BY <1>2, <2>1 DEF Uncrowded, A
    <3>2. Times(todo', <<i, j>>) = 1
      BY <1>9, <2>1, <3>1
    <3>3. PICK k \in 1 .. Len(todo') : todo'[k] = <<i, j>>
      BY <1>9, <3>2, TimesIsNat
    <3>4. DOMAIN todo' = 1 .. Len(todo')
      BY <1>9, LenProperties
    <3>. QED  BY <3>3, <3>4 DEF ToSet
  <2>2. todo' \in Seq(PairsIn(AttachedColliders'))
    BY <1>4, <1>9
  <2>. QED  BY <1>4, <2>1, <2>2 DEF PassInv
<1>. QED  BY <1>12, <1>13, <1>14, <1>15 DEF WorldInv

(* One pair of a leaf.  Contacts still follow the overlaps when nothing    *)
(* moved and the contact of this pair alone changed, to its overlap.       *)
OthersKept(i, j) ==
    \A k, l \in AttachedColliders :
        {k, l} # {i, j} => ({k, l} \in colRefPairs' <=> {k, l} \in colRefPairs)

DuringAPass(i, j) ==
    /\ LookAt(i, j)
    /\ bodies' \in Seq(Body) /\ Len(bodies') = Len(bodies)
    /\ EnabledBodies' = EnabledBodies
    /\ colRefPairs' \subseteq {{k, l} : k, l \in DOMAIN colliders}
    /\ settled' \in BOOLEAN
    /\ settled' =>
          /\ settled /\ bodies' = bodies /\ OthersKept(i, j)
          /\ Watched(i, j) => ({i, j} \in colRefPairs' <=> Overlap(i, j))

LEMMA DuringInvariant == \A i, j : WorldInv /\ DuringAPass(i, j) => WorldInv'
<1>. SUFFICES ASSUME NEW i, NEW j, WorldInv, DuringAPass(i, j)
              PROVE  WorldInv'
  OBVIOUS
<1>. DEFINE A == AttachedColliders
<1>1. TypeOK /\ SizesInv /\ LiveRefsAreDistinct
  BY DEF WorldInv
<1>2. /\ todo # << >> /\ Head(todo) = <<i, j>> /\ todo' = Tail(todo)
      /\ colliders' = colliders /\ made' = made
      /\ tree' = IF todo' = << >> THEN NoTree ELSE tree
      /\ EnabledBodies' = EnabledBodies /\ AttachedColliders' = A
      /\ bodies' \in Seq(Body) /\ Len(bodies') = Len(bodies)
  BY DEF DuringAPass, LookAt, AttachedColliders
<1>3. todo \in Seq(PairsIn(A))
  BY DEF WorldInv, PassInv
<1>. HIDE DEF A
<1>4. /\ Len(todo) \in Nat /\ Len(todo) > 0 /\ DOMAIN todo = 1 .. Len(todo)
      /\ todo[1] = <<i, j>> /\ todo[1] \in PairsIn(A)
      /\ todo' \in Seq(PairsIn(A)) /\ Len(todo') = Len(todo) - 1
      /\ \A k \in 1 .. Len(todo) - 1 : todo'[k] = todo[k + 1]
  <2>1. Len(todo) \in Nat /\ DOMAIN todo = 1 .. Len(todo) /\ Len(todo) > 0
    BY <1>2, <1>3, LenProperties, EmptySeq
  <2>2. todo[1] = <<i, j>> /\ todo[1] \in PairsIn(A)
    BY <1>2, <1>3, <2>1, HeadTailProperties, ElementOfSeq
  <2>. QED  BY <1>2, <1>3, <2>1, <2>2, HeadTailProperties
<1>5. i \in A /\ j \in A /\ i < j
  BY <1>4 DEF PairsIn
<1>6. todo' \in Seq(A \X A)
  <2>1. PairsIn(A) \subseteq A \X A
    BY DEF PairsIn
  <2>. QED  BY <1>4, <2>1, SeqSubset
<1>7. TypeOK'
  <2>1. /\ \A n \in 1 .. 4 : tree'.Children[n] \in Seq(ColliderRefAabb)
        /\ tree'.root \in Seq(ColliderRefAabb)
    <3>1. CASE todo' = << >>
      BY <1>2, <3>1, NoTreeType
    <3>2. CASE todo' # << >>
      BY <1>1, <1>2, <3>2 DEF TypeOK
    <3>. QED  BY <3>1, <3>2
  <2>2. /\ colliders' \in Seq(Collider(EnabledBodies'))
        /\ made' \in [{"bodies", "colliders"} -> Nat]
    BY <1>1, <1>2 DEF TypeOK
  <2>3. todo' \in Seq(AttachedColliders' \X AttachedColliders')
    BY <1>2, <1>6
  <2>4. /\ colRefPairs' \subseteq {{k, l} : k, l \in DOMAIN colliders'}
        /\ settled' \in BOOLEAN
    BY <1>2 DEF DuringAPass
  <2>. QED  BY <1>2, <2>1, <2>2, <2>3, <2>4 DEF TypeOK
<1>8. SizesInv' /\ LiveRefsAreDistinct'
  BY <1>1, <1>2 DEF SizesInv, LiveRefsAreDistinct, A
<1>9. TreeInv'
  <2>1. ASSUME todo' # << >>
        PROVE  \E box \in [A -> Box] : /\ Holds(tree', A, box)
                                       /\ \A k \in A : CoversBox(tree'.Bounds, box[k])
    <3>1. tree' = tree
      BY <1>2, <2>1
    <3>2. Updating
      BY <1>2 DEF Updating
    <3>. QED  BY <3>1, <3>2 DEF WorldInv, TreeInv, A
  <2>. QED  BY <1>2, <2>1 DEF TreeInv, Updating
<1>10. PassInv'
  <2>1. ASSUME settled', NEW k \in A, NEW l \in A, k < l, Watched(k, l)',
               <<k, l>> \notin ToSet(todo')
        PROVE  Follows(k, l)'
    <3>1. /\ settled /\ bodies' = bodies
          /\ {k, l} # {i, j} => ({k, l} \in colRefPairs' <=> {k, l} \in colRefPairs)
          /\ Watched(i, j) => ({i, j} \in colRefPairs' <=> Overlap(i, j))
      <4>1. /\ settled /\ bodies' = bodies /\ OthersKept(i, j)
            /\ Watched(i, j) => ({i, j} \in colRefPairs' <=> Overlap(i, j))
        BY <2>1 DEF DuringAPass
      <4>2. {k, l} # {i, j} => ({k, l} \in colRefPairs' <=> {k, l} \in colRefPairs)
        BY <4>1 DEF OthersKept, A
      <4>. QED  BY <4>1, <4>2
    <3>2. Watched(k, l) /\ (Overlap(k, l)' <=> Overlap(k, l))
      BY <1>2, <2>1, <3>1 DEF Watched, Overlap, BoundsIn
    <3>3. CASE k = i /\ l = j
      BY <3>1, <3>2, <3>3 DEF Follows
    <3>4. CASE ~ (k = i /\ l = j)
      <4>1. A \in SUBSET Nat
        BY <1>1, SlotsKnown DEF A
      <4>2. {k, l} # {i, j}
        BY <1>5, <2>1, <3>4, <4>1
      <4>3. <<k, l>> \notin ToSet(todo)
        <5>1. SUFFICES ASSUME NEW m \in 1 .. Len(todo), todo[m] = <<k, l>> PROVE FALSE
          BY <1>4 DEF ToSet
        <5>2. m # 1
          BY <1>4, <3>4, <5>1
        <5>3. m - 1 \in 1 .. Len(todo) - 1 /\ todo'[m - 1] = todo[m]
          BY <1>4, <5>2
        <5>4. DOMAIN todo' = 1 .. Len(todo) - 1
          BY <1>4, LenProperties
        <5>. QED  BY <2>1, <5>1, <5>3, <5>4 DEF ToSet
      <4>4. Follows(k, l)
        BY <2>1, <3>1, <3>2, <4>3 DEF WorldInv, PassInv, A
      <4>. QED  BY <3>1, <3>2, <4>2, <4>4 DEF Follows
    <3>. QED  BY <3>3, <3>4
  <2>2. todo' \in Seq(PairsIn(AttachedColliders'))
    BY <1>2, <1>4
  <2>. QED  BY <1>2, <2>1, <2>2 DEF PassInv
<1>. QED  BY <1>7, <1>8, <1>9, <1>10 DEF WorldInv

LEMMA SkipPairInvariant == \A i, j : WorldInv /\ SkipPair(i, j) => WorldInv'
<1>. SUFFICES ASSUME NEW i, NEW j, WorldInv, SkipPair(i, j) PROVE WorldInv'
  OBVIOUS
<1>1. TypeOK
  BY DEF WorldInv
<1>2. /\ LookAt(i, j) /\ colliders[i].BodyRef = colliders[j].BodyRef
      /\ bodies' = bodies /\ colRefPairs' = colRefPairs /\ settled' = settled
  BY DEF SkipPair
<1>3. EnabledBodies' = EnabledBodies
  BY <1>2 DEF EnabledBodies
<1>4. ~ Watched(i, j)
  BY <1>2 DEF Watched
<1>5. DuringAPass(i, j)
  BY <1>1, <1>2, <1>3, <1>4 DEF DuringAPass, OthersKept, TypeOK
<1>. QED  BY <1>5, DuringInvariant

LEMMA CollideInvariant == \A i, j : WorldInv /\ Collide(i, j) => WorldInv'
<1>. SUFFICES ASSUME NEW i, NEW j, WorldInv, Collide(i, j) PROVE WorldInv'
  OBVIOUS
<1>1. TypeOK
  BY DEF WorldInv
<1>2. /\ LookAt(i, j) /\ ~ colliders[i].IsTrigger /\ ~ colliders[j].IsTrigger
      /\ colRefPairs' = colRefPairs
      /\ settled' = (settled /\ bodies' = bodies)
      /\ bodies' = bodies \/ bodies' \in Moved({colliders[i].BodyRef, colliders[j].BodyRef})
  BY DEF Collide
<1>3. /\ bodies' \in Seq(Body) /\ Len(bodies') = Len(bodies)
      /\ EnabledBodies' = EnabledBodies
  <2>1. CASE bodies' = bodies
    BY <1>1, <2>1, SlotsKnown DEF EnabledBodies
  <2>2. CASE bodies' \in Moved({colliders[i].BodyRef, colliders[j].BodyRef})
    BY <1>1, <2>2, SlotsKnown, MovedBodies DEF EnabledBodies
  <2>. QED  BY <1>2, <2>1, <2>2
<1>4. ~ Watched(i, j)
  BY <1>2 DEF Watched
<1>5. settled' \in BOOLEAN /\ (settled' => settled /\ bodies' = bodies)
  BY <1>1, <1>2 DEF TypeOK
<1>6. DuringAPass(i, j)
  BY <1>1, <1>2, <1>3, <1>4, <1>5 DEF DuringAPass, OthersKept, TypeOK
<1>. QED  BY <1>6, DuringInvariant

LEMMA TriggerInvariant == \A i, j : WorldInv /\ Trigger(i, j) => WorldInv'
<1>. SUFFICES ASSUME NEW i, NEW j, WorldInv, Trigger(i, j) PROVE WorldInv'
  OBVIOUS
<1>1. TypeOK
  BY DEF WorldInv
<1>2. /\ LookAt(i, j) /\ colRefPairs' = ContactsAfter(i, j)
      /\ settled' = (settled /\ bodies' = bodies)
      /\ bodies' = bodies \/ bodies' \in Moved(EnabledBodies)
  BY DEF Trigger
<1>3. /\ bodies' \in Seq(Body) /\ Len(bodies') = Len(bodies)
      /\ EnabledBodies' = EnabledBodies
  <2>1. CASE bodies' = bodies
    BY <1>1, <2>1, SlotsKnown DEF EnabledBodies
  <2>2. CASE bodies' \in Moved(EnabledBodies)
    BY <1>1, <2>2, SlotsKnown, MovedBodies DEF EnabledBodies
  <2>. QED  BY <1>2, <2>1, <2>2
<1>4. settled' \in BOOLEAN /\ (settled' => settled /\ bodies' = bodies)
  BY <1>1, <1>2 DEF TypeOK
<1>5. i \in DOMAIN colliders /\ j \in DOMAIN colliders
  <2>1. todo \in Seq(AttachedColliders \X AttachedColliders) /\ todo # << >>
        /\ Head(todo) = <<i, j>>
    BY <1>1, <1>2 DEF TypeOK, LookAt
  <2>2. <<i, j>> \in AttachedColliders \X AttachedColliders
    BY <2>1, HeadTailProperties
  <2>. QED  BY <2>2 DEF AttachedColliders
<1>6. colRefPairs' \subseteq {{k, l} : k, l \in DOMAIN colliders}
  <2>1. colRefPairs' \subseteq colRefPairs \cup {{i, j}}
    BY <1>2 DEF ContactsAfter
  <2>2. {i, j} \in {{k, l} : k, l \in DOMAIN colliders}
    BY <1>5
  <2>. DEFINE P == {{k, l} : k, l \in DOMAIN colliders}
  <2>3. colRefPairs \subseteq P /\ {i, j} \in P
    <3>1. colRefPairs \subseteq P
      BY <1>1 DEF TypeOK
    <3>. QED  BY <2>2, <3>1
  <2>4. colRefPairs' \subseteq P
    <3>. HIDE DEF P
    <3>. QED  BY <2>1, <2>3
  <2>. QED  BY <2>4
<1>7. /\ OthersKept(i, j)
      /\ {i, j} \in colRefPairs' <=> Overlap(i, j)
  BY <1>2 DEF ContactsAfter, OthersKept
<1>8. DuringAPass(i, j)
  BY <1>2, <1>3, <1>4, <1>6, <1>7 DEF DuringAPass
<1>. QED  BY <1>8, DuringInvariant
LEMMA StutterInvariant == WorldInv /\ UNCHANGED vars => WorldInv'
<1>. SUFFICES ASSUME WorldInv, UNCHANGED vars PROVE WorldInv'
  OBVIOUS
<1>1. /\ bodies' = bodies /\ colliders' = colliders /\ colRefPairs' = colRefPairs
      /\ tree' = tree /\ todo' = todo /\ made' = made /\ settled' = settled
      /\ EnabledBodies' = EnabledBodies /\ AttachedColliders' = AttachedColliders
  BY DEF vars, EnabledBodies, AttachedColliders
<1>2. TypeOK' /\ SizesInv' /\ LiveRefsAreDistinct'
  BY <1>1 DEF WorldInv, TypeOK, SizesInv, LiveRefsAreDistinct
<1>3. TreeInv'
  BY <1>1 DEF WorldInv, TreeInv, Updating
<1>4. PassInv'
  <2>1. \A i, j : /\ Watched(i, j)' <=> Watched(i, j)
                  /\ Follows(i, j)' <=> Follows(i, j)
    BY <1>1 DEF Watched, Follows, Overlap, BoundsIn
  <2>. QED  BY <1>1, <2>1 DEF WorldInv, PassInv
<1>. QED  BY <1>2, <1>3, <1>4 DEF WorldInv

(* The inductive invariant of the world.                                   *)
THEOREM WorldInvariant == Spec => []WorldInv
<1>1. Init => WorldInv
  BY InitInvariant
<1>2. WorldInv /\ [Next]_vars => WorldInv'
  <2>. SUFFICES ASSUME WorldInv, [Next]_vars PROVE WorldInv'
    OBVIOUS
  <2>1. CASE CreateBody
    BY <2>1, CreateBodyInvariant
  <2>2. CASE TearDownAndSetUp
    BY <2>2, SetUpInvariant
  <2>3. CASE Update
    BY <2>3, UpdateInvariant
  <2>4. ASSUME NEW i, DestroyBody(i) PROVE WorldInv'
    BY <2>4, DestroyBodyInvariant
  <2>5. ASSUME NEW i, CreateCollider(i) PROVE WorldInv'
    BY <2>5, CreateColliderInvariant
  <2>6. ASSUME NEW i, DestroyCollider(i) PROVE WorldInv'
    BY <2>6, DestroyColliderInvariant
  <2>7. ASSUME NEW i, NEW j, SkipPair(i, j) PROVE WorldInv'
    BY <2>7, SkipPairInvariant
  <2>8. ASSUME NEW i, NEW j, Collide(i, j) PROVE WorldInv'
    BY <2>8, CollideInvariant
  <2>9. ASSUME NEW i, NEW j, Trigger(i, j) PROVE WorldInv'
    BY <2>9, TriggerInvariant
  <2>10. CASE UNCHANGED vars
    BY <2>10, StutterInvariant
  <2>. QED  BY <2>1, <2>2, <2>3, <2>4, <2>5, <2>6, <2>7, <2>8, <2>9, <2>10 DEF Next
<1>. QED  BY <1>1, <1>2, PTL DEF Spec

-----------------------------------------------------------------------------
(* The properties. *)

(* Bodies, colliders, pairs, tree and the rest of a pass stay well-formed: *)
(* an attached collider refers to an enabled body, and the pairs still to  *)
(* be looked at are of attached colliders.                                 *)
THEOREM TypeCorrect == Spec => []TypeOK
<1>1. WorldInv => TypeOK
  BY DEF WorldInv
<1>. QED  BY <1>1, WorldInvariant, PTL

(* CreateBody() and CreateCollider() never hand out a slot in use, however *)
(* often the vectors grew and slots were freed.                            *)
THEOREM LiveRefsStayDistinct == Spec => []LiveRefsAreDistinct
<1>1. WorldInv => LiveRefsAreDistinct
  BY DEF WorldInv
<1>. QED  BY <1>1, WorldInvariant, PTL

(* SetUpQuadTree() misses nobody: wherever the boxes lie on the borders of *)
(* the quarters and whenever the root is divided, two that meet are in a   *)
(* leaf together.                                                          *)
THEOREM OverlapsAlwaysShareALeaf == Spec => []OverlapsShareALeaf
<1>1. WorldInv => OverlapsShareALeaf
  <2>. SUFFICES ASSUME WorldInv, Updating
                PROVE  SharesLeaves(tree, AttachedColliders)
    BY DEF OverlapsShareALeaf, SharesLeaves
  <2>1. AttachedColliders \in SUBSET Nat
    BY SlotsKnown DEF WorldInv
  <2>2. PICK box \in [AttachedColliders -> Box] :
           /\ Holds(tree, AttachedColliders, box)
           /\ \A i \in AttachedColliders : CoversBox(tree.Bounds, box[i])
    BY DEF WorldInv, TreeInv
  <2>3. \A i \in AttachedColliders : box[i] \in Box
    BY <2>2
  <2>. QED  BY <2>1, <2>2, <2>3, LeavesShared
<1>. QED  BY <1>1, WorldInvariant, PTL

(* The loops of UpdateQuadTreeCollisions() look at a pair four times at    *)
(* most, and exactly once up to MAX_COL_NBR colliders.                     *)
THEOREM EveryPairIsLookedAtOnce == Spec => []EveryPairOnce
<1>1. WorldInv => EveryPairOnce
  <2>. SUFFICES ASSUME WorldInv, Updating,
                       NEW i \in AttachedColliders, NEW j \in AttachedColliders, i < j
                PROVE  /\ Times(PairsOfTree(tree), <<i, j>>) <= 4
                       /\ Uncrowded => Times(PairsOfTree(tree), <<i, j>>) = 1
    BY DEF EveryPairOnce, Times
  <2>1. AttachedColliders \in SUBSET Nat
    BY SlotsKnown DEF WorldInv
  <2>2. PICK box \in [AttachedColliders -> Box] : Holds(tree, AttachedColliders, box)
    BY DEF WorldInv, TreeInv
  <2>. QED  BY <2>1, <2>2, PairsOfTheTree DEF Uncrowded
<1>. QED  BY <1>1, WorldInvariant, PTL

(* After a pass in which nothing moved, two colliders of different bodies, *)
(* one of them a trigger, are in _colRefPairs if and only if they overlap. *)
THEOREM ContactsAlwaysFollowOverlaps == Spec => []ContactsFollowOverlaps
<1>1. WorldInv => ContactsFollowOverlaps
  <2>. SUFFICES ASSUME WorldInv, ~ Updating, settled,
                       NEW i \in AttachedColliders, NEW j \in AttachedColliders,
                       Watched(i, j)
                PROVE  Follows(i, j)
    BY DEF ContactsFollowOverlaps, Watched, Follows
  <2>1. TypeOK /\ AttachedColliders \in SUBSET Nat
    BY SlotsKnown DEF WorldInv
  <2>2. \A k, l : <<k, l>> \notin ToSet(todo)
    BY DEF Updating, ToSet
  <2>3. ASSUME NEW k \in AttachedColliders, NEW l \in AttachedColliders,
               k < l, Watched(k, l)
        PROVE  Follows(k, l)
    BY <2>2, <2>3 DEF WorldInv, PassInv
  <2>4. i # j
    BY DEF Watched
  <2>5. CASE i < j
    BY <2>3, <2>5
  <2>6. CASE j < i
    <3>1. Watched(j, i)
      BY DEF Watched
    <3>2. Follows(j, i)
      BY <2>3, <2>6, <3>1
    <3>3. BoundsIn(bodies, i) \in Box /\ BoundsIn(bodies, j) \in Box
      <4>1. Boxes(bodies) \in [AttachedColliders -> Box]
        BY <2>1, BodiesHavePositions, BoxesAreBoxes
      <4>. QED  BY <4>1 DEF Boxes
    <3>4. Overlap(i, j) <=> Overlap(j, i)
      <4>. DEFINE r == BoundsIn(bodies, i)
                  s == BoundsIn(bodies, j)
      <4>1. /\ r.x.min \in Int /\ r.x.max \in Int /\ r.y.min \in Int /\ r.y.max \in Int
            /\ s.x.min \in Int /\ s.x.max \in Int /\ s.y.min \in Int /\ s.y.max \in Int
        BY <3>3 DEF Box, Rectangle, Interval
      <4>. HIDE DEF r, s
      <4>2. Intersect(r, s) <=> Intersect(s, r)
        BY <4>1 DEF Intersect, Apart
      <4>. QED  BY <4>2 DEF Overlap, r, s
    <3>5. {i, j} = {j, i}
      OBVIOUS
    <3>. QED  BY <3>2, <3>4, <3>5 DEF Follows
  <2>. QED  BY <2>1, <2>4, <2>5, <2>6
<1>. QED  BY <1>1, WorldInvariant, PTL
=============================================================================
