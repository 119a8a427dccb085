---------------------------- MODULE FilterProofs ----------------------------
(***************************************************************************)
(* Induction over numbers and over lists, stated with sets in the place of *)
(* predicates, and what it shows of filtered lists.                        *)
(***************************************************************************)
EXTENDS Filter, SequenceTheorems, FiniteSetTheorems, WellFoundedInduction, TLAPS

(* A set of numbers has a least one.                                       *)
LEMMA LeastOf ==
  ASSUME NEW T, T \subseteq Nat, T # {}
  PROVE  \E m \in T : \A n \in T : m <= n
<1> DEFINE Less == OpToRel(<, Nat)
<1>1. \A n \in Nat, m \in Nat : <<n, m>> \in Less <=> n < m
  BY DEF OpToRel
<1>2. IsWellFoundedOn(Less, Nat)
  BY NatLessThanWellFounded
<1> HIDE DEF Less
<1>3. PICK m \in T : \A n \in T : ~ (<<n, m>> \in Less)
  BY <1>2, WFMin
<1>4. ASSUME NEW n \in T PROVE m <= n
  <2>1. n \in Nat /\ m \in Nat
    OBVIOUS
  <2>2. ~ (n < m)
    BY <1>1, <1>3, <2>1
  <2> QED
    BY <2>1, <2>2
<1> QED
  BY <1>3, <1>4

(* A set with the empty list, and with a longer list for every one in it,  *)
(* has every list.                                                         *)
LEMMA ListInduction ==
  ASSUME NEW S, NEW T,
         <<>> \in T, \A s \in Seq(S), e \in S : s \in T => Append(s, e) \in T
  PROVE  Seq(S) \subseteq T
<1> DEFINE Lengths == {n \in Nat : \E s \in Seq(S) : Len(s) = n /\ s \notin T}
<1> SUFFICES ASSUME NEW s0 \in Seq(S), s0 \notin T PROVE FALSE
  OBVIOUS
<1>1. Lengths \subseteq Nat /\ Lengths # {}
  <2>1. Len(s0) \in Lengths
    BY LenProperties
  <2> QED
    BY <2>1
<1>2. PICK m \in Lengths : \A n \in Lengths : m <= n
  BY <1>1, LeastOf
<1>3. PICK s \in Seq(S) : Len(s) = m /\ s \notin T
  BY <1>2
<1>4. PICK r \in Seq(S), e \in S : s = Append(r, e)
  BY <1>3, SequenceEmptyOrAppend
<1>5. Len(r) \in Nat /\ Len(s) = Len(r) + 1
  BY <1>4, AppendProperties, LenProperties
<1>6. r \notin T
  BY <1>3, <1>4
<1>7. Len(r) \in Lengths
  BY <1>5, <1>6
<1>8. m <= Len(r)
  BY <1>2, <1>7
<1> QED
  BY <1>3, <1>5, <1>8

---------------------------------------------------------------------------
(* The recursion of Chosen. *)

Pass(list, keep, f, n) ==
  IF n = 0 THEN <<>>
  ELSE IF list[n] \in keep THEN Append(f[n - 1], list[n])
  ELSE f[n - 1]

Filters(list, keep, f, m) == f = [n \in 0..m |-> Pass(list, keep, f, n)]

(* A filter up to one entry more agrees with the filter before it.         *)
LEMMA FilterGrows ==
  ASSUME NEW list, NEW keep, NEW m \in Nat, NEW g, Filters(list, keep, g, m)
  PROVE  LET f == [n \in 0..(m + 1) |-> IF n = m + 1 THEN Pass(list, keep, g, n) ELSE g[n]]
         IN Filters(list, keep, f, m + 1)
<1> DEFINE f == [n \in 0..(m + 1) |-> IF n = m + 1 THEN Pass(list, keep, g, n) ELSE g[n]]
<1>1. \A n \in 0..m : g[n] = Pass(list, keep, g, n)
  BY DEF Filters
<1>2. \A n \in 0..m : f[n] = g[n]
  OBVIOUS
<1>3. f[m + 1] = Pass(list, keep, g, m + 1)
  OBVIOUS
<1>4. f = [n \in 0..(m + 1) |-> f[n]]
  OBVIOUS
<1> HIDE DEF f
<1>5. ASSUME NEW n \in 0..(m + 1)
      PROVE  f[n] = Pass(list, keep, f, n)
  <2>1. Pass(list, keep, f, n) = Pass(list, keep, g, n)
    <3>1. CASE n = 0
      BY <3>1 DEF Pass
    <3>2. CASE n # 0
      <4>1. n - 1 \in 0..m
        BY <3>2
      <4> QED
        BY <1>2, <3>2, <4>1 DEF Pass
    <3> QED
      BY <3>1, <3>2
  <2>2. f[n] = Pass(list, keep, g, n)
    <3>1. CASE n = m + 1
      BY <1>3, <3>1
    <3>2. CASE n # m + 1
      <4>1. n \in 0..m
        BY <3>2
      <4> QED
        BY <1>1, <1>2, <4>1
    <3> QED
      BY <3>1, <3>2
  <2> QED
    BY <2>1, <2>2
<1>6. Filters(list, keep, f, m + 1)
  BY <1>4, <1>5 DEF Filters
<1> QED
  BY <1>6 DEF f

LEMMA FilterExists ==
  ASSUME NEW list, NEW keep, NEW m \in Nat
  PROVE  \E f : Filters(list, keep, f, m)
<1> DEFINE T == {n \in Nat : ~ \E f : Filters(list, keep, f, n)}
<1> SUFFICES ASSUME T # {} PROVE FALSE
  OBVIOUS
<1>1. PICK k \in T : \A n \in T : k <= n
  BY LeastOf
<1>2. k # 0
  <2>1. Filters(list, keep, [n \in 0..0 |-> <<>>], 0)
    BY DEF Filters, Pass
  <2> QED
    BY <2>1
<1>3. k - 1 \in Nat /\ k - 1 \notin T /\ (k - 1) + 1 = k
  BY <1>1, <1>2
<1>4. PICK g : Filters(list, keep, g, k - 1)
  BY <1>3
<1>5. \E f : Filters(list, keep, f, (k - 1) + 1)
  BY <1>3, <1>4, FilterGrows
<1> QED
  BY <1>3, <1>5

LEMMA ChosenIsFilter ==
  ASSUME NEW list, NEW keep, Len(list) \in Nat
  PROVE  \E f : Filters(list, keep, f, Len(list)) /\ Chosen(list, keep) = f[Len(list)]
<1>1. \E f : Filters(list, keep, f, Len(list))
  BY FilterExists
<1>2. Chosen(list, keep) = (CHOOSE f : Filters(list, keep, f, Len(list)))[Len(list)]
  BY DEF Chosen, Filters, Pass
<1> QED
  BY <1>1, <1>2

---------------------------------------------------------------------------
(* Lemmas about Chosen. *)

LEMMA ChosenEmpty ==
  ASSUME NEW keep
  PROVE  Chosen(<<>>, keep) = <<>>
<1>1. Len(<<>>) = 0
  OBVIOUS
<1>2. PICK f : Filters(<<>>, keep, f, 0) /\ Chosen(<<>>, keep) = f[0]
  BY <1>1, ChosenIsFilter
<1> QED
  BY <1>2 DEF Filters, Pass

LEMMA ChosenAppend ==
  ASSUME NEW S, NEW s \in Seq(S), NEW e \in S, NEW keep
  PROVE  Chosen(Append(s, e), keep) =
           IF e \in keep THEN Append(Chosen(s, keep), e) ELSE Chosen(s, keep)
<1> DEFINE t == Append(s, e)
           m == Len(s)
<1>1. /\ m \in Nat /\ Len(t) = m + 1 /\ t[m + 1] = e
      /\ \A n \in 1..m : t[n] = s[n]
  BY AppendProperties, LenProperties
<1> HIDE DEF t, m
<1>2. PICK f : Filters(s, keep, f, m) /\ Chosen(s, keep) = f[m]
  BY <1>1, ChosenIsFilter DEF m
<1>3. PICK g : Filters(t, keep, g, m + 1) /\ Chosen(t, keep) = g[m + 1]
  <2>1. Len(t) \in Nat
    BY <1>1
  <2>2. PICK g : Filters(t, keep, g, Len(t)) /\ Chosen(t, keep) = g[Len(t)]
    BY <2>1, ChosenIsFilter
  <2> QED
    BY <1>1, <2>2
<1>4. g[m] = f[m]
  <2> DEFINE T == {n \in 0..m : f[n] # g[n]}
  <2> SUFFICES ASSUME T # {} PROVE FALSE
    BY <1>1
  <2>1. T \subseteq Nat
    BY <1>1
  <2> HIDE DEF T
  <2>2. PICK n \in T : \A i \in T : n <= i
    BY <2>1, LeastOf
  <2> USE DEF T
  <2>3. f[n] = Pass(s, keep, f, n) /\ g[n] = Pass(t, keep, g, n)
    <3>1. n \in 0..m /\ n \in 0..(m + 1)
      BY <1>1
    <3> HIDE DEF T
    <3>2. f[n] = Pass(s, keep, f, n)
      BY <1>2, <3>1 DEF Filters
    <3>3. g[n] = Pass(t, keep, g, n)
      BY <1>3, <3>1 DEF Filters
    <3> QED
      BY <3>2, <3>3
  <2>4. n # 0
    BY <2>3 DEF Pass
  <2>5. n - 1 \in 0..m /\ n - 1 \notin T /\ n \in 1..m
    BY <1>1, <2>2, <2>4
  <2>6. f[n - 1] = g[n - 1] /\ s[n] = t[n]
    BY <1>1, <2>5
  <2> QED
    BY <2>3, <2>4, <2>6 DEF Pass
<1>5. g[m + 1] = Pass(t, keep, g, m + 1)
  BY <1>1, <1>3 DEF Filters
<1>6. (m + 1) - 1 = m /\ m + 1 # 0
  BY <1>1
<1> QED
  BY <1>1, <1>2, <1>3, <1>4, <1>5, <1>6 DEF Pass, t

(* What is chosen is in the list and is to be kept, and all of that.       *)
LEMMA ChosenEntries ==
  ASSUME NEW S, NEW list \in Seq(S), NEW keep
  PROVE  /\ Chosen(list, keep) \in Seq(S)
         /\ \A i \in 1..Len(Chosen(list, keep)) :
              Chosen(list, keep)[i] \in keep
              /\ \E j \in 1..Len(list) : Chosen(list, keep)[i] = list[j]
         /\ \A j \in 1..Len(list) :
              list[j] \in keep =>
                \E i \in 1..Len(Chosen(list, keep)) : Chosen(list, keep)[i] = list[j]
<1> DEFINE Good(s) ==
             LET c == Chosen(s, keep)
             IN /\ c \in Seq(S)
                /\ \A i \in 1..Len(c) : c[i] \in keep /\ \E j \in 1..Len(s) : c[i] = s[j]
                /\ \A j \in 1..Len(s) : s[j] \in keep => \E i \in 1..Len(c) : c[i] = s[j]
           T == {s \in Seq(S) : Good(s)}
<1>1. <<>> \in T
  <2>1. Chosen(<<>>, keep) = <<>> /\ <<>> \in Seq(S) /\ Len(<<>>) = 0
    BY ChosenEmpty
  <2>2. 1..Len(<<>>) = {}
    BY <2>1
  <2>3. Good(<<>>)
    BY <2>1, <2>2, Zenon
  <2> QED
    BY <2>1, <2>3
<1>2. ASSUME NEW s \in Seq(S), NEW e \in S, s \in T
      PROVE  Append(s, e) \in T
  <2> DEFINE c == Chosen(s, keep)
             t == Append(s, e)
             d == Chosen(t, keep)
  <2>1. /\ c \in Seq(S)
        /\ \A i \in 1..Len(c) : c[i] \in keep /\ \E j \in 1..Len(s) : c[i] = s[j]
        /\ \A j \in 1..Len(s) : s[j] \in keep => \E i \in 1..Len(c) : c[i] = s[j]
    BY <1>2
  <2>2. /\ t \in Seq(S) /\ Len(s) \in Nat /\ Len(t) = Len(s) + 1 /\ t[Len(s) + 1] = e
        /\ \A n \in 1..Len(s) : t[n] = s[n]
    BY AppendProperties, LenProperties
  <2>3. d = IF e \in keep THEN Append(c, e) ELSE c
    BY ChosenAppend
  <2> HIDE DEF c, t, d
  <2>4. CASE e \in keep
    <3>1. /\ d \in Seq(S) /\ Len(c) \in Nat /\ Len(d) = Len(c) + 1 /\ d[Len(c) + 1] = e
          /\ \A n \in 1..Len(c) : d[n] = c[n]
      BY <2>1, <2>3, <2>4, AppendProperties, LenProperties
    <3>2. ASSUME NEW i \in 1..Len(d)
          PROVE  d[i] \in keep /\ \E j \in 1..Len(t) : d[i] = t[j]
      <4>1. CASE i \in 1..Len(c)
        BY <2>1, <2>2, <3>1, <4>1
      <4>2. CASE i = Len(c) + 1
        <5>1. Len(s) + 1 \in 1..Len(t)
          BY <2>2
        <5> QED
          BY <2>2, <2>4, <3>1, <4>2, <5>1
      <4> QED
        BY <3>1, <4>1, <4>2
    <3>3. ASSUME NEW j \in 1..Len(t), t[j] \in keep
          PROVE  \E i \in 1..Len(d) : d[i] = t[j]
      <4>1. CASE j \in 1..Len(s)
        <5>1. t[j] = s[j]
          BY <2>2, <4>1
        <5>2. PICK i \in 1..Len(c) : c[i] = s[j]
          BY <2>1, <3>3, <4>1, <5>1
        <5> QED
          BY <3>1, <5>1, <5>2
      <4>2. CASE j = Len(s) + 1
        <5>1. Len(c) + 1 \in 1..Len(d)
          BY <3>1
        <5> QED
          BY <2>2, <3>1, <4>2, <5>1
      <4> QED
        BY <2>2, <4>1, <4>2
    <3> QED
      BY <2>2, <3>1, <3>2, <3>3 DEF d, t
  <2>5. CASE e \notin keep
    <3>1. d = c
      BY <2>3, <2>5
    <3>2. ASSUME NEW i \in 1..Len(d)
          PROVE  d[i] \in keep /\ \E j \in 1..Len(t) : d[i] = t[j]
      BY <2>1, <2>2, <3>1
    <3>3. ASSUME NEW j \in 1..Len(t), t[j] \in keep
          PROVE  \E i \in 1..Len(d) : d[i] = t[j]
      <4>1. j \in 1..Len(s)
        BY <2>2, <2>5, <3>3
      <4> QED
        BY <2>1, <2>2, <3>1, <3>3, <4>1
    <3> QED
      BY <2>1, <2>2, <3>1, <3>2, <3>3 DEF d, t
  <2> QED
    BY <2>4, <2>5
<1> HIDE DEF T
<1>3. Seq(S) \subseteq T
  BY <1>1, <1>2, ListInduction
<1> QED
  BY <1>3 DEF T

(* Choosing again chooses what both tests keep.                            *)
LEMMA ChosenTwice ==
  ASSUME NEW S, NEW list \in Seq(S), NEW keep, NEW also
  PROVE  Chosen(Chosen(list, keep), also) = Chosen(list, keep \intersect also)
<1> DEFINE both == keep \intersect also
           T == {s \in Seq(S) : Chosen(Chosen(s, keep), also) = Chosen(s, both)}
<1>1. <<>> \in T
  BY ChosenEmpty
<1>2. ASSUME NEW s \in Seq(S), NEW e \in S, s \in T
      PROVE  Append(s, e) \in T
  <2>1. Append(s, e) \in Seq(S) /\ Chosen(s, keep) \in Seq(S)
    BY AppendProperties, ChosenEntries
  <2>2. Chosen(Chosen(s, keep), also) = Chosen(s, both)
    BY <1>2
  <2>3. /\ Chosen(Append(s, e), keep) =
             IF e \in keep THEN Append(Chosen(s, keep), e) ELSE Chosen(s, keep)
        /\ Chosen(Append(s, e), both) =
             IF e \in both THEN Append(Chosen(s, both), e) ELSE Chosen(s, both)
        /\ Chosen(Append(Chosen(s, keep), e), also) =
             IF e \in also THEN Append(Chosen(Chosen(s, keep), also), e)
             ELSE Chosen(Chosen(s, keep), also)
    BY <2>1, ChosenAppend
  <2>4. e \in both <=> e \in keep /\ e \in also
    OBVIOUS
  <2> HIDE DEF both
  <2> QED
    BY <2>1, <2>2, <2>3, <2>4
<1> HIDE DEF T
<1>3. Seq(S) \subseteq T
  BY <1>1, <1>2, ListInduction
<1> QED
  BY <1>3 DEF T

(* As many entries are chosen as there are places in the list that hold    *)
(* one to keep.                                                            *)
LEMMA ChosenCount ==
  ASSUME NEW S, NEW list \in Seq(S), NEW keep
  PROVE  /\ IsFiniteSet({i \in 1..Len(list) : list[i] \in keep})
         /\ Len(Chosen(list, keep)) = Cardinality({i \in 1..Len(list) : list[i] \in keep})
<1> DEFINE Places(s) == {i \in 1..Len(s) : s[i] \in keep}
           T == {s \in Seq(S) : /\ IsFiniteSet(Places(s))
                                /\ Len(Chosen(s, keep)) = Cardinality(Places(s))}
<1>1. <<>> \in T
  <2>1. Chosen(<<>>, keep) = <<>> /\ Len(<<>>) = 0 /\ <<>> \in Seq(S)
    BY ChosenEmpty
  <2>2. Places(<<>>) = {}
    BY <2>1
  <2> QED
    BY <2>1, <2>2, FS_EmptySet
<1>2. ASSUME NEW s \in Seq(S), NEW e \in S, s \in T
      PROVE  Append(s, e) \in T
  <2> DEFINE t == Append(s, e)
  <2>1. /\ t \in Seq(S) /\ Len(s) \in Nat /\ Len(t) = Len(s) + 1 /\ t[Len(s) + 1] = e
        /\ \A n \in 1..Len(s) : t[n] = s[n]
    BY AppendProperties, LenProperties
  <2>2. Chosen(t, keep) = IF e \in keep THEN Append(Chosen(s, keep), e) ELSE Chosen(s, keep)
    BY ChosenAppend
  <2>3. Chosen(s, keep) \in Seq(S)
    BY ChosenEntries
  <2>4. IsFiniteSet(Places(s)) /\ Len(Chosen(s, keep)) = Cardinality(Places(s))
    BY <1>2
  <2> HIDE DEF t
  <2>5. CASE e \in keep
    <3>1. Places(t) = Places(s) \union {Len(s) + 1} /\ Len(s) + 1 \notin Places(s)
      BY <2>1, <2>5
    <3>2. Len(Chosen(t, keep)) = Len(Chosen(s, keep)) + 1
      BY <2>2, <2>3, <2>5, AppendProperties
    <3>3. /\ IsFiniteSet(Places(s) \union {Len(s) + 1})
          /\ Cardinality(Places(s) \union {Len(s) + 1}) = Cardinality(Places(s)) + 1
      BY <2>4, <3>1, FS_AddElement
    <3>4. IsFiniteSet(Places(t)) /\ Len(Chosen(t, keep)) = Cardinality(Places(t))
      BY <2>4, <3>1, <3>2, <3>3
    <3> QED
      BY <2>1, <3>4 DEF t
  <2>6. CASE e \notin keep
    <3>1. Places(t) = Places(s)
      BY <2>1, <2>6
    <3>2. IsFiniteSet(Places(t)) /\ Len(Chosen(t, keep)) = Cardinality(Places(t))
      BY <2>2, <2>4, <2>6, <3>1
    <3> QED
      BY <2>1, <3>2 DEF t
  <2> QED
    BY <2>5, <2>6
<1> HIDE DEF T
<1>3. Seq(S) \subseteq T
  BY <1>1, <1>2, ListInduction
<1> QED
  BY <1>3 DEF T

=============================================================================
