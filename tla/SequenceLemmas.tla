--------------------------- MODULE SequenceLemmas ---------------------------
(***************************************************************************)
(* Facts about the sequence operators of the community modules that the    *)
(* library's theorem modules do not state.  Those about FlattenSeq need    *)
(* induction: the library's theorems take the property as an operator,     *)
(* which the provers cannot instantiate, and so it is the set of the       *)
(* numbers that have the property here.                                    *)
(***************************************************************************)
EXTENDS Integers, Sequences, SequencesExt, SequenceTheorems, WellFoundedInduction, TLAPS

\* Erasing e from a sequence without duplicates, as list.erase(find(...)) does:
\* one element less, e is gone, the others stay, and there is still no duplicate.
LEMMA RemoveFirstProperties ==
    ASSUME NEW S, NEW s \in Seq(S), NEW e, Contains(s, e), IsInjective(s)
    PROVE  /\ RemoveFirst(s, e) \in Seq(S)
           /\ Len(RemoveFirst(s, e)) = Len(s) - 1
           /\ IsInjective(RemoveFirst(s, e))
           /\ ToSet(RemoveFirst(s, e)) = ToSet(s) \ {e}
<1>1. Len(s) \in Nat /\ DOMAIN s = 1 .. Len(s)
  BY LenProperties
<1>2. PICK k \in 1 .. Len(s) : s[k] = e
  BY DEF Contains
<1> DEFINE front == SubSeq(s, 1, k - 1)
           back == SubSeq(s, k + 1, Len(s))
           r == front \o back
<1>3. RemoveFirst(s, e) = r
  <2>1. {i \in 1 .. Len(s) : s[i] = e} = {k}
    BY <1>1, <1>2 DEF IsInjective
  <2>2. Min({k}) = k
    BY <1>1, <1>2 DEF Min
  <2> QED
    BY <2>1, <2>2, <1>2 DEF RemoveFirst, RemoveAt, SelectInSeq
<1>4. \A i \in 1 .. Len(s) : s[i] \in S
  BY ElementOfSeq
<1>5. /\ front \in Seq(S)
      /\ Len(front) = k - 1
      /\ \A i \in 1 .. k - 1 : front[i] = s[i]
  <2> DEFINE m == 1
             n == k - 1
  <2>1. m \in Int /\ n \in Int /\ \A i \in m .. n : s[i] \in S
    BY <1>1, <1>2, <1>4
  <2>2. n - m + 1 = k - 1 /\ (IF m <= n THEN n - m + 1 ELSE 0) = k - 1
    BY <1>1, <1>2
  <2>3. \A i \in 1 .. n : m + i - 1 = i
    OBVIOUS
  <2> HIDE DEF m, n
  <2>4. /\ SubSeq(s, m, n) \in Seq(S)
        /\ Len(SubSeq(s, m, n)) = IF m <= n THEN n - m + 1 ELSE 0
        /\ \A i \in 1 .. n - m + 1 : SubSeq(s, m, n)[i] = s[m + i - 1]
    BY <2>1, SubSeqProperties
  <2> QED
    BY <2>2, <2>3, <2>4 DEF m, n
<1>6. /\ back \in Seq(S)
      /\ Len(back) = Len(s) - k
      /\ \A i \in 1 .. Len(s) - k : back[i] = s[k + i]
  <2> DEFINE m == k + 1
             n == Len(s)
  <2>1. m \in Int /\ n \in Int /\ \A i \in m .. n : s[i] \in S
    BY <1>1, <1>2, <1>4
  <2>2. n - m + 1 = Len(s) - k /\ (IF m <= n THEN n - m + 1 ELSE 0) = Len(s) - k
    <3>1. \A l \in Nat : \A j \in 1 .. l :
            /\ l - (j + 1) + 1 = l - j
            /\ (IF j + 1 <= l THEN l - (j + 1) + 1 ELSE 0) = l - j
      OBVIOUS
    <3> QED
      BY <3>1, <1>1, <1>2
  <2>3. \A i \in 1 .. Len(s) - k : m + i - 1 = k + i
    BY <1>1, <1>2
  <2> HIDE DEF m, n
  <2>4. /\ SubSeq(s, m, n) \in Seq(S)
        /\ Len(SubSeq(s, m, n)) = IF m <= n THEN n - m + 1 ELSE 0
        /\ \A i \in 1 .. n - m + 1 : SubSeq(s, m, n)[i] = s[m + i - 1]
    BY <2>1, SubSeqProperties
  <2> QED
    BY <2>2, <2>3, <2>4 DEF m, n
<1> HIDE DEF front, back
<1>7. /\ r \in Seq(S)
      /\ Len(r) = Len(s) - 1
      /\ \A i \in 1 .. Len(s) - 1 : r[i] = IF i < k THEN s[i] ELSE s[i + 1]
  <2>1. /\ r \in Seq(S)
        /\ Len(r) = Len(front) + Len(back)
        /\ \A i \in 1 .. Len(front) + Len(back) :
              r[i] = IF i <= Len(front) THEN front[i] ELSE back[i - Len(front)]
    BY <1>5, <1>6, ConcatProperties
  <2>2. Len(front) + Len(back) = Len(s) - 1
    BY <1>1, <1>2, <1>5, <1>6
  <2>3. ASSUME NEW i \in 1 .. Len(s) - 1
        PROVE  r[i] = IF i < k THEN s[i] ELSE s[i + 1]
    <3>1. r[i] = IF i <= k - 1 THEN front[i] ELSE back[i - (k - 1)]
      BY <2>1, <2>2, <1>5
    <3>2. CASE i < k
      BY <3>1, <3>2, <1>1, <1>2, <1>5
    <3>3. CASE ~(i < k)
      <4>1. i - (k - 1) \in 1 .. Len(s) - k /\ k + (i - (k - 1)) = i + 1
        BY <3>3, <1>1, <1>2
      <4> QED
        BY <4>1, <3>1, <3>3, <1>1, <1>2, <1>6
    <3> QED
      BY <3>2, <3>3
  <2> QED
    BY <2>1, <2>2, <2>3
<1> HIDE DEF r
<1>8. DOMAIN r = 1 .. Len(s) - 1
  BY <1>7, LenProperties
<1>9. IsInjective(r)
  <2>1. SUFFICES ASSUME NEW i \in 1 .. Len(s) - 1, NEW j \in 1 .. Len(s) - 1, r[i] = r[j]
                 PROVE  i = j
    BY <1>8 DEF IsInjective
  <2> DEFINE i2 == IF i < k THEN i ELSE i + 1
             j2 == IF j < k THEN j ELSE j + 1
  <2>2. i2 \in 1 .. Len(s) /\ j2 \in 1 .. Len(s)
    BY <1>1, <1>2
  <2>3. s[i2] = s[j2]
    BY <2>1, <1>7
  <2>4. i2 = j2
    BY <2>2, <2>3, <1>1 DEF IsInjective
  <2> QED
    BY <2>4, <1>1, <1>2
<1>10. ToSet(r) = ToSet(s) \ {e}
  <2>1. ASSUME NEW i \in 1 .. Len(s) - 1
        PROVE  r[i] \in ToSet(s) \ {e}
    <3> DEFINE i2 == IF i < k THEN i ELSE i + 1
    <3>1. i2 \in 1 .. Len(s) /\ i2 # k
      BY <1>1, <1>2
    <3>2. r[i] = s[i2]
      BY <1>7
    <3>3. s[i2] # e
      BY <3>1, <1>1, <1>2 DEF IsInjective
    <3> QED
      BY <3>1, <3>2, <3>3, <1>1 DEF ToSet
  <2>2. ASSUME NEW j \in 1 .. Len(s), s[j] # e
        PROVE  \E i \in 1 .. Len(s) - 1 : r[i] = s[j]
    <3>1. j # k
      BY <1>2, <2>2
    <3>2. CASE j < k
      BY <3>2, <1>1, <1>2, <1>7
    <3>3. CASE j > k
      <4>1. j - 1 \in 1 .. Len(s) - 1 /\ ~(j - 1 < k) /\ (j - 1) + 1 = j
        BY <3>3, <1>1, <1>2
      <4> QED
        BY <4>1, <1>7
    <3> QED
      BY <3>1, <3>2, <3>3, <1>1, <1>2
  <2>3. ToSet(r) \subseteq ToSet(s) \ {e}
    BY <2>1, <1>8 DEF ToSet
  <2>4. ToSet(s) \ {e} \subseteq ToSet(r)
    BY <2>2, <1>1, <1>8 DEF ToSet
  <2> QED
    BY <2>3, <2>4
<1> QED
  BY <1>3, <1>7, <1>9, <1>10

\* The elements of a sequence, and of one with e appended.
LEMMA SetOfSequence ==
    ASSUME NEW S, NEW s \in Seq(S), NEW e
    PROVE  /\ s = <<>> <=> ToSet(s) = {}
           /\ Contains(s, e) <=> e \in ToSet(s)
           /\ ToSet(Append(s, e)) = ToSet(s) \cup {e}
           /\ Append(s, e) # <<>>
<1>1. Len(s) \in Nat /\ DOMAIN s = 1 .. Len(s) /\ (s = <<>> <=> Len(s) = 0)
  BY LenProperties, EmptySeq
<1>2. s = <<>> <=> ToSet(s) = {}
  <2>1. s = <<>> => DOMAIN s = {}
    BY <1>1
  <2>2. s # <<>> => 1 \in DOMAIN s
    BY <1>1
  <2> QED
    BY <2>1, <2>2 DEF ToSet
<1>3. Contains(s, e) <=> e \in ToSet(s)
  BY <1>1 DEF Contains, ToSet
<1> DEFINE r == Append(s, e)
<1>4. /\ DOMAIN r = 1 .. Len(s) + 1
      /\ \A i \in 1 .. Len(s) : r[i] = s[i]
      /\ r[Len(s) + 1] = e
      /\ r # <<>>
  <2>1. s \in Seq(S \cup {e}) /\ e \in S \cup {e}
    OBVIOUS
  <2> QED
    BY <1>1, <2>1, AppendProperties, LenProperties
<1> HIDE DEF r
<1>5. ToSet(r) = ToSet(s) \cup {e}
  BY <1>1, <1>4 DEF ToSet
<1> QED
  BY <1>2, <1>3, <1>4, <1>5 DEF r

-----------------------------------------------------------------------------
(* Induction.                                                              *)

\* A set of numbers that is not empty has a least one.  This is what inductions
\* over the naturals rest on below: the set is that of the counterexamples.
LEMMA LeastNumber ==
    ASSUME NEW T \in SUBSET Nat, T # {}
    PROVE  \E m \in T : \A k \in T : m <= k
<1> DEFINE R == {ss \in Nat \X Nat : ss[1] < ss[2]}
<1>1. IsWellFoundedOn(R, Nat)
  BY NatLessThanWellFounded DEF OpToRel
<1> HIDE DEF R
<1>2. PICK m \in T : \A k \in T : <<k, m>> \notin R
  BY <1>1, WFMin
<1>3. \A k \in T : m <= k
  <2> TAKE k \in T
  <2>1. <<k, m>> \notin R
    BY <1>2
  <2> QED
    BY <2>1 DEF R
<1> QED
  BY <1>3

\* Induction from 0 to n, over the set of the numbers that have a property.
LEMMA Induction ==
    ASSUME NEW n \in Nat, NEW T, 0 \in T,
           \A i \in 0 .. n - 1 : i \in T => i + 1 \in T
    PROVE  \A i \in 0 .. n : i \in T
<1> SUFFICES ASSUME NEW i \in 0 .. n, i \notin T
             PROVE  FALSE
  OBVIOUS
<1> DEFINE C == {k \in 0 .. n : k \notin T}
<1>1. C \in SUBSET Nat /\ C # {}
  OBVIOUS
<1>2. PICK m \in C : \A k \in C : m <= k
  BY <1>1, LeastNumber
<1>3. m # 0 /\ m \in 0 .. n /\ m \notin T
  OBVIOUS
<1>4. m - 1 \in 0 .. n - 1
  BY <1>3
<1>5. m - 1 \in T
  BY <1>2, <1>4
<1> QED
  BY <1>3, <1>4, <1>5

-----------------------------------------------------------------------------
(* FlattenSeq, from its recursive function.                                *)

\* f is the function that FlattenSeq defines for the first n elements of s.
Flattens(f, s, n) == f = [i \in 1 .. n |-> IF i = 1 THEN s[i] ELSE f[i - 1] \o s[i]]

LEMMA FlattensExists ==
    ASSUME NEW s, NEW n \in Nat
    PROVE  \E f : Flattens(f, s, n)
<1> DEFINE T == {k \in 0 .. n : \E f : Flattens(f, s, k)}
<1>1. 0 \in T
  <2> DEFINE f == [i \in 1 .. 0 |-> s[i]]
  <2>1. f = [i \in 1 .. 0 |-> IF i = 1 THEN s[i] ELSE f[i - 1] \o s[i]]
    BY 1 .. 0 = {}
  <2>2. Flattens(f, s, 0)
    BY <2>1 DEF Flattens
  <2> QED
    BY <2>2
<1>2. ASSUME NEW k \in 0 .. n - 1, k \in T
      PROVE  k + 1 \in T
  <2>1. PICK f : Flattens(f, s, k)
    BY <1>2
  <2> DEFINE g == [i \in 1 .. k + 1 |-> IF i = k + 1 THEN IF i = 1 THEN s[i] ELSE f[i - 1] \o s[i]
                                        ELSE f[i]]
  <2>2. ASSUME NEW i \in 1 .. k + 1
        PROVE  g[i] = IF i = 1 THEN s[i] ELSE g[i - 1] \o s[i]
    <3>1. CASE i = k + 1 /\ i # 1
      <4>1. i - 1 \in 1 .. k /\ i - 1 # k + 1
        BY <3>1
      <4>2. g[i - 1] = f[i - 1]
        BY <4>1
      <4> QED
        BY <3>1, <4>2
    <3>2. CASE i # k + 1 /\ i # 1
      <4>1. i \in 1 .. k /\ i - 1 \in 1 .. k /\ i - 1 # k + 1
        BY <3>2
      <4>2. g[i - 1] = f[i - 1] /\ g[i] = f[i]
        BY <4>1
      <4> QED
        BY <3>2, <4>1, <4>2, <2>1 DEF Flattens
    <3>3. CASE i = 1
      BY <3>3, <2>1 DEF Flattens
    <3> QED
      BY <3>1, <3>2, <3>3
  <2>3. g = [i \in 1 .. k + 1 |-> g[i]]
    OBVIOUS
  <2> HIDE DEF g
  <2>4. Flattens(g, s, k + 1)
    BY <2>2, <2>3 DEF Flattens
  <2> QED
    BY <2>4
<1> HIDE DEF T
<1>3. n \in T
  BY <1>1, <1>2, Induction
<1> QED
  BY <1>3 DEF T

LEMMA FlattensStep ==
    ASSUME NEW s, NEW n \in Nat, NEW f, Flattens(f, s, n), NEW i \in Nat, i + 1 \in 1 .. n
    PROVE  f[i + 1] = IF i + 1 = 1 THEN s[i + 1] ELSE f[i] \o s[i + 1]
<1>1. \A j \in 1 .. n : f[j] = IF j = 1 THEN s[j] ELSE f[j - 1] \o s[j]
  BY Zenon DEF Flattens
<1>2. f[i + 1] = IF i + 1 = 1 THEN s[i + 1] ELSE f[(i + 1) - 1] \o s[i + 1]
  BY <1>1
<1>3. (i + 1) - 1 = i
  OBVIOUS
<1> QED
  BY <1>2, <1>3

\* s and t have the same first n elements.
Agree(s, t, n) == \A i \in 1 .. n : s[i] = t[i]

\* The functions for two sequences agree as far as the sequences do.
LEMMA FlattensAgree ==
    ASSUME NEW s, NEW t, NEW f, NEW g, NEW n \in Nat,
           Flattens(f, s, n), Flattens(g, t, n + 1), Agree(s, t, n)
    PROVE  Agree(f, g, n)
<1> USE DEF Agree
<1> DEFINE T == {i \in 0 .. n : i = 0 \/ f[i] = g[i]}
<1>1. 0 \in T
  OBVIOUS
<1>2. ASSUME NEW i \in 0 .. n - 1, i \in T
      PROVE  i + 1 \in T
  <2>1. i + 1 \in 1 .. n /\ i + 1 \in 1 .. n + 1 /\ n + 1 \in Nat
    OBVIOUS
  <2>2. f[i + 1] = IF i + 1 = 1 THEN s[i + 1] ELSE f[i] \o s[i + 1]
    BY <2>1, FlattensStep
  <2>3. g[i + 1] = IF i + 1 = 1 THEN t[i + 1] ELSE g[i] \o t[i + 1]
    BY <2>1, FlattensStep
  <2> QED
    BY <1>2, <2>1, <2>2, <2>3
<1> HIDE DEF T
<1>3. \A i \in 0 .. n : i \in T
  BY <1>1, <1>2, Induction
<1> QED
  BY <1>3 DEF T

LEMMA FlattenIsLast ==
    ASSUME NEW s, NEW n \in Nat \ {0}, Len(s) = n
    PROVE  \E f : Flattens(f, s, n) /\ FlattenSeq(s) = f[n]
<1> DEFINE f == CHOOSE f : Flattens(f, s, n)
<1>1. Flattens(f, s, n)
  BY FlattensExists
<1>2. FlattenSeq(s) = f[n]
  BY DEF FlattenSeq, Flattens
<1> QED
  BY <1>1, <1>2

\* The first n elements of a sequence.
LEMMA FrontProperties ==
    ASSUME NEW S, NEW s \in Seq(S), NEW n \in 0 .. Len(s)
    PROVE  /\ SubSeq(s, 1, n) \in Seq(S)
           /\ Len(SubSeq(s, 1, n)) = n
           /\ \A i \in 1 .. n : SubSeq(s, 1, n)[i] = s[i]
<1>1. Len(s) \in Nat /\ \A i \in 1 .. Len(s) : s[i] \in S
  BY LenProperties, ElementOfSeq
<1>2. n \in Int /\ 1 \in Int /\ \A i \in 1 .. n : s[i] \in S
  BY <1>1
<1>3. /\ SubSeq(s, 1, n) \in Seq(S)
      /\ Len(SubSeq(s, 1, n)) = IF 1 <= n THEN n - 1 + 1 ELSE 0
      /\ \A i \in 1 .. n - 1 + 1 : SubSeq(s, 1, n)[i] = s[1 + i - 1]
  BY <1>2, SubSeqProperties
<1>4. n - 1 + 1 = n /\ (IF 1 <= n THEN n - 1 + 1 ELSE 0) = n
  BY <1>1
<1>5. \A i \in 1 .. n : 1 + i - 1 = i
  OBVIOUS
<1> QED
  BY <1>3, <1>4, <1>5

\* A sequence cut in two.
LEMMA Split ==
    ASSUME NEW S, NEW s \in Seq(S), NEW n \in 0 .. Len(s)
    PROVE  /\ SubSeq(s, 1, n) \in Seq(S)
           /\ SubSeq(s, n + 1, Len(s)) \in Seq(S)
           /\ SubSeq(s, 1, n) \o SubSeq(s, n + 1, Len(s)) = s
<1>1. Len(s) \in Nat
  BY LenProperties
<1>2. SubSeq(s, n + 1, Len(s)) \in Seq(S)
  <2>1. n + 1 \in Int /\ Len(s) \in Int /\ \A i \in n + 1 .. Len(s) : s[i] \in S
    BY <1>1, ElementOfSeq
  <2> QED
    BY <2>1, SubSeqProperties
<1>3. SubSeq(s, 1, n) \o SubSeq(s, n + 1, Len(s)) = SubSeq(s, 1, Len(s))
  <2>1. 1 \in 1 .. Len(s) + 1 /\ n \in 1 - 1 .. Len(s) /\ Len(s) \in n .. Len(s)
    BY <1>1
  <2> QED
    BY <2>1, ConcatAdjacentSubSeq
<1> QED
  BY <1>2, <1>3, FrontProperties, SubSeqFull

LEMMA FlattenOfEmpty == FlattenSeq(<<>>) = <<>>
  BY DEF FlattenSeq

LEMMA FlattenFront ==
    ASSUME NEW S, NEW s \in Seq(Seq(S)), NEW n \in 0 .. Len(s) - 1
    PROVE  FlattenSeq(SubSeq(s, 1, n + 1)) = FlattenSeq(SubSeq(s, 1, n)) \o s[n + 1]
<1>1. /\ Len(s) \in Nat
      /\ n \in Nat
      /\ n \in 0 .. Len(s)
      /\ n + 1 \in 0 .. Len(s)
      /\ n + 1 \in 1 .. Len(s)
  BY LenProperties
<1> DEFINE front == SubSeq(s, 1, n)
           longer == SubSeq(s, 1, n + 1)
<1>2. /\ Len(front) = n
      /\ front \in Seq(Seq(S))
      /\ \A i \in 1 .. n : front[i] = s[i]
  BY <1>1, FrontProperties
<1>3. Len(longer) = n + 1 /\ \A i \in 1 .. n + 1 : longer[i] = s[i]
  BY <1>1, FrontProperties
<1>4. s[n + 1] \in Seq(S)
  BY <1>1, ElementOfSeq
<1> HIDE DEF front, longer
<1>5. PICK g : Flattens(g, longer, n + 1) /\ FlattenSeq(longer) = g[n + 1]
  BY <1>1, <1>3, FlattenIsLast
<1>6. g[n + 1] = IF n + 1 = 1 THEN longer[n + 1] ELSE g[n] \o longer[n + 1]
  BY <1>1, <1>5, FlattensStep
<1>7. longer[n + 1] = s[n + 1]
  <2>1. n + 1 \in 1 .. n + 1
    BY <1>1
  <2> QED
    BY <1>3, <2>1
<1>8. ASSUME n = 0
      PROVE  FlattenSeq(longer) = FlattenSeq(front) \o s[n + 1]
  <2>1. front = <<>>
    BY <1>2, <1>8, EmptySeq
  <2>2. FlattenSeq(front) = <<>>
    BY <2>1, FlattenOfEmpty
  <2>3. <<>> \o s[n + 1] = s[n + 1]
    BY <1>4, ConcatEmptySeq
  <2>4. n + 1 = 1
    BY <1>8
  <2>5. FlattenSeq(longer) = s[n + 1]
    BY Zenon, <2>4, <1>5, <1>6, <1>7
  <2> QED
    BY Zenon, <2>2, <2>3, <2>5
<1>9. ASSUME n # 0
      PROVE  FlattenSeq(longer) = FlattenSeq(front) \o s[n + 1]
  <2>1. PICK f : Flattens(f, front, n) /\ FlattenSeq(front) = f[n]
    BY <1>1, <1>2, <1>9, FlattenIsLast
  <2>2. Agree(front, longer, n)
    <3>1. \A i \in 1 .. n : i \in 1 .. n + 1
      BY <1>1
    <3> QED
      BY Zenon, <3>1, <1>2, <1>3 DEF Agree
  <2>3. Agree(f, g, n)
    BY <2>1, <2>2, <1>1, <1>5, FlattensAgree
  <2>4. n \in 1 .. n /\ n + 1 # 1
    BY <1>1, <1>9
  <2>5. g[n] = FlattenSeq(front)
    BY Zenon, <2>1, <2>3, <2>4 DEF Agree
  <2> QED
    BY Zenon, <2>4, <2>5, <1>5, <1>6, <1>7
<1> QED
  BY Zenon, <1>8, <1>9 DEF front, longer

LEMMA FlattenType ==
    ASSUME NEW S, NEW s \in Seq(Seq(S))
    PROVE  FlattenSeq(s) \in Seq(S)
<1>1. Len(s) \in Nat
  BY LenProperties
<1> DEFINE T == {i \in 0 .. Len(s) : FlattenSeq(SubSeq(s, 1, i)) \in Seq(S)}
<1>2. 0 \in T
  <2>1. SubSeq(s, 1, 0) = <<>>
    BY SubSeqEmpty
  <2>2. <<>> \in Seq(S)
    BY EmptySeq
  <2>3. FlattenSeq(SubSeq(s, 1, 0)) \in Seq(S)
    BY Zenon, <2>1, <2>2, FlattenOfEmpty
  <2>4. 0 \in 0 .. Len(s)
    BY <1>1
  <2> QED
    BY Zenon, <2>3, <2>4
<1>3. ASSUME NEW i \in 0 .. Len(s) - 1, i \in T
      PROVE  i + 1 \in T
  <2>1. FlattenSeq(SubSeq(s, 1, i + 1)) = FlattenSeq(SubSeq(s, 1, i)) \o s[i + 1]
    BY FlattenFront
  <2>2. i + 1 \in 1 .. Len(s) /\ i + 1 \in 0 .. Len(s)
    BY <1>1
  <2>3. s[i + 1] \in Seq(S)
    BY <2>2, ElementOfSeq
  <2>4. FlattenSeq(SubSeq(s, 1, i)) \o s[i + 1] \in Seq(S)
    BY <1>3, <2>3, ConcatProperties
  <2> QED
    BY <2>1, <2>2, <2>4
<1> HIDE DEF T
<1>4. Len(s) \in T
  <2>1. \A i \in 0 .. Len(s) : i \in T
    BY <1>1, <1>2, <1>3, Induction
  <2> QED
    BY <1>1, <2>1
<1>5. SubSeq(s, 1, Len(s)) = s
  BY SubSeqFull
<1> QED
  BY <1>4, <1>5 DEF T

\* The part of a sequence before x was appended to it.
LEMMA FrontOfAppend ==
    ASSUME NEW S, NEW s \in Seq(S), NEW x \in S, NEW n \in 0 .. Len(s)
    PROVE  SubSeq(Append(s, x), 1, n) = SubSeq(s, 1, n)
<1>1. Len(s) \in Nat
  BY LenProperties
<1>2. /\ Append(s, x) \in Seq(S)
      /\ Len(Append(s, x)) = Len(s) + 1
      /\ \A i \in 1 .. Len(s) : Append(s, x)[i] = s[i]
  BY AppendProperties
<1>3. n \in 0 .. Len(Append(s, x))
  BY <1>1, <1>2
<1>4. /\ SubSeq(Append(s, x), 1, n) \in Seq(S)
      /\ Len(SubSeq(Append(s, x), 1, n)) = n
      /\ \A i \in 1 .. n : SubSeq(Append(s, x), 1, n)[i] = Append(s, x)[i]
  BY <1>2, <1>3, FrontProperties
<1>5. /\ SubSeq(s, 1, n) \in Seq(S)
      /\ Len(SubSeq(s, 1, n)) = n
      /\ \A i \in 1 .. n : SubSeq(s, 1, n)[i] = s[i]
  BY FrontProperties
<1>6. \A i \in 1 .. n : SubSeq(Append(s, x), 1, n)[i] = SubSeq(s, 1, n)[i]
  BY <1>1, <1>2, <1>4, <1>5
<1> QED
  BY <1>4, <1>5, <1>6, SeqEqual

LEMMA FlattenAppend ==
    ASSUME NEW S, NEW s \in Seq(Seq(S)), NEW x \in Seq(S)
    PROVE  FlattenSeq(Append(s, x)) = FlattenSeq(s) \o x
<1> DEFINE t == Append(s, x)
<1>1. Len(s) \in Nat
  BY LenProperties
<1>2. t \in Seq(Seq(S)) /\ Len(t) = Len(s) + 1 /\ t[Len(s) + 1] = x
  BY AppendProperties
<1>3. SubSeq(t, 1, Len(s)) = s
  <2>1. SubSeq(t, 1, Len(s)) = SubSeq(s, 1, Len(s))
    BY <1>1, FrontOfAppend
  <2> QED
    BY <2>1, SubSeqFull
<1>4. SubSeq(t, 1, Len(s) + 1) = t
  BY <1>2, SubSeqFull
<1> HIDE DEF t
<1>5. Len(s) \in 0 .. Len(t) - 1
  BY <1>1, <1>2
<1>6. FlattenSeq(SubSeq(t, 1, Len(s) + 1)) = FlattenSeq(SubSeq(t, 1, Len(s))) \o t[Len(s) + 1]
  BY <1>2, <1>5, FlattenFront
<1> QED
  BY <1>2, <1>3, <1>4, <1>6 DEF t

-----------------------------------------------------------------------------
(* Prefixes.                                                               *)

LEMMA PrefixIsConcat ==
    ASSUME NEW S, NEW s \in Seq(S), NEW t \in Seq(S)
    PROVE  IsPrefix(s, t) <=> \E r \in Seq(S) : t = s \o r
<1>1. Len(s) \in Nat /\ Len(t) \in Nat
  BY LenProperties
<1>2. ASSUME IsPrefix(s, t)
      PROVE  \E r \in Seq(S) : t = s \o r
  <2>1. Len(s) \in 0 .. Len(t) /\ SubSeq(s, 1, Len(s)) = SubSeq(t, 1, Len(s))
    BY <1>1, <1>2 DEF IsPrefix
  <2>2. SubSeq(s, 1, Len(s)) = s
    BY SubSeqFull
  <2> DEFINE r == SubSeq(t, Len(s) + 1, Len(t))
  <2>3. r \in Seq(S) /\ SubSeq(t, 1, Len(s)) \o r = t
    BY <2>1, Split
  <2> HIDE DEF r
  <2> QED
    BY Zenon, <2>1, <2>2, <2>3
<1>3. ASSUME NEW r \in Seq(S), t = s \o r
      PROVE  IsPrefix(s, t)
  <2>1. Len(r) \in Nat /\ Len(t) = Len(s) + Len(r)
    BY <1>3, LenProperties, ConcatProperties
  <2>2. Len(s) \in 0 .. Len(s) /\ Len(s) \in 0 .. Len(t) /\ Len(s) <= Len(t)
    BY <1>1, <2>1
  <2>3. \A i \in 1 .. Len(s) : t[i] = s[i]
    <3>1. \A i \in 1 .. Len(s) + Len(r) :
             (s \o r)[i] = IF i <= Len(s) THEN s[i] ELSE r[i - Len(s)]
      BY ConcatProperties
    <3>2. \A i \in 1 .. Len(s) : i \in 1 .. Len(s) + Len(r) /\ i <= Len(s)
      BY <1>1, <2>1
    <3> QED
      BY <3>1, <3>2, <1>3
  <2> DEFINE a == SubSeq(s, 1, Len(s))
             b == SubSeq(t, 1, Len(s))
  <2>4. a \in Seq(S) /\ Len(a) = Len(s) /\ \A i \in 1 .. Len(s) : a[i] = s[i]
    BY <2>2, FrontProperties
  <2>5. b \in Seq(S) /\ Len(b) = Len(s) /\ \A i \in 1 .. Len(s) : b[i] = t[i]
    BY <2>2, FrontProperties
  <2> HIDE DEF a, b
  <2>6. a = b
    BY <2>3, <2>4, <2>5, SeqEqual
  <2> QED
    BY <2>2, <2>6 DEF IsPrefix, a, b
<1> QED
  BY <1>2, <1>3

\* Sequences that begin alike have the same elements as far as both go.
LEMMA CommonStart ==
    ASSUME NEW S, NEW a \in Seq(S), NEW b \in Seq(S), NEW c \in Seq(S), NEW d \in Seq(S),
           a \o b = c \o d, NEW j \in 1 .. Len(a), j <= Len(c)
    PROVE  a[j] = c[j]
<1>1. Len(a) \in Nat /\ Len(b) \in Nat /\ Len(c) \in Nat /\ Len(d) \in Nat
  BY LenProperties
<1>2. \A i \in 1 .. Len(a) + Len(b) : (a \o b)[i] = IF i <= Len(a) THEN a[i] ELSE b[i - Len(a)]
  BY ConcatProperties
<1>3. \A i \in 1 .. Len(c) + Len(d) : (c \o d)[i] = IF i <= Len(c) THEN c[i] ELSE d[i - Len(c)]
  BY ConcatProperties
<1>4. j \in 1 .. Len(a) + Len(b) /\ j \in 1 .. Len(c) + Len(d) /\ j <= Len(a)
  BY <1>1
<1>5. (a \o b)[j] = a[j] /\ (c \o d)[j] = c[j]
  BY <1>2, <1>3, <1>4
<1> QED
  BY <1>5

LEMMA PrefixStart ==
    ASSUME NEW S, NEW a \in Seq(S), NEW b \in Seq(S), NEW c \in Seq(S), NEW d \in Seq(S),
           IsPrefix(a \o b, c \o d), NEW j \in 1 .. Len(a), j <= Len(c)
    PROVE  a[j] = c[j]
<1> DEFINE p == a \o b
           q == c \o d
<1>1. p \in Seq(S) /\ q \in Seq(S) /\ IsPrefix(p, q)
  BY ConcatProperties
<1> HIDE DEF p, q
<1>2. PICK r \in Seq(S) : q = p \o r
  BY <1>1, PrefixIsConcat
<1>3. b \o r \in Seq(S) /\ (a \o b) \o r = a \o (b \o r)
  OBVIOUS
<1>4. a \o (b \o r) = c \o d
  BY Zenon, <1>2, <1>3 DEF p, q
<1> QED
  BY <1>3, <1>4, CommonStart

\* A prefix of what begins in the same way: what follows the common start.
LEMMA AfterCommonStart ==
    ASSUME NEW S, NEW a \in Seq(S), NEW b \in Seq(S), NEW c \in Seq(S), NEW d \in Seq(S),
           IsPrefix((a \o b) \o c, a \o d)
    PROVE  IsPrefix(b \o c, d)
<1>1. a \o b \in Seq(S) /\ a \o d \in Seq(S)
  BY ConcatProperties
<1>2. (a \o b) \o c \in Seq(S)
  BY <1>1, ConcatProperties
<1>3. PICK r \in Seq(S) : a \o d = ((a \o b) \o c) \o r
  <2> DEFINE p == (a \o b) \o c
             q == a \o d
  <2>1. p \in Seq(S) /\ q \in Seq(S) /\ IsPrefix(p, q)
    BY <1>1, <1>2
  <2> HIDE DEF p, q
  <2>2. \E r \in Seq(S) : q = p \o r
    BY <2>1, PrefixIsConcat
  <2> QED
    BY Zenon, <2>2 DEF p, q
<1>4. c \o r \in Seq(S)
  BY ConcatProperties
<1>5. b \o (c \o r) \in Seq(S)
  BY <1>4, ConcatProperties
<1>6. ((a \o b) \o c) \o r = (a \o b) \o (c \o r)
  BY <1>1
<1>7. (a \o b) \o (c \o r) = a \o (b \o (c \o r))
  BY <1>4
<1>8. a \o (b \o (c \o r)) = a \o d
  BY Zenon, <1>3, <1>6, <1>7
<1>9. b \o (c \o r) = d
  BY <1>5, <1>8, ConcatSimplifications
<1>10. (b \o c) \o r = b \o (c \o r) /\ b \o c \in Seq(S)
  OBVIOUS
<1>11. d = (b \o c) \o r
  BY Zenon, <1>9, <1>10
<1> QED
  BY <1>10, <1>11, PrefixIsConcat

\* What follows c in a stream of which more than c is known.
LEMMA AfterStart ==
    ASSUME NEW S, NEW a \in Seq(S), NEW b \in Seq(S), NEW c \in Seq(S), NEW d \in Seq(S),
           IsPrefix(a \o b, c \o d), Len(c) <= Len(a)
    PROVE  IsPrefix(SubSeq(a, Len(c) + 1, Len(a)) \o b, d)
<1>1. Len(a) \in Nat /\ Len(c) \in 0 .. Len(a) /\ Len(c) \in Nat
  BY LenProperties
<1> DEFINE v == SubSeq(a, 1, Len(c))
           u == SubSeq(a, Len(c) + 1, Len(a))
<1>2. v \in Seq(S) /\ u \in Seq(S) /\ v \o u = a
  BY <1>1, Split
<1>3. Len(v) = Len(c) /\ \A i \in 1 .. Len(c) : v[i] = a[i]
  BY <1>1, FrontProperties
<1> HIDE DEF v, u
<1>4. v = c
  <2>1. \A i \in 1 .. Len(c) : i \in 1 .. Len(a) /\ i <= Len(c)
    BY <1>1
  <2>2. \A i \in 1 .. Len(c) : a[i] = c[i]
    BY <2>1, PrefixStart
  <2>3. \A i \in 1 .. Len(v) : v[i] = c[i]
    BY Zenon, <1>3, <2>2
  <2> QED
    BY <1>2, <1>3, <2>3, SeqEqual
<1>5. IsPrefix((c \o u) \o b, c \o d)
  BY Zenon, <1>2, <1>4
<1>6. IsPrefix(u \o b, d)
  BY <1>2, <1>5, AfterCommonStart
<1> QED
  BY <1>6 DEF u

\* Of what follows a prefix, less may be left.
LEMMA PrefixCut ==
    ASSUME NEW S, NEW a \in Seq(S), NEW w \in Seq(S), NEW t \in Seq(S),
           IsPrefix(a \o w, t), NEW n \in 0 .. Len(w)
    PROVE  IsPrefix(a \o SubSeq(w, 1, n), t)
<1>1. PICK v \in Seq(S), u \in Seq(S) : w = v \o u /\ v = SubSeq(w, 1, n)
  BY Split
<1>2. a \o w \in Seq(S) /\ a \o v \in Seq(S)
  BY ConcatProperties
<1>3. PICK r \in Seq(S) : t = (a \o w) \o r
  BY <1>2, PrefixIsConcat
<1>4. u \o r \in Seq(S)
  BY ConcatProperties
<1>5. (a \o v) \o u = a \o (v \o u)
  OBVIOUS
<1>6. ((a \o v) \o u) \o r = (a \o v) \o (u \o r)
  BY <1>2
<1>7. t = (a \o v) \o (u \o r)
  BY Zenon, <1>1, <1>3, <1>5, <1>6
<1>8. IsPrefix(a \o v, t)
  BY <1>2, <1>4, <1>7, PrefixIsConcat
<1> QED
  BY Zenon, <1>1, <1>8

\* What is flattened first is where the whole begins.
LEMMA FlattenGrows ==
    ASSUME NEW S, NEW s \in Seq(Seq(S)), NEW n \in 0 .. Len(s)
    PROVE  \E r \in Seq(S) : FlattenSeq(s) = FlattenSeq(SubSeq(s, 1, n)) \o r
<1>1. Len(s) \in Nat /\ n \in Nat /\ Len(s) - n \in Nat
  BY LenProperties
<1> DEFINE F(k) == FlattenSeq(SubSeq(s, 1, k))
           T == {i \in 0 .. Len(s) - n : \E r \in Seq(S) : F(n + i) = F(n) \o r}
<1>2. \A k \in 0 .. Len(s) : F(k) \in Seq(S)
  BY FrontProperties, FlattenType
<1>3. 0 \in T
  <2>1. n + 0 = n /\ 0 \in 0 .. Len(s) - n /\ n \in 0 .. Len(s)
    BY <1>1
  <2> HIDE DEF F
  <2>2. <<>> \in Seq(S) /\ F(n) \o <<>> = F(n)
    BY <1>2, <2>1, EmptySeq, ConcatEmptySeq
  <2> QED
    BY Zenon, <2>1, <2>2
<1>4. ASSUME NEW i \in 0 .. (Len(s) - n) - 1, i \in T
      PROVE  i + 1 \in T
  <2>1. PICK r \in Seq(S) : F(n + i) = F(n) \o r
    BY <1>4
  <2>2. /\ n + i \in 0 .. Len(s) - 1
        /\ n + i + 1 \in 1 .. Len(s)
        /\ (n + i) + 1 = n + (i + 1)
        /\ i + 1 \in 0 .. Len(s) - n
    BY <1>1
  <2>3. F(n + i + 1) = F(n + i) \o s[n + i + 1]
    BY <2>2, FlattenFront
  <2>4. s[n + i + 1] \in Seq(S)
    BY <2>2, ElementOfSeq
  <2> HIDE DEF F
  <2>5. F(n) \in Seq(S)
    BY <1>2
  <2>6. r \o s[n + i + 1] \in Seq(S)
    BY <2>4, ConcatProperties
  <2>7. (F(n) \o r) \o s[n + i + 1] = F(n) \o (r \o s[n + i + 1])
    <3>1. \A a, b, c \in Seq(S) : (a \o b) \o c = a \o (b \o c)
      OBVIOUS
    <3> QED
      BY Zenon, <2>4, <2>5, <3>1
  <2>8. F(n + (i + 1)) = F(n) \o (r \o s[n + i + 1])
    BY Zenon, <2>1, <2>2, <2>3, <2>7
  <2> QED
    BY Zenon, <2>2, <2>6, <2>8
<1>5. n + (Len(s) - n) = Len(s) /\ Len(s) - n \in 0 .. Len(s) - n
  BY <1>1
<1> HIDE DEF T
<1>6. Len(s) - n \in T
  BY <1>1, <1>3, <1>4, <1>5, Induction
<1>7. \E r \in Seq(S) : F(Len(s)) = F(n) \o r
  <2> HIDE DEF F
  <2> QED
    BY Zenon, <1>5, <1>6 DEF T
<1>8. F(Len(s)) = FlattenSeq(s)
  BY SubSeqFull
<1> QED
  BY Zenon, <1>7, <1>8

\* Empty sequences at the end add nothing.
LEMMA FlattenEmptyTail ==
    ASSUME NEW S, NEW s \in Seq(Seq(S)), NEW n \in 0 .. Len(s),
           \A i \in n + 1 .. Len(s) : s[i] = <<>>
    PROVE  FlattenSeq(s) = FlattenSeq(SubSeq(s, 1, n))
<1>1. Len(s) \in Nat /\ n \in Nat /\ Len(s) - n \in Nat
  BY LenProperties
<1> DEFINE F(k) == FlattenSeq(SubSeq(s, 1, k))
           T == {i \in 0 .. Len(s) - n : F(n + i) = F(n)}
<1>2. \A k \in 0 .. Len(s) : F(k) \in Seq(S)
  BY FrontProperties, FlattenType
<1>3. 0 \in T
  <2>1. n + 0 = n /\ 0 \in 0 .. Len(s) - n
    BY <1>1
  <2> HIDE DEF F
  <2> QED
    BY Zenon, <2>1
<1>4. ASSUME NEW i \in 0 .. (Len(s) - n) - 1, i \in T
      PROVE  i + 1 \in T
  <2>1. /\ n + i \in 0 .. Len(s) - 1
        /\ n + i \in 0 .. Len(s)
        /\ n + i + 1 \in n + 1 .. Len(s)
        /\ (n + i) + 1 = n + (i + 1)
        /\ i + 1 \in 0 .. Len(s) - n
    BY <1>1
  <2>2. F(n + i + 1) = F(n + i) \o s[n + i + 1]
    BY <2>1, FlattenFront
  <2> HIDE DEF F
  <2>3. F(n + i) \o <<>> = F(n + i)
    BY <1>2, <2>1, ConcatEmptySeq
  <2>4. s[n + i + 1] = <<>>
    BY <2>1
  <2>5. F(n + (i + 1)) = F(n)
    BY Zenon, <1>4, <2>1, <2>2, <2>3, <2>4
  <2> QED
    BY Zenon, <2>1, <2>5
<1>5. n + (Len(s) - n) = Len(s) /\ Len(s) - n \in 0 .. Len(s) - n
  BY <1>1
<1> HIDE DEF T
<1>6. Len(s) - n \in T
  BY <1>1, <1>3, <1>4, <1>5, Induction
<1>7. F(Len(s)) = F(n)
  <2> HIDE DEF F
  <2> QED
    BY Zenon, <1>5, <1>6 DEF T
<1>8. F(Len(s)) = FlattenSeq(s)
  BY SubSeqFull
<1> QED
  BY Zenon, <1>7, <1>8
=============================================================================
