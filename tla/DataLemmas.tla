------------------------------ MODULE DataLemmas ------------------------------
(***************************************************************************)
(* What the proofs need to know of numbers, of functions defined by        *)
(* recursion over them, and of sequences, whatever the component.          *)
(***************************************************************************)
EXTENDS Naturals, Sequences, SequencesExt, SequenceTheorems, WellFoundedInduction, TLAPS

-----------------------------------------------------------------------------
(* Natural numbers: a least element, and functions by recursion. *)

LEMMA Below == \E R : IsWellFoundedOn(R, Nat) /\ \A m, n \in Nat : m < n => <<m, n>> \in R
<1> DEFINE R == {ss \in Nat \X Nat : ss[1] < ss[2]}
<1>1. IsWellFoundedOn(R, Nat)
  BY NatLessThanWellFounded DEF OpToRel
<1>2. \A m, n \in Nat : m < n => <<m, n>> \in R
  OBVIOUS
<1> QED
  BY <1>1, <1>2

LEMMA Least ==
  ASSUME NEW S \in SUBSET Nat, S # {}
  PROVE  \E n \in S : \A m \in S : n <= m
<1>1. PICK R : IsWellFoundedOn(R, Nat) /\ \A m, n \in Nat : m < n => <<m, n>> \in R
  BY Below
<1>2. IsWellFoundedOn(R, Nat) /\ S \subseteq Nat
  BY <1>1
<1>3. \E n \in S : \A m \in S : ~ (<<m, n>> \in R)
  BY <1>2, WFMin, Zenon
<1>4. PICK n \in S : \A m \in S : ~ (<<m, n>> \in R)
  BY <1>3
<1>5. \A m \in S : n <= m
  <2> TAKE m \in S
  <2>1. ~(m < n)
    BY <1>1, <1>4, Zenon
  <2> QED
    BY <2>1
<1> QED
  BY <1>5

(* The values 0 .. n of a recursion that starts at x0 and goes on by G.     *)
Chain(X, x0, G, n, f) ==
  /\ f \in [0 .. n -> X] /\ f[0] = x0
  /\ \A i \in 0 .. n - 1 : f[i + 1] = G[i][f[i]]

LEMMA Recursion ==
  ASSUME NEW X, NEW x0 \in X, NEW G \in [Nat -> [X -> X]], NEW n \in Nat
  PROVE  \E f : Chain(X, x0, G, n, f)
<1> DEFINE S == {m \in Nat : ~ \E f : Chain(X, x0, G, m, f)}
<1>1. ASSUME S # {}
      PROVE  FALSE
  <2>1. S \in SUBSET Nat
    OBVIOUS
  <2>2. PICK m \in S : \A k \in S : m <= k
    <3> HIDE DEF S
    <3> QED
      BY <1>1, <2>1, Least
  <2>3. CASE m = 0
    <3> DEFINE f == [i \in 0 .. 0 |-> x0]
    <3>1. Chain(X, x0, G, 0, f)
      BY DEF Chain
    <3> QED
      BY <2>3, <3>1
  <2>4. CASE m # 0
    <3>1. m - 1 \in Nat /\ m - 1 \notin S
      <4>1. S \subseteq Nat
        OBVIOUS
      <4> HIDE DEF S
      <4> QED
        BY <2>2, <2>4, <4>1
    <3>2. PICK g : Chain(X, x0, G, m - 1, g)
      BY <3>1
    <3> DEFINE f == [i \in 0 .. m |-> IF i = m THEN G[m - 1][g[m - 1]] ELSE g[i]]
    <3>3. f \in [0 .. m -> X]
      BY <3>1, <3>2 DEF Chain
    <3>4. f[0] = x0
      BY <2>4, <3>1, <3>2 DEF Chain
    <3>5. ASSUME NEW i \in 0 .. m - 1
          PROVE  f[i + 1] = G[i][f[i]]
      <4>1. i \in 0 .. m /\ i # m /\ i + 1 \in 0 .. m /\ f[i] = g[i]
        BY <3>1
      <4>2. CASE i = m - 1
        <5>1. i + 1 = m
          BY <3>1, <4>2
        <5> QED
          BY <4>1, <4>2, <5>1
      <4>3. CASE i # m - 1
        <5>1. i \in 0 .. (m - 1) - 1 /\ i + 1 # m
          BY <3>1, <4>3
        <5> QED
          BY <3>2, <4>1, <5>1 DEF Chain
      <4> QED
        BY <4>2, <4>3
    <3>6. Chain(X, x0, G, m, f)
      BY <3>3, <3>4, <3>5 DEF Chain
    <3> QED
      BY <2>2, <3>6
  <2> QED
    BY <2>3, <2>4
<1>2. \E f : Chain(X, x0, G, n, f)
  BY <1>1
<1> QED
  BY <1>2

-----------------------------------------------------------------------------
(* Sequences: their elements, two joined, one element less, one more. *)

(* The elements of two sequences joined, and when they are all different.  *)
LEMMA ConcatSet ==
  ASSUME NEW R, NEW a \in Seq(R), NEW b \in Seq(R)
  PROVE  /\ a \o b \in Seq(R)
         /\ ToSet(a \o b) = ToSet(a) \cup ToSet(b)
         /\ Len(a \o b) = Len(a) + Len(b)
         /\ IsInjective(a) /\ IsInjective(b) /\ ToSet(a) \cap ToSet(b) = {}
              => IsInjective(a \o b)
<1>1. /\ a \o b \in Seq(R) /\ Len(a \o b) = Len(a) + Len(b)
      /\ \A i \in 1 .. Len(a) + Len(b) :
           (a \o b)[i] = IF i <= Len(a) THEN a[i] ELSE b[i - Len(a)]
  BY ConcatProperties
<1>2. /\ Len(a) \in Nat /\ DOMAIN a = 1 .. Len(a) /\ Len(b) \in Nat /\ DOMAIN b = 1 .. Len(b)
      /\ DOMAIN (a \o b) = 1 .. Len(a) + Len(b)
  BY <1>1, LenProperties
<1>3. \A i \in 1 .. Len(a) : (a \o b)[i] = a[i] /\ i \in 1 .. Len(a) + Len(b)
  BY <1>1, <1>2
<1>4. \A i \in 1 .. Len(b) : /\ Len(a) + i \in 1 .. Len(a) + Len(b)
                             /\ (a \o b)[Len(a) + i] = b[i]
  BY <1>1, <1>2
<1>5. \A i \in 1 .. Len(a) + Len(b) :
         \/ i \in 1 .. Len(a) /\ (a \o b)[i] = a[i]
         \/ ~(i <= Len(a)) /\ i - Len(a) \in 1 .. Len(b) /\ (a \o b)[i] = b[i - Len(a)]
  BY <1>1, <1>2
<1>6. ToSet(a \o b) = ToSet(a) \cup ToSet(b)
  <2>1. \A x \in ToSet(a \o b) : x \in ToSet(a) \cup ToSet(b)
    BY <1>2, <1>5 DEF ToSet
  <2>2. \A x \in ToSet(a) : x \in ToSet(a \o b)
    BY <1>2, <1>3 DEF ToSet
  <2>3. \A x \in ToSet(b) : x \in ToSet(a \o b)
    BY <1>2, <1>4 DEF ToSet
  <2> QED
    BY <2>1, <2>2, <2>3
<1>7. ASSUME IsInjective(a), IsInjective(b), ToSet(a) \cap ToSet(b) = {}
      PROVE  IsInjective(a \o b)
  <2> SUFFICES ASSUME NEW i \in 1 .. Len(a) + Len(b), NEW j \in 1 .. Len(a) + Len(b),
                      (a \o b)[i] = (a \o b)[j]
               PROVE  i = j
    BY <1>2 DEF IsInjective
  <2>1. \A k \in 1 .. Len(a), l \in 1 .. Len(b) : a[k] # b[l]
    BY <1>2, <1>7 DEF ToSet
  <2>2. CASE i \in 1 .. Len(a) /\ j \in 1 .. Len(a)
    BY <1>2, <1>3, <1>7, <2>2 DEF IsInjective
  <2>3. CASE ~(i <= Len(a)) /\ ~(j <= Len(a))
    <3>1. /\ i - Len(a) \in DOMAIN b /\ j - Len(a) \in DOMAIN b
          /\ (a \o b)[i] = b[i - Len(a)] /\ (a \o b)[j] = b[j - Len(a)]
      BY <1>2, <1>5, <2>3
    <3>2. b[i - Len(a)] = b[j - Len(a)]
      BY <3>1
    <3>3. i - Len(a) = j - Len(a)
      BY <1>7, <3>1, <3>2, Zenon DEF IsInjective
    <3> QED
      BY <1>2, <3>3
  <2> QED
    BY <1>2, <1>5, <2>1, <2>2, <2>3
<1> QED
  BY <1>1, <1>6, <1>7

(* A sequence's elements are of its type.                                  *)
LEMMA SeqSet ==
  ASSUME NEW R, NEW s \in Seq(R)
  PROVE  ToSet(s) \subseteq R
<1>1. \A i \in DOMAIN s : s[i] \in R
  BY ElementOfSeq, LenProperties
<1> QED
  BY <1>1 DEF ToSet

(* What RemoveAt returns, position by position. *)
LEMMA RemoveAtIs ==
  ASSUME NEW S, NEW s \in Seq(S), NEW i \in 1 .. Len(s)
  PROVE  /\ RemoveAt(s, i) \in Seq(S)
         /\ Len(RemoveAt(s, i)) = Len(s) - 1
         /\ \A j \in 1 .. Len(s) - 1 :
              RemoveAt(s, i)[j] = IF j < i THEN s[j] ELSE s[j + 1]
<1> DEFINE a == SubSeq(s, 1, i - 1)
           b == SubSeq(s, i + 1, Len(s))
<1>1. a \in Seq(S) /\ Len(a) = i - 1 /\ \A j \in 1 .. i - 1 : a[j] = s[j]
  OBVIOUS
<1>2. b \in Seq(S) /\ Len(b) = Len(s) - i /\ \A j \in 1 .. Len(s) - i : b[j] = s[i + j]
  OBVIOUS
<1>3. RemoveAt(s, i) = a \o b
  BY DEF RemoveAt
<1> HIDE DEF a, b
<1> DEFINE r == a \o b
<1>4. /\ r \in Seq(S) /\ Len(r) = Len(a) + Len(b)
      /\ \A j \in 1 .. Len(a) + Len(b) :
           r[j] = IF j <= Len(a) THEN a[j] ELSE b[j - Len(a)]
  BY <1>1, <1>2, ConcatProperties
<1> HIDE DEF r
<1>5. Len(a) = i - 1 /\ Len(b) = Len(s) - i /\ Len(a) + Len(b) = Len(s) - 1
  BY <1>1, <1>2
<1>6. \A j \in 1 .. Len(s) - 1 : r[j] = IF j <= i - 1 THEN a[j] ELSE b[j - (i - 1)]
  BY <1>4, <1>5
<1>7. ASSUME NEW j \in 1 .. Len(s) - 1
      PROVE  r[j] = IF j < i THEN s[j] ELSE s[j + 1]
  <2>1. CASE j < i
    BY <1>1, <1>6, <2>1
  <2>2. CASE j >= i
    <3>1. j - (i - 1) \in 1 .. Len(s) - i /\ i + (j - (i - 1)) = j + 1
      BY <2>2
    <3>2. QED
      BY <1>2, <1>6, <2>2, <3>1
  <2>3. QED
    BY <2>1, <2>2
<1>8. Len(r) = Len(s) - 1
  BY <1>4, <1>5
<1>9. QED
  BY <1>3, <1>4, <1>7, <1>8 DEF r

(* Removing a position of a sequence without repetition removes one        *)
(* element and leaves no repetition.                                       *)
LEMMA RemoveAtSet ==
  ASSUME NEW S, NEW s \in Seq(S), NEW i \in 1 .. Len(s),
         \A j, k \in DOMAIN s : s[j] = s[k] => j = k
  PROVE  /\ ToSet(RemoveAt(s, i)) = ToSet(s) \ {s[i]}
         /\ \A j, k \in DOMAIN RemoveAt(s, i) :
              RemoveAt(s, i)[j] = RemoveAt(s, i)[k] => j = k
<1> DEFINE r == RemoveAt(s, i)
<1>1. /\ r \in Seq(S) /\ Len(r) = Len(s) - 1 /\ DOMAIN r = 1 .. Len(s) - 1
      /\ \A j \in 1 .. Len(s) - 1 : r[j] = IF j < i THEN s[j] ELSE s[j + 1]
  BY RemoveAtIs
<1> HIDE DEF r
<1>2. ASSUME NEW x PROVE x \in ToSet(r) <=> x \in ToSet(s) \ {s[i]}
  <2>1. ASSUME NEW j \in 1 .. Len(s) - 1, x = r[j]
        PROVE  x \in ToSet(s) \ {s[i]}
    BY <1>1, <2>1 DEF ToSet
  <2>2. ASSUME NEW j \in 1 .. Len(s), x = s[j], x # s[i]
        PROVE  x \in ToSet(r)
    <3>1. CASE j < i
      BY <1>1, <2>2, <3>1 DEF ToSet
    <3>2. CASE j > i
      <4>1. j - 1 \in 1 .. Len(s) - 1 /\ r[j - 1] = x
        BY <1>1, <2>2, <3>2
      <4>2. QED
        BY <1>1, <4>1 DEF ToSet
    <3>3. QED
      BY <2>2, <3>1, <3>2
  <2>3. QED
    BY <1>1, <2>1, <2>2 DEF ToSet
<1>3. \A j, k \in DOMAIN r : r[j] = r[k] => j = k
  BY <1>1
<1>4. QED
  BY <1>2, <1>3 DEF r

(* What InsertAt returns, position by position. *)
LEMMA InsertAtIs ==
  ASSUME NEW S, NEW s \in Seq(S), NEW i \in 1 .. Len(s) + 1, NEW e \in S
  PROVE  /\ InsertAt(s, i, e) \in Seq(S)
         /\ Len(InsertAt(s, i, e)) = Len(s) + 1
         /\ \A j \in 1 .. Len(s) + 1 :
              InsertAt(s, i, e)[j] = IF j < i THEN s[j] ELSE IF j = i THEN e ELSE s[j - 1]
<1> DEFINE a == SubSeq(s, 1, i - 1)
           b == SubSeq(s, i, Len(s))
<1>1. a \in Seq(S) /\ Len(a) = i - 1 /\ \A j \in 1 .. i - 1 : a[j] = s[j]
  OBVIOUS
<1>2. /\ b \in Seq(S) /\ Len(b) = Len(s) + 1 - i
      /\ \A j \in 1 .. Len(s) + 1 - i : b[j] = s[i + j - 1]
  OBVIOUS
<1>3. InsertAt(s, i, e) = a \o <<e>> \o b
  BY DEF InsertAt
<1> HIDE DEF a, b
<1> DEFINE c == a \o <<e>>
<1>4. /\ c \in Seq(S) /\ Len(c) = i
      /\ \A j \in 1 .. i : c[j] = IF j < i THEN s[j] ELSE e
  BY <1>1, ConcatProperties
<1> HIDE DEF c
<1> DEFINE r == c \o b
<1>5. /\ r \in Seq(S) /\ Len(r) = Len(c) + Len(b)
      /\ \A j \in 1 .. Len(c) + Len(b) :
           r[j] = IF j <= Len(c) THEN c[j] ELSE b[j - Len(c)]
  BY <1>2, <1>4, ConcatProperties
<1> HIDE DEF r
<1>6. Len(c) = i /\ Len(c) + Len(b) = Len(s) + 1
  BY <1>2, <1>4
<1>7. \A j \in 1 .. Len(s) + 1 : r[j] = IF j <= i THEN c[j] ELSE b[j - i]
  BY <1>5, <1>6
<1>8. ASSUME NEW j \in 1 .. Len(s) + 1
      PROVE  r[j] = IF j < i THEN s[j] ELSE IF j = i THEN e ELSE s[j - 1]
  <2>1. CASE j <= i
    BY <1>4, <1>7, <2>1
  <2>2. CASE j > i
    <3>1. j - i \in 1 .. Len(s) + 1 - i /\ i + (j - i) - 1 = j - 1
      BY <2>2
    <3>2. QED
      BY <1>2, <1>7, <2>2, <3>1
  <2>3. QED
    BY <2>1, <2>2
<1>9. Len(r) = Len(s) + 1
  BY <1>5, <1>6
<1>10. r = InsertAt(s, i, e)
  BY <1>3 DEF r, c
<1>11. QED
  BY <1>5, <1>8, <1>9, <1>10

(* Inserting a new element adds it and makes no repetition. *)
LEMMA InsertAtSet ==
  ASSUME NEW S, NEW s \in Seq(S), NEW i \in 1 .. Len(s) + 1, NEW e \in S,
         e \notin ToSet(s),
         \A j, k \in DOMAIN s : s[j] = s[k] => j = k
  PROVE  /\ ToSet(InsertAt(s, i, e)) = ToSet(s) \cup {e}
         /\ \A j, k \in DOMAIN InsertAt(s, i, e) :
              InsertAt(s, i, e)[j] = InsertAt(s, i, e)[k] => j = k
<1> DEFINE r == InsertAt(s, i, e)
<1>a. r \in Seq(S) /\ Len(r) = Len(s) + 1
  BY InsertAtIs
<1>b. \A j \in 1 .. Len(s) + 1 :
        r[j] = IF j < i THEN s[j] ELSE IF j = i THEN e ELSE s[j - 1]
  BY InsertAtIs
<1> HIDE DEF r
<1>1. /\ r \in Seq(S) /\ Len(r) = Len(s) + 1 /\ DOMAIN r = 1 .. Len(s) + 1
      /\ \A j \in 1 .. Len(s) + 1 :
           r[j] = IF j < i THEN s[j] ELSE IF j = i THEN e ELSE s[j - 1]
  BY <1>a, <1>b
<1>2. \A j \in 1 .. Len(s) : s[j] # e
  BY DEF ToSet
<1>3. ASSUME NEW x PROVE x \in ToSet(r) <=> x \in ToSet(s) \cup {e}
  <2>1. ASSUME NEW j \in 1 .. Len(s) + 1, x = r[j]
        PROVE  x \in ToSet(s) \cup {e}
    BY <1>1, <2>1 DEF ToSet
  <2>2. ASSUME NEW j \in 1 .. Len(s), x = s[j]
        PROVE  x \in ToSet(r)
    <3>1. CASE j < i
      BY <1>1, <2>2, <3>1 DEF ToSet
    <3>2. CASE j >= i
      <4>1. j + 1 \in 1 .. Len(s) + 1 /\ r[j + 1] = x
        BY <1>1, <2>2, <3>2
      <4>2. QED
        BY <1>1, <4>1 DEF ToSet
    <3>3. QED
      BY <2>2, <3>1, <3>2
  <2>3. e \in ToSet(r)
    <3>1. i \in 1 .. Len(s) + 1 /\ r[i] = e
      BY <1>1
    <3>2. QED
      BY <1>1, <3>1 DEF ToSet
  <2>4. QED
    BY <1>1, <2>1, <2>2, <2>3 DEF ToSet
<1>4. ASSUME NEW j \in 1 .. Len(s) + 1, NEW k \in 1 .. Len(s) + 1, j < k, r[j] = r[k]
      PROVE  FALSE
  <2>1. CASE k < i
    BY <1>1, <1>4, <2>1
  <2>2. CASE k = i
    BY <1>1, <1>2, <1>4, <2>2
  <2>3. CASE k > i /\ j < i
    BY <1>1, <1>4, <2>3
  <2>4. CASE k > i /\ j = i
    <3>1. r[k] = s[k - 1] /\ k - 1 \in 1 .. Len(s) /\ r[j] = e
      BY <1>1, <2>4
    <3>2. QED
      BY <1>2, <1>4, <3>1
  <2>5. CASE j > i
    <3>1. r[k] = s[k - 1] /\ r[j] = s[j - 1]
      BY <1>1, <1>4, <2>5
    <3>2. j - 1 \in DOMAIN s /\ k - 1 \in DOMAIN s /\ j - 1 # k - 1
      BY <1>4, <2>5
    <3>3. QED
      BY <1>4, <3>1, <3>2
  <2>6. QED
    BY <1>4, <2>1, <2>2, <2>3, <2>4, <2>5
<1>5. \A j, k \in DOMAIN r : r[j] = r[k] => j = k
  BY <1>1, <1>4
<1>6. QED
  BY <1>3, <1>5 DEF r
=============================================================================
