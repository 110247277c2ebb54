--------------------------- MODULE PaneTreeProofs ---------------------------
(***************************************************************************)
(* Proofs about PaneTree. Its walks are recursive over a heap of pointers, *)
(* so the first half shows that they have a value at all, and what it is:  *)
(* a depth that grows from a split to its children makes the recursion end *)
(* and the two subtrees of a split disjoint. The second half carries the   *)
(* shape of the tree through ReplacePane and RemovePane.                   *)
(***************************************************************************)
EXTENDS PaneTree, DataLemmas, SequenceTheorems, TLAPS

-----------------------------------------------------------------------------
(* Walks. *)

(* Children are live and lie deeper than their split, and no branch lies   *)
(* deeper than top.                                                        *)
Grounded(h, top, d) ==
  /\ DOMAIN h \subseteq Nodes
  /\ d \in [DOMAIN h -> 0 .. top]
  /\ \A n \in DOMAIN h : ~IsPane(h, n) =>
       /\ h[n].left \in DOMAIN h /\ d[h[n].left] > d[n]
       /\ h[n].right \in DOMAIN h /\ d[h[n].right] > d[n]

(* One step of a walk, where w gives the walks of the children.            *)
Stride(h, both, w) ==
  [n \in Nodes \cup {Null} |->
     IF n \notin DOMAIN h THEN <<>>
     ELSE IF IsPane(h, n) THEN <<n>>
     ELSE w[h[n].left] \o (IF both THEN <<n>> ELSE <<>>) \o w[h[n].right]]

LEMMA StrideType ==
  ASSUME NEW h, NEW top \in Nat, NEW d, Grounded(h, top, d), NEW both \in BOOLEAN,
         NEW w \in [Nodes \cup {Null} -> Seq(Nodes)]
  PROVE  Stride(h, both, w) \in [Nodes \cup {Null} -> Seq(Nodes)]
<1> SUFFICES ASSUME NEW n \in Nodes \cup {Null}
             PROVE  Stride(h, both, w)[n] \in Seq(Nodes)
  BY DEF Stride
<1>1. CASE n \notin DOMAIN h
  BY <1>1, EmptySeq DEF Stride
<1>2. CASE n \in DOMAIN h /\ IsPane(h, n)
  BY <1>2 DEF Stride, Grounded
<1>3. CASE n \in DOMAIN h /\ ~IsPane(h, n)
  <2> DEFINE mid == IF both THEN <<n>> ELSE <<>>
  <2>1. mid \in Seq(Nodes)
    BY <1>3, EmptySeq DEF Grounded
  <2>2. w[h[n].left] \in Seq(Nodes) /\ w[h[n].right] \in Seq(Nodes)
    BY <1>3 DEF Grounded
  <2>3. w[h[n].left] \o mid \in Seq(Nodes)
    BY <2>1, <2>2, ConcatProperties
  <2>4. w[h[n].left] \o mid \o w[h[n].right] \in Seq(Nodes)
    BY <2>2, <2>3, ConcatProperties
  <2> QED
    BY <1>3, <2>4 DEF Stride
<1> QED
  BY <1>1, <1>2, <1>3

(* A walk is a fixed point of a step: as many steps as the tree is deep.   *)
LEMMA WalkExists ==
  ASSUME NEW h, NEW top \in Nat, NEW d, Grounded(h, top, d), NEW both \in BOOLEAN
  PROVE  \E w : w = Stride(h, both, w)
<1> DEFINE X == [Nodes \cup {Null} -> Seq(Nodes)]
           x0 == [n \in Nodes \cup {Null} |-> <<>>]
           G == [i \in Nat |-> [w \in X |-> Stride(h, both, w)]]
<1>1. x0 \in X
  BY EmptySeq
<1>2. G \in [Nat -> [X -> X]]
  <2>1. \A w \in X : Stride(h, both, w) \in X
    BY StrideType
  <2> QED
    BY <2>1
<1>3. PICK f : Chain(X, x0, G, top + 2, f)
  <2> HIDE DEF X, x0, G
  <2>1. top + 2 \in Nat
    OBVIOUS
  <2> QED
    BY <1>1, <1>2, <2>1, Recursion, Zenon
<1>4. ASSUME NEW i \in 0 .. top + 1
      PROVE  f[i + 1] = Stride(h, both, f[i])
  <2>1. i \in 0 .. top + 2 /\ i \in 0 .. (top + 2) - 1 /\ i \in Nat
    OBVIOUS
  <2>2. f[i] \in X
    BY <1>3, <2>1 DEF Chain
  <2>3. G[i][f[i]] = Stride(h, both, f[i])
    BY <2>1, <2>2
  <2> QED
    BY <1>3, <2>1, <2>3 DEF Chain
<1>5. f[0] = x0
  BY <1>3 DEF Chain
<1> HIDE DEF X, G
<1> DEFINE Settled(i) == \A n \in Nodes \cup {Null} :
                           n \notin DOMAIN h \/ d[n] + i > top => f[i][n] = f[i + 1][n]
<1>6. ASSUME NEW i \in 0 .. top + 1
      PROVE  Settled(i)
  <2> DEFINE S == {k \in 0 .. top + 1 : ~Settled(k)}
  <2>1. SUFFICES ASSUME S # {}
                 PROVE  FALSE
    OBVIOUS
  <2>2. PICK k \in S : \A j \in S : k <= j
    <3>1. S \in SUBSET Nat
      OBVIOUS
    <3> HIDE DEF S
    <3> QED
      BY <2>1, <3>1, Least
  <2>3. PICK n \in Nodes \cup {Null} :
          (n \notin DOMAIN h \/ d[n] + k > top) /\ f[k][n] # f[k + 1][n]
    BY <2>2
  <2>4. k \in 0 .. top + 1
    OBVIOUS
  <2>5. f[k + 1] = Stride(h, both, f[k])
    BY <1>4, <2>4
  <2>6. CASE k = 0
    <3>1. n \notin DOMAIN h
      BY <2>3, <2>6 DEF Grounded
    <3> QED
      BY <1>5, <2>3, <2>5, <2>6, <3>1 DEF Stride
  <2>7. CASE k # 0
    <3>1. k - 1 \in 0 .. top + 1 /\ k - 1 \notin S /\ (k - 1) + 1 = k
      BY <2>2, <2>4, <2>7
    <3>2. f[k] = Stride(h, both, f[k - 1])
      BY <1>4, <3>1
    <3>3. Settled(k - 1)
      BY <3>1
    <3>4. n \in DOMAIN h /\ ~IsPane(h, n)
      BY <2>3, <2>5, <3>2 DEF Stride
    <3>5. \A m \in {h[n].left, h[n].right} : /\ m \in Nodes
                                              /\ f[k - 1][m] = f[k][m]
      <4> SUFFICES ASSUME NEW m \in {h[n].left, h[n].right}
                   PROVE  m \in Nodes /\ f[k - 1][m] = f[k][m]
        OBVIOUS
      <4>1. m \in DOMAIN h /\ d[m] > d[n] /\ d[m] \in Nat /\ d[n] \in Nat
        BY <3>4 DEF Grounded
      <4>2. d[m] + (k - 1) > top /\ m \in Nodes
        BY <2>3, <2>4, <3>4, <4>1 DEF Grounded
      <4> QED
        BY <3>1, <3>3, <4>2
    <3>6. f[k][n] = f[k - 1][h[n].left] \o (IF both THEN <<n>> ELSE <<>>) \o f[k - 1][h[n].right]
      BY <3>2, <3>4 DEF Stride
    <3>7. f[k + 1][n] = f[k][h[n].left] \o (IF both THEN <<n>> ELSE <<>>) \o f[k][h[n].right]
      BY <2>5, <3>4 DEF Stride
    <3> QED
      BY <2>3, <3>5, <3>6, <3>7
  <2> QED
    BY <2>6, <2>7
<1>7. f[top + 1] = f[top + 2]
  <2>1. top + 1 \in 0 .. top + 1 /\ (top + 1) + 1 = top + 2
    OBVIOUS
  <2>2. \A n \in DOMAIN h : d[n] + (top + 1) > top
    BY DEF Grounded
  <2>3. \A n \in Nodes \cup {Null} : f[top + 1][n] = f[top + 2][n]
    BY <1>6, <2>1, <2>2
  <2>4. f[top + 1] \in X /\ f[top + 2] \in X
    BY <1>3 DEF Chain
  <2> QED
    BY <2>3, <2>4 DEF X
<1>8. f[top + 2] = Stride(h, both, f[top + 1])
  BY <1>4
<1> QED
  BY <1>7, <1>8

(* So the walk of a node is what the code says of it.                      *)
LEMMA WalkIs ==
  ASSUME NEW h, NEW top \in Nat, NEW d, Grounded(h, top, d), NEW both \in BOOLEAN,
         NEW n \in Nodes \cup {Null}
  PROVE  Walk(h, n, both) =
           IF n \notin DOMAIN h THEN <<>>
           ELSE IF IsPane(h, n) THEN <<n>>
           ELSE Walk(h, h[n].left, both) \o (IF both THEN <<n>> ELSE <<>>)
                  \o Walk(h, h[n].right, both)
<1> DEFINE W == CHOOSE w : w = Stride(h, both, w)
<1>1. W = Stride(h, both, W)
  BY WalkExists
<1>2. \A m : Walk(h, m, both) = W[m]
  BY DEF Walk, Stride
<1> HIDE DEF W
<1>3. W[n] = IF n \notin DOMAIN h THEN <<>>
             ELSE IF IsPane(h, n) THEN <<n>>
             ELSE W[h[n].left] \o (IF both THEN <<n>> ELSE <<>>) \o W[h[n].right]
  BY <1>1 DEF Stride
<1>4. /\ Walk(h, n, both) = W[n]
      /\ Walk(h, h[n].left, both) = W[h[n].left]
      /\ Walk(h, h[n].right, both) = W[h[n].right]
  BY <1>2, Zenon
<1> QED
  BY <1>3, <1>4, Zenon

(* The children of a split are two, and name it as their parent.           *)
Kin(h) ==
  \A n \in DOMAIN h : ~IsPane(h, n) =>
    /\ h[n].left # h[n].right
    /\ h[h[n].left].parent = n
    /\ h[h[n].right].parent = n

(* n is a child of the split it names as its parent.                       *)
ChildOf(h, n, up) ==
  /\ h[n].parent = up /\ up \in DOMAIN h /\ ~IsPane(h, up)
  /\ n \in {h[up].left, h[up].right}

(* The walk from r meets r and what is under it, each once, and nothing    *)
(* that is not under it.                                                   *)
Covers(h, d, r) ==
  /\ NodesOf(h, r) \in Seq(DOMAIN h) /\ IsInjective(NodesOf(h, r))
  /\ PanesOf(h, r) \in Seq(DOMAIN h) /\ IsInjective(PanesOf(h, r))
  /\ Len(PanesOf(h, r)) >= 1
  /\ ToSet(PanesOf(h, r)) = {n \in ToSet(NodesOf(h, r)) : IsPane(h, n)}
  /\ r \in ToSet(NodesOf(h, r))
  /\ \A n \in ToSet(NodesOf(h, r)) :
       /\ d[n] >= d[r]
       /\ n # r => h[n].parent \in ToSet(NodesOf(h, r)) /\ ChildOf(h, n, h[n].parent)
       /\ ~IsPane(h, n) => {h[n].left, h[n].right} \subseteq ToSet(NodesOf(h, r))

(* No branch is under both children of a split: the highest one that is    *)
(* would have its parent under both.                                       *)
LEMMA Apart ==
  ASSUME NEW h, NEW top \in Nat, NEW d, Grounded(h, top, d), Kin(h),
         NEW n \in DOMAIN h, ~IsPane(h, n),
         Covers(h, d, h[n].left), Covers(h, d, h[n].right)
  PROVE  ToSet(NodesOf(h, h[n].left)) \cap ToSet(NodesOf(h, h[n].right)) = {}
<1> DEFINE l == h[n].left
           r == h[n].right
           A == ToSet(NodesOf(h, l))
           B == ToSet(NodesOf(h, r))
           S == {d[m] : m \in A \cap B}
<1>1. A \subseteq DOMAIN h /\ B \subseteq DOMAIN h
  BY SeqSet DEF Covers
<1>2. /\ l \in A /\ r \in B /\ l # r
      /\ l \in DOMAIN h /\ r \in DOMAIN h /\ d[l] > d[n] /\ d[r] > d[n]
      /\ h[l].parent = n /\ h[r].parent = n
  BY DEF Covers, Kin, Grounded
<1>3. /\ \A m \in A : d[m] >= d[l] /\ (m # l => h[m].parent \in A /\ ChildOf(h, m, h[m].parent))
      /\ \A m \in B : d[m] >= d[r] /\ (m # r => h[m].parent \in B /\ ChildOf(h, m, h[m].parent))
  BY DEF Covers
<1>4. \A m \in DOMAIN h : d[m] \in Nat
  BY DEF Grounded
<1>5. \A m, up \in DOMAIN h : ChildOf(h, m, up) => d[m] > d[up]
  BY DEF ChildOf, Grounded
<1> HIDE DEF A, B, l, r
<1>6. ASSUME S # {}
      PROVE  FALSE
  <2>1. S \in SUBSET Nat
    BY <1>1, <1>4
  <2>2. PICK k \in S : \A j \in S : k <= j
    <3> HIDE DEF S
    <3> QED
      BY <1>6, <2>1, Least
  <2>3. PICK m \in A \cap B : k = d[m]
    BY <2>2
  <2>4. m \in DOMAIN h /\ n \in DOMAIN h
    BY <1>1, <2>3
  <2>5. m # l
    <3>1. ASSUME m = l
          PROVE  n \in B
      BY <1>2, <1>3, <2>3, <3>1
    <3> QED
      BY <1>2, <1>3, <1>4, <2>4, <3>1
  <2>6. m # r
    <3>1. ASSUME m = r
          PROVE  n \in A
      BY <1>2, <1>3, <2>3, <3>1
    <3> QED
      BY <1>2, <1>3, <1>4, <2>4, <3>1
  <2>7. h[m].parent \in A \cap B /\ ChildOf(h, m, h[m].parent)
    BY <1>3, <2>3, <2>5, <2>6
  <2>8. d[h[m].parent] < k /\ d[h[m].parent] \in S
    BY <1>1, <1>5, <2>3, <2>4, <2>7
  <2>9. k <= d[h[m].parent] /\ k \in Nat /\ d[h[m].parent] \in Nat
    <3> HIDE DEF S
    <3> QED
      BY <2>1, <2>2, <2>8
  <2> QED
    BY <2>8, <2>9
<1>7. A \cap B = {}
  BY <1>6
<1> QED
  BY <1>7 DEF A, B, l, r

(* A pane's walk is the pane. *)
LEMMA CoversPane ==
  ASSUME NEW h, NEW top \in Nat, NEW d, Grounded(h, top, d),
         NEW r \in DOMAIN h, IsPane(h, r)
  PROVE  Covers(h, d, r)
<1>1. r \in Nodes /\ d[r] \in Nat
  BY DEF Grounded
<1>2. NodesOf(h, r) = <<r>> /\ PanesOf(h, r) = <<r>>
  BY <1>1, WalkIs DEF NodesOf, PanesOf
<1>3. <<r>> \in Seq(DOMAIN h) /\ Len(<<r>>) = 1 /\ DOMAIN <<r>> = {1} /\ ToSet(<<r>>) = {r}
  BY DEF ToSet
<1>4. IsInjective(<<r>>)
  BY <1>3 DEF IsInjective
<1> QED
  BY <1>1, <1>2, <1>3, <1>4 DEF Covers

(* A split's walk joins those of its children. *)
LEMMA CoversSplit ==
  ASSUME NEW h, NEW top \in Nat, NEW d, Grounded(h, top, d), Kin(h),
         NEW r \in DOMAIN h, ~IsPane(h, r),
         Covers(h, d, h[r].left), Covers(h, d, h[r].right)
  PROVE  Covers(h, d, r)
<1> DEFINE L == h[r].left
           R == h[r].right
           a == NodesOf(h, L)
           b == NodesOf(h, R)
           u == PanesOf(h, L)
           v == PanesOf(h, R)
           D == DOMAIN h
<1>1. /\ L \in D /\ R \in D /\ L # R /\ r \in Nodes /\ L \in Nodes /\ R \in Nodes
      /\ d[L] > d[r] /\ d[R] > d[r] /\ d[r] \in Nat /\ d[L] \in Nat /\ d[R] \in Nat
      /\ h[L].parent = r /\ h[R].parent = r
  BY DEF Grounded, Kin
<1>2. /\ a \in Seq(D) /\ b \in Seq(D) /\ u \in Seq(D) /\ v \in Seq(D)
      /\ IsInjective(a) /\ IsInjective(b) /\ IsInjective(u) /\ IsInjective(v)
  BY DEF Covers
<1>3. /\ ToSet(a) \subseteq D /\ ToSet(b) \subseteq D /\ ToSet(a) \cap ToSet(b) = {}
  BY <1>2, SeqSet, Apart
<1>4. /\ L \in ToSet(a) /\ R \in ToSet(b)
      /\ \A n \in ToSet(a) : d[n] >= d[L] /\ d[n] \in Nat
      /\ \A n \in ToSet(b) : d[n] >= d[R] /\ d[n] \in Nat
  BY <1>3 DEF Covers, Grounded
<1>5. r \notin ToSet(a) /\ r \notin ToSet(b)
  BY <1>1, <1>4
<1>6. NodesOf(h, r) = a \o <<r>> \o b
  BY <1>1, WalkIs DEF NodesOf
<1>7. PanesOf(h, r) = u \o <<>> \o v
  BY <1>1, WalkIs DEF PanesOf
<1>8. /\ <<r>> \in Seq(D) /\ ToSet(<<r>>) = {r} /\ IsInjective(<<r>>)
      /\ <<>> \in Seq(D) /\ ToSet(<<>>) = {} /\ IsInjective(<<>>)
  BY EmptySeq DEF ToSet, IsInjective
<1> HIDE DEF D, L, R, a, b, u, v
<1>9. /\ a \o <<r>> \in Seq(D) /\ ToSet(a \o <<r>>) = ToSet(a) \cup {r}
      /\ IsInjective(a \o <<r>>)
  <2> DEFINE m == <<r>>
  <2>1. m \in Seq(D) /\ ToSet(m) = {r} /\ IsInjective(m)
    BY <1>8
  <2>2. ToSet(a) \cap {r} = {}
    BY <1>5
  <2> HIDE DEF m
  <2>3. /\ a \o m \in Seq(D) /\ ToSet(a \o m) = ToSet(a) \cup ToSet(m)
        /\ IsInjective(a) /\ IsInjective(m) /\ ToSet(a) \cap ToSet(m) = {} => IsInjective(a \o m)
    BY <1>2, <2>1, ConcatSet
  <2>4. a \o m \in Seq(D) /\ ToSet(a \o m) = ToSet(a) \cup {r} /\ IsInjective(a \o m)
    BY <1>2, <2>1, <2>2, <2>3
  <2> QED
    BY <2>4 DEF m
<1>10. /\ a \o <<r>> \o b \in Seq(D)
       /\ ToSet(a \o <<r>> \o b) = ToSet(a) \cup {r} \cup ToSet(b)
       /\ IsInjective(a \o <<r>> \o b)
  <2> DEFINE e == a \o <<r>>
  <2>1. e \in Seq(D) /\ ToSet(e) = ToSet(a) \cup {r} /\ IsInjective(e)
    BY <1>9
  <2>2. (ToSet(a) \cup {r}) \cap ToSet(b) = {}
    BY <1>3, <1>5
  <2> HIDE DEF e
  <2>3. /\ e \o b \in Seq(D) /\ ToSet(e \o b) = ToSet(e) \cup ToSet(b)
        /\ IsInjective(e) /\ IsInjective(b) /\ ToSet(e) \cap ToSet(b) = {} => IsInjective(e \o b)
    BY <1>2, <2>1, ConcatSet
  <2>4. /\ e \o b \in Seq(D) /\ ToSet(e \o b) = ToSet(a) \cup {r} \cup ToSet(b)
        /\ IsInjective(e \o b)
    BY <1>2, <2>1, <2>2, <2>3
  <2> QED
    BY <2>4 DEF e
<1>11. /\ ToSet(u) = {n \in ToSet(a) : IsPane(h, n)} /\ Len(u) \in Nat
       /\ ToSet(v) = {n \in ToSet(b) : IsPane(h, n)} /\ Len(v) \in Nat
       /\ Len(u) >= 1 /\ Len(v) >= 1
  BY <1>2, LenProperties DEF Covers, L, R, a, b, u, v
<1>12. /\ u \o <<>> \in Seq(D) /\ ToSet(u \o <<>>) = ToSet(u) /\ IsInjective(u \o <<>>)
       /\ Len(u \o <<>>) = Len(u)
  <2>1. Len(<<>>) = 0
    OBVIOUS
  <2> QED
    BY <1>2, <1>8, <1>11, <2>1, ConcatSet
<1>13. /\ u \o <<>> \o v \in Seq(D) /\ ToSet(u \o <<>> \o v) = ToSet(u) \cup ToSet(v)
       /\ IsInjective(u \o <<>> \o v)
       /\ Len(u \o <<>> \o v) = Len(u) + Len(v)
  BY <1>2, <1>3, <1>11, <1>12, ConcatSet
<1>14. /\ \A n \in ToSet(a) : n # L => h[n].parent \in ToSet(a) /\ ChildOf(h, n, h[n].parent)
       /\ \A n \in ToSet(b) : n # R => h[n].parent \in ToSet(b) /\ ChildOf(h, n, h[n].parent)
       /\ \A n \in ToSet(a) : ~IsPane(h, n) => {h[n].left, h[n].right} \subseteq ToSet(a)
       /\ \A n \in ToSet(b) : ~IsPane(h, n) => {h[n].left, h[n].right} \subseteq ToSet(b)
  BY DEF Covers, L, R, a, b
<1>15. ChildOf(h, L, r) /\ ChildOf(h, R, r)
  BY <1>1 DEF ChildOf, L, R
<1>16. ASSUME NEW n \in ToSet(a) \cup {r} \cup ToSet(b)
       PROVE  /\ d[n] >= d[r]
              /\ n # r => /\ h[n].parent \in ToSet(a) \cup {r} \cup ToSet(b)
                          /\ ChildOf(h, n, h[n].parent)
              /\ ~IsPane(h, n) => {h[n].left, h[n].right} \subseteq ToSet(a) \cup {r} \cup ToSet(b)
  <2>1. CASE n = r
    BY <1>1, <1>4, <2>1 DEF L, R
  <2>2. CASE n \in ToSet(a)
    BY <1>1, <1>4, <1>14, <1>15, <2>2
  <2>3. CASE n \in ToSet(b)
    BY <1>1, <1>4, <1>14, <1>15, <2>3
  <2> QED
    BY <2>1, <2>2, <2>3
<1>17. ToSet(u) \cup ToSet(v) = {n \in ToSet(a) \cup {r} \cup ToSet(b) : IsPane(h, n)}
  BY <1>11
<1>18. /\ NodesOf(h, r) \in Seq(D) /\ IsInjective(NodesOf(h, r))
       /\ PanesOf(h, r) \in Seq(D) /\ IsInjective(PanesOf(h, r))
       /\ Len(PanesOf(h, r)) >= 1
  BY <1>6, <1>7, <1>10, <1>11, <1>13
<1> QED
  BY <1>6, <1>7, <1>10, <1>13, <1>16, <1>17, <1>18 DEF Covers, D

LEMMA WalkCovers ==
  ASSUME NEW h, NEW top \in Nat, NEW d, Grounded(h, top, d), Kin(h), NEW r \in DOMAIN h
  PROVE  Covers(h, d, r)
<1> DEFINE S == {top - d[n] : n \in {m \in DOMAIN h : ~Covers(h, d, m)}}
<1>1. ASSUME S # {}
      PROVE  FALSE
  <2>1. \A n \in DOMAIN h : d[n] \in Nat /\ top - d[n] \in Nat
    BY DEF Grounded
  <2>2. S \in SUBSET Nat
    BY <2>1
  <2>3. PICK k \in S : \A j \in S : k <= j
    <3> HIDE DEF S
    <3> QED
      BY <1>1, <2>2, Least
  <2>4. PICK n \in DOMAIN h : ~Covers(h, d, n) /\ k = top - d[n]
    OBVIOUS
  <2>5. ~IsPane(h, n)
    BY <2>4, CoversPane
  <2>6. /\ h[n].left \in DOMAIN h /\ d[h[n].left] > d[n]
        /\ h[n].right \in DOMAIN h /\ d[h[n].right] > d[n]
    BY <2>5 DEF Grounded
  <2>7. ASSUME NEW m \in DOMAIN h, d[m] > d[n]
        PROVE  Covers(h, d, m)
    <3>1. top - d[m] < k /\ k \in Nat /\ top - d[m] \in Nat
      BY <2>1, <2>4, <2>7
    <3>2. top - d[m] \notin S
      <4> HIDE DEF S
      <4> QED
        BY <2>3, <3>1
    <3> QED
      BY <3>2
  <2> QED
    BY <2>4, <2>5, <2>6, <2>7, CoversSplit
<1> QED
  BY <1>1

-----------------------------------------------------------------------------
(* Trees. *)

(* What holds of a tree link by link. *)
Tree(h, r) ==
  /\ \A n \in DOMAIN h : h[n] \in Branches
  /\ \E top \in Nat : \E d : Grounded(h, top, d)
  /\ Kin(h)
  /\ \A n \in DOMAIN h : n # r => ChildOf(h, n, h[n].parent)
  /\ r = Null => DOMAIN h = {}
  /\ r # Null => r \in DOMAIN h /\ h[r].parent = Null
  /\ \A m, n \in DOMAIN h : IsPane(h, m) /\ h[m].pane = h[n].pane => m = n

PaneNodes(h) == {n \in DOMAIN h : IsPane(h, n)}

LEMMA NullIsNoBranch == Null \notin Panes /\ Null \notin Nodes /\ Panes \cap Nodes = {}
  BY NamesAssumption

(* It follows what a walk from the root meets: every branch, each once. A  *)
(* branch it missed, as high as there is one, would have a parent that it  *)
(* meets.                                                                  *)
LEMMA TreeCovered ==
  ASSUME NEW h, NEW r, Tree(h, r)
  PROVE  /\ NodesOf(h, r) \in Seq(DOMAIN h) /\ IsInjective(NodesOf(h, r))
         /\ ToSet(NodesOf(h, r)) = DOMAIN h
         /\ PanesOf(h, r) \in Seq(DOMAIN h) /\ IsInjective(PanesOf(h, r))
         /\ ToSet(PanesOf(h, r)) = PaneNodes(h)
         /\ r # Null => Len(PanesOf(h, r)) >= 1
<1>1. PICK top \in Nat : \E d : Grounded(h, top, d)
  BY DEF Tree
<1>2. PICK d : Grounded(h, top, d)
  BY <1>1
<1>3. Kin(h)
  BY DEF Tree
<1>4. CASE r = Null
  <2>1. DOMAIN h = {} /\ r \notin DOMAIN h /\ r \in Nodes \cup {Null}
    BY <1>4 DEF Tree
  <2>2. NodesOf(h, r) = <<>> /\ PanesOf(h, r) = <<>>
    BY <1>2, <2>1, WalkIs DEF NodesOf, PanesOf
  <2>3. <<>> \in Seq(DOMAIN h) /\ ToSet(<<>>) = {} /\ IsInjective(<<>>)
    BY EmptySeq DEF ToSet, IsInjective
  <2> QED
    BY <1>4, <2>1, <2>2, <2>3 DEF PaneNodes
<1>5. CASE r # Null
  <2>1. r \in DOMAIN h
    BY <1>5 DEF Tree
  <2>2. Covers(h, d, r)
    BY <1>2, <1>3, <2>1, WalkCovers
  <2> DEFINE A == ToSet(NodesOf(h, r))
             S == {d[n] : n \in DOMAIN h \ A}
  <2>3. A \subseteq DOMAIN h /\ r \in A
    BY <2>2, SeqSet DEF Covers
  <2>4. \A n \in A : ~IsPane(h, n) => {h[n].left, h[n].right} \subseteq A
    BY <2>2 DEF Covers
  <2>5. \A n \in DOMAIN h : d[n] \in Nat
    BY <1>2 DEF Grounded
  <2> HIDE DEF A
  <2>6. ASSUME S # {}
        PROVE  FALSE
    <3>1. S \in SUBSET Nat
      BY <2>5
    <3>2. PICK k \in S : \A j \in S : k <= j
      <4> HIDE DEF S
      <4> QED
        BY <2>6, <3>1, Least
    <3>3. PICK n \in DOMAIN h \ A : k = d[n]
      BY <3>2
    <3>4. ChildOf(h, n, h[n].parent)
      BY <2>3, <3>3 DEF Tree
    <3> DEFINE up == h[n].parent
    <3>5. up \in DOMAIN h /\ ~IsPane(h, up) /\ n \in {h[up].left, h[up].right}
      BY <3>4 DEF ChildOf
    <3>6. d[up] < d[n] /\ d[up] \in Nat /\ d[n] \in Nat
      BY <1>2, <2>5, <3>3, <3>5 DEF Grounded
    <3>7. up \notin A
      BY <2>4, <3>3, <3>5
    <3>8. d[up] \in S
      BY <3>5, <3>7
    <3>9. k <= d[up]
      <4> HIDE DEF S
      <4> QED
        BY <3>2, <3>8
    <3> QED
      BY <3>3, <3>6, <3>9
  <2>7. A = DOMAIN h
    BY <2>3, <2>6
  <2> QED
    BY <2>2, <2>7 DEF A, Covers, PaneNodes
<1> QED
  BY <1>4, <1>5

(* The first pane of a child of a split is a pane, and not of the other    *)
(* child.                                                                  *)
LEMMA FirstPane ==
  ASSUME NEW h, NEW r, Tree(h, r), NEW up \in DOMAIN h, ~IsPane(h, up),
         NEW n \in DOMAIN h, NEW s \in DOMAIN h,
         {n, s} = {h[up].left, h[up].right}
  PROVE  Head(PanesOf(h, s)) \in PaneNodes(h) \ {n}
<1>1. PICK top \in Nat : \E d : Grounded(h, top, d)
  BY DEF Tree
<1>2. PICK d : Grounded(h, top, d)
  BY <1>1
<1>3. Kin(h)
  BY DEF Tree
<1>4. Covers(h, d, n) /\ Covers(h, d, s)
  BY <1>2, <1>3, WalkCovers
<1>5. ToSet(NodesOf(h, n)) \cap ToSet(NodesOf(h, s)) = {}
  <2>1. Covers(h, d, h[up].left) /\ Covers(h, d, h[up].right)
    BY <1>4
  <2>2. ToSet(NodesOf(h, h[up].left)) \cap ToSet(NodesOf(h, h[up].right)) = {}
    BY <1>2, <1>3, <2>1, Apart
  <2>3. \/ n = h[up].left /\ s = h[up].right
        \/ n = h[up].right /\ s = h[up].left
    BY <1>3 DEF Kin
  <2> QED
    BY <2>2, <2>3
<1>6. PanesOf(h, s) \in Seq(DOMAIN h) /\ Len(PanesOf(h, s)) >= 1
  BY <1>4 DEF Covers
<1>7. Head(PanesOf(h, s)) \in ToSet(PanesOf(h, s))
  <2>1. PanesOf(h, s) # <<>>
    BY <1>6
  <2>2. Head(PanesOf(h, s)) = PanesOf(h, s)[1] /\ 1 \in DOMAIN PanesOf(h, s)
    BY <1>6, <2>1
  <2> QED
    BY <2>2 DEF ToSet
<1>8. Head(PanesOf(h, s)) \in ToSet(NodesOf(h, s)) /\ IsPane(h, Head(PanesOf(h, s)))
  BY <1>4, <1>7 DEF Covers
<1>9. ToSet(NodesOf(h, s)) \subseteq DOMAIN h /\ n \in ToSet(NodesOf(h, n))
  BY <1>4, SeqSet DEF Covers
<1> QED
  BY <1>5, <1>8, <1>9 DEF PaneNodes

-----------------------------------------------------------------------------
(* The panel. *)

(* Dropping elements keeps a sequence without repetition.                  *)
LEMMA KeptIs ==
  ASSUME NEW R, NEW s \in Seq(R), NEW S
  PROVE  /\ Kept(s, S) \in Seq(R)
         /\ ToSet(Kept(s, S)) \subseteq S
         /\ IsInjective(s) => IsInjective(Kept(s, S))
<1> DEFINE N == Len(s)
           Step(k) == [i \in 0 .. N |->
                         IF i = 0 THEN <<>>
                         ELSE IF s[i] \in S THEN Append(k[i - 1], s[i])
                         ELSE k[i - 1]]
           K == CHOOSE k : k = Step(k)
           X == Seq(R)
           G == [i \in Nat |-> [t \in X |->
                   IF i + 1 \in 1 .. N /\ s[i + 1] \in S THEN Append(t, s[i + 1]) ELSE t]]
<1>1. N \in Nat /\ DOMAIN s = 1 .. N /\ \A i \in 1 .. N : s[i] \in R
  BY LenProperties, ElementOfSeq
<1>2. K = Step(K)
  <2>1. <<>> \in X
    BY EmptySeq
  <2>2. G \in [Nat -> [X -> X]]
    <3>1. ASSUME NEW i \in Nat, NEW t \in X
          PROVE  (IF i + 1 \in 1 .. N /\ s[i + 1] \in S THEN Append(t, s[i + 1]) ELSE t) \in X
      BY <1>1, AppendProperties
    <3> QED
      BY <3>1
  <2>3. PICK k : Chain(X, <<>>, G, N, k)
    <3> HIDE DEF X, G, N
    <3> QED
      BY <1>1, <2>1, <2>2, Recursion, Zenon
  <2>4. k \in [0 .. N -> X] /\ k[0] = <<>> /\ \A i \in 0 .. N - 1 : k[i + 1] = G[i][k[i]]
    BY <2>3 DEF Chain
  <2>5. ASSUME NEW i \in 0 .. N
        PROVE  k[i] = Step(k)[i]
    <3>1. CASE i = 0
      BY <2>4, <3>1
    <3>2. CASE i # 0
      <4>1. i - 1 \in 0 .. N - 1 /\ i - 1 \in Nat /\ (i - 1) + 1 = i /\ i \in 1 .. N /\ i - 1 \in 0 .. N
        BY <1>1, <3>2
      <4>2. k[i - 1] \in X
        BY <2>4, <4>1
      <4>3. k[i] = G[i - 1][k[i - 1]]
        BY <2>4, <4>1
      <4>4. G[i - 1][k[i - 1]] = IF s[i] \in S THEN Append(k[i - 1], s[i]) ELSE k[i - 1]
        BY <4>1, <4>2
      <4> QED
        BY <3>2, <4>3, <4>4
    <3> QED
      BY <3>1, <3>2
  <2>6. k = Step(k)
    BY <2>4, <2>5
  <2> QED
    BY <2>6
<1>3. Kept(s, S) = K[N]
  BY DEF Kept
<1> HIDE DEF K
<1>4. /\ K[0] = <<>>
      /\ \A i \in 1 .. N : K[i] = IF s[i] \in S THEN Append(K[i - 1], s[i]) ELSE K[i - 1]
  <2>1. K[0] = <<>>
    BY <1>1, <1>2
  <2>2. ASSUME NEW i \in 1 .. N
        PROVE  K[i] = IF s[i] \in S THEN Append(K[i - 1], s[i]) ELSE K[i - 1]
    <3>1. i \in 0 .. N /\ i # 0
      BY <1>1
    <3>2. K[i] = Step(K)[i]
      BY <1>2, Zenon
    <3> QED
      BY <3>1, <3>2
  <2> QED
    BY <2>1, <2>2
<1> HIDE DEF N, X, G
<1> DEFINE Good(i) == /\ K[i] \in Seq(R)
                      /\ \A x \in ToSet(K[i]) : x \in S /\ \E j \in 1 .. i : x = s[j]
                      /\ IsInjective(s) => IsInjective(K[i])
           Bad == {i \in 0 .. N : ~Good(i)}
<1>5. ASSUME Bad # {}
      PROVE  FALSE
  <2>1. Bad \in SUBSET Nat
    BY <1>1
  <2>2. PICK i \in Bad : \A j \in Bad : i <= j
    <3> HIDE DEF Bad
    <3> QED
      BY <1>5, <2>1, Least
  <2>3. i \in 0 .. N /\ ~Good(i)
    OBVIOUS
  <2>4. i # 0
    <3>1. Good(0)
      BY <1>4, EmptySeq DEF ToSet, IsInjective
    <3> QED
      BY <2>3, <3>1
  <2>5. i - 1 \in 0 .. N /\ i \in 1 .. N /\ i - 1 \in Nat
    BY <1>1, <2>3, <2>4
  <2>6. Good(i - 1)
    <3>1. i - 1 \notin Bad
      <4> HIDE DEF Bad
      <4> QED
        BY <1>1, <2>2, <2>3, <2>5
    <3> QED
      BY <2>5, <3>1
  <2> DEFINE t == K[i - 1]
  <2>7. /\ t \in Seq(R)
        /\ \A x \in ToSet(t) : x \in S /\ \E j \in 1 .. i - 1 : x = s[j]
        /\ IsInjective(s) => IsInjective(t)
    BY <2>6
  <2>8. \A j \in 1 .. i - 1 : j \in 1 .. i /\ j \in 1 .. N /\ j # i
    BY <1>1, <2>5
  <2>9. K[i] = IF s[i] \in S THEN Append(t, s[i]) ELSE t
    BY <1>4, <2>5
  <2> HIDE DEF t
  <2>10. CASE s[i] \notin S
    BY <2>3, <2>7, <2>8, <2>9, <2>10
  <2>11. CASE s[i] \in S
    <3> DEFINE m == <<s[i]>>
    <3>1. m \in Seq(R) /\ ToSet(m) = {s[i]} /\ IsInjective(m)
      BY <1>1, <2>5 DEF ToSet, IsInjective
    <3>2. K[i] = t \o m
      BY <1>1, <2>5, <2>7, <2>9, <2>11, AppendIsConcat
    <3> HIDE DEF m
    <3>3. /\ t \o m \in Seq(R) /\ ToSet(t \o m) = ToSet(t) \cup ToSet(m)
          /\ IsInjective(t) /\ IsInjective(m) /\ ToSet(t) \cap ToSet(m) = {} => IsInjective(t \o m)
      BY <2>7, <3>1, ConcatSet
    <3>4. \A x \in ToSet(K[i]) : x \in S /\ \E j \in 1 .. i : x = s[j]
      BY <2>5, <2>7, <2>8, <2>11, <3>1, <3>2, <3>3
    <3>5. ASSUME IsInjective(s)
          PROVE  IsInjective(K[i])
      <4>1. s[i] \notin ToSet(t)
        BY <1>1, <2>5, <2>7, <2>8, <3>5 DEF IsInjective
      <4> QED
        BY <2>7, <3>1, <3>2, <3>3, <3>5, <4>1
    <3> QED
      BY <2>3, <3>2, <3>3, <3>4, <3>5
  <2> QED
    BY <2>10, <2>11
<1>6. Good(N)
  <2>1. Bad = {}
    BY <1>5
  <2>2. \A i \in 0 .. N : Good(i)
    <3> HIDE DEF Good
    <3> QED
      BY <2>1
  <2>3. N \in 0 .. N
    BY <1>1
  <2> HIDE DEF Good
  <2> QED
    BY <2>2, <2>3
<1> QED
  BY <1>3, <1>6

(* The first i places of s are those of t, and s is all of t.              *)
Agrees(t, i, s) ==
  /\ s \in Seq(ToSet(t)) /\ IsInjective(s)
  /\ i \in 0 .. Len(s)
  /\ \A j \in 1 .. i : s[j] = t[j]

LEMMA PutAtAgrees ==
  ASSUME NEW R, NEW t \in Seq(R), IsInjective(t), NEW i \in 1 .. Len(t),
         NEW s, Agrees(t, i - 1, s)
  PROVE  Agrees(t, i, PutAt(s, i, t[i]))
<1> DEFINE e == t[i]
           T == ToSet(t)
           n == Len(s)
           later == {j \in i + 1 .. n : s[j] = e}
<1>1. /\ DOMAIN t = 1 .. Len(t) /\ Len(t) \in Nat /\ i \in Nat /\ e \in T
      /\ s \in Seq(T) /\ n \in Nat /\ DOMAIN s = 1 .. n /\ IsInjective(s)
      /\ i \in 1 .. n + 1 /\ \A j \in 1 .. i - 1 : s[j] = t[j]
  BY LenProperties DEF Agrees, ToSet
<1>2. \A j \in 1 .. i - 1 : s[j] # e
  BY <1>1 DEF IsInjective
<1>3. \A j, k \in DOMAIN s : s[j] = s[k] => j = k
  BY <1>1 DEF IsInjective
<1> HIDE DEF e, T, n
<1>4. ASSUME NEW r \in Seq(T), \A j, k \in DOMAIN r : r[j] = r[k] => j = k,
             e \notin ToSet(r), i \in 1 .. Len(r) + 1, \A j \in 1 .. i - 1 : r[j] = t[j]
      PROVE  Agrees(t, i, InsertAt(r, i, e))
  <2> DEFINE u == InsertAt(r, i, e)
  <2>1. /\ u \in Seq(T) /\ Len(u) = Len(r) + 1
        /\ \A j \in 1 .. Len(r) + 1 :
             u[j] = IF j < i THEN r[j] ELSE IF j = i THEN e ELSE r[j - 1]
    <3>1. r \in Seq(T) /\ e \in T /\ i \in 1 .. Len(r) + 1
      BY <1>1, <1>4
    <3>2. InsertAt(r, i, e) \in Seq(T) /\ Len(InsertAt(r, i, e)) = Len(r) + 1
      BY <3>1, InsertAtIs
    <3>3. \A j \in 1 .. Len(r) + 1 :
            InsertAt(r, i, e)[j] = IF j < i THEN r[j] ELSE IF j = i THEN e ELSE r[j - 1]
      BY <3>1, InsertAtIs
    <3> QED
      BY <3>2, <3>3
  <2>2. \A j, k \in DOMAIN u : u[j] = u[k] => j = k
    BY <1>1, <1>4, InsertAtSet
  <2> HIDE DEF u
  <2>3. Len(r) \in Nat
    BY <1>4, LenProperties
  <2>4. ASSUME NEW j \in 1 .. i
        PROVE  u[j] = t[j]
    <3>1. j \in 1 .. Len(r) + 1
      BY <1>1, <1>4, <2>3
    <3>2. CASE j = i
      BY <2>1, <3>1, <3>2 DEF e
    <3>3. CASE j # i
      <4>1. j < i /\ j \in 1 .. i - 1
        BY <1>1, <3>3
      <4> QED
        BY <1>4, <2>1, <3>1, <4>1
    <3> QED
      BY <3>2, <3>3
  <2>5. IsInjective(u)
    BY <2>2 DEF IsInjective
  <2>6. i \in 0 .. Len(u)
    BY <1>4, <2>1, <2>3
  <2>7. Agrees(t, i, u)
    BY <2>1, <2>4, <2>5, <2>6 DEF Agrees, T
  <2> QED
    BY <2>7 DEF u
<1>5. CASE i <= n /\ s[i] = e
  <2>1. PutAt(s, i, e) = s
    BY <1>5 DEF PutAt, n
  <2>2. i \in 0 .. n /\ \A j \in 1 .. i : s[j] = t[j]
    BY <1>1, <1>5 DEF e
  <2>3. Agrees(t, i, s)
    BY <1>1, <2>2 DEF Agrees, T, n
  <2> QED
    BY <2>1, <2>3 DEF e
<1>6. CASE ~(i <= n /\ s[i] = e) /\ later = {}
  <2>1. PutAt(s, i, e) = InsertAt(s, i, e)
    BY <1>6 DEF PutAt, n
  <2>2. e \notin ToSet(s)
    BY <1>1, <1>2, <1>6 DEF ToSet
  <2>3. Agrees(t, i, InsertAt(s, i, e))
    BY <1>1, <1>3, <1>4, <2>2 DEF n
  <2> QED
    BY <2>1, <2>3 DEF e
<1>7. CASE ~(i <= n /\ s[i] = e) /\ later # {}
  <2> DEFINE k == CHOOSE j \in later : TRUE
             r == RemoveAt(s, k)
  <2>1. k \in later
    BY <1>7
  <2>2. PutAt(s, i, e) = InsertAt(r, i, e)
    BY <1>7 DEF PutAt, n
  <2> HIDE DEF k
  <2>3. k \in 1 .. n /\ k > i /\ s[k] = e
    BY <1>1, <2>1
  <2>4. /\ r \in Seq(T) /\ Len(r) = n - 1
        /\ \A j \in 1 .. n - 1 : r[j] = IF j < k THEN s[j] ELSE s[j + 1]
    BY <1>1, <2>3, RemoveAtIs DEF n
  <2>5. ToSet(r) = ToSet(s) \ {e} /\ \A j, l \in DOMAIN r : r[j] = r[l] => j = l
    BY <1>1, <1>3, <2>3, RemoveAtSet DEF n
  <2> HIDE DEF r
  <2>6. i \in 1 .. Len(r) + 1 /\ \A j \in 1 .. i - 1 : r[j] = t[j]
    BY <1>1, <2>3, <2>4
  <2>7. Agrees(t, i, InsertAt(r, i, e))
    BY <1>4, <2>4, <2>5, <2>6
  <2> QED
    BY <2>2, <2>7 DEF e
<1> QED
  BY <1>5, <1>6, <1>7

(* Two sequences that agree on all of the first, and hold nothing else,    *)
(* are one.                                                                *)
LEMMA AgreesWhole ==
  ASSUME NEW R, NEW t \in Seq(R), NEW s, Agrees(t, Len(t), s)
  PROVE  s = t
<1>1. /\ Len(t) \in Nat /\ DOMAIN t = 1 .. Len(t) /\ s \in Seq(ToSet(t))
      /\ Len(s) \in Nat /\ DOMAIN s = 1 .. Len(s) /\ Len(t) <= Len(s)
      /\ \A j \in 1 .. Len(t) : s[j] = t[j]
      /\ \A j \in 1 .. Len(s) : s[j] \in ToSet(t)
  BY LenProperties, ElementOfSeq DEF Agrees
<1>2. ASSUME Len(s) # Len(t)
      PROVE  FALSE
  <2> DEFINE k == Len(t) + 1
  <2>0. Len(t) \in Nat /\ Len(s) \in Nat /\ Len(t) <= Len(s)
    BY <1>1
  <2>1. k \in 1 .. Len(s) /\ \A j \in 1 .. Len(t) : j # k /\ j \in 1 .. Len(s)
    BY <1>2, <2>0
  <2>2. PICK j \in 1 .. Len(t) : s[k] = t[j]
    BY <1>1, <2>1 DEF ToSet
  <2>3. s[k] = s[j] /\ k # j /\ j \in DOMAIN s /\ k \in DOMAIN s
    BY <1>1, <2>1, <2>2
  <2> QED
    BY <2>3 DEF Agrees, IsInjective
<1>3. t \in Seq(ToSet(t))
  <2>1. t \in [1 .. Len(t) -> ToSet(t)]
    BY <1>1 DEF ToSet
  <2>2. \A n \in Nat : \A f \in [1 .. n -> ToSet(t)] : f \in Seq(ToSet(t))
    BY SeqDef
  <2> QED
    BY <1>1, <2>1, <2>2, Zenon
<1>4. Len(s) = Len(t) /\ \A j \in 1 .. Len(s) : s[j] = t[j]
  BY <1>1, <1>2
<1>5. s \in Seq(ToSet(t))
  BY <1>1
<1> QED
  BY <1>3, <1>4, <1>5, SeqEqual

(* The diff of SyncChildrenFromTree ends in what is desired. *)
LEMMA ReconciledIs ==
  ASSUME NEW R, NEW t \in Seq(R), IsInjective(t),
         NEW Q, children \in Seq(Q), IsInjective(children)
  PROVE  Reconciled(t) = t
<1> DEFINE N == Len(t)
           T == ToSet(t)
           X == Seq(T)
           first == Kept(children, T)
           Step(k) == [i \in 0 .. N |-> IF i = 0 THEN first ELSE PutAt(k[i - 1], i, t[i])]
           K == CHOOSE k : k = Step(k)
           G == [i \in Nat |-> [s \in X |->
                   IF i + 1 \in 1 .. N /\ Agrees(t, i, s) THEN PutAt(s, i + 1, t[i + 1]) ELSE s]]
<1>1. N \in Nat
  BY LenProperties
<1>2. Agrees(t, 0, first)
  <2>1. first \in Seq(Q) /\ ToSet(first) \subseteq T /\ IsInjective(first)
    BY KeptIs
  <2> HIDE DEF first
  <2>2. /\ Len(first) \in Nat /\ DOMAIN first = 1 .. Len(first)
        /\ first \in [1 .. Len(first) -> Q]
    BY <2>1, LenProperties
  <2>3. first \in [1 .. Len(first) -> T]
    BY <2>1, <2>2 DEF ToSet
  <2>4. \A n \in Nat : \A f \in [1 .. n -> T] : f \in Seq(T)
    BY SeqDef
  <2>5. first \in Seq(T)
    BY <2>2, <2>3, <2>4, Zenon
  <2> QED
    BY <2>1, <2>2, <2>5 DEF Agrees
<1>3. \A i \in 1 .. N : \A s : Agrees(t, i - 1, s) => Agrees(t, i, PutAt(s, i, t[i]))
  BY PutAtAgrees
<1>4. first \in X
  BY <1>2 DEF Agrees
<1>5. \A i \in Nat, s \in X :
        G[i][s] = IF i + 1 \in 1 .. N /\ Agrees(t, i, s) THEN PutAt(s, i + 1, t[i + 1]) ELSE s
  OBVIOUS
<1>6. G \in [Nat -> [X -> X]]
  <2>1. ASSUME NEW i \in Nat, NEW s \in X
        PROVE  (IF i + 1 \in 1 .. N /\ Agrees(t, i, s) THEN PutAt(s, i + 1, t[i + 1]) ELSE s) \in X
    <3>1. CASE i + 1 \in 1 .. N /\ Agrees(t, i, s)
      <4>1. (i + 1) - 1 = i
        OBVIOUS
      <4>2. Agrees(t, i + 1, PutAt(s, i + 1, t[i + 1]))
        BY <1>3, <3>1, <4>1
      <4> QED
        BY <3>1, <4>2 DEF Agrees
    <3>2. CASE ~(i + 1 \in 1 .. N /\ Agrees(t, i, s))
      BY <3>2
    <3> QED
      BY <3>1, <3>2
  <2> QED
    BY <2>1
<1> HIDE DEF X, G, first
<1>7. PICK f : Chain(X, first, G, N, f)
  <2> HIDE DEF N
  <2> QED
    BY <1>1, <1>4, <1>6, Recursion, Zenon
<1>8. f \in [0 .. N -> X] /\ f[0] = first /\ \A i \in 0 .. N - 1 : f[i + 1] = G[i][f[i]]
  BY <1>7 DEF Chain
<1> HIDE DEF N, T
(* Every place is put right in its turn. *)
<1> DEFINE Good(i) == Agrees(t, i, f[i])
           Bad == {i \in 0 .. N : ~Good(i)}
<1>9. ASSUME NEW i \in 1 .. N, Good(i - 1)
      PROVE  f[i] = PutAt(f[i - 1], i, t[i]) /\ Good(i)
  <2>1. i - 1 \in 0 .. N - 1 /\ i - 1 \in Nat /\ (i - 1) + 1 = i /\ i - 1 \in 0 .. N
    BY <1>1
  <2>2. f[i] = G[i - 1][f[i - 1]] /\ f[i - 1] \in X
    BY <1>8, <2>1
  <2>3. f[i] = PutAt(f[i - 1], i, t[i])
    BY <1>5, <1>9, <2>1, <2>2
  <2> QED
    BY <1>3, <1>9, <2>3
<1>10. ASSUME Bad # {}
       PROVE  FALSE
  <2>1. Bad \in SUBSET Nat
    BY <1>1
  <2>2. PICK i \in Bad : \A j \in Bad : i <= j
    <3> HIDE DEF Bad
    <3> QED
      BY <1>10, <2>1, Least
  <2>3. i \in 0 .. N /\ ~Good(i)
    OBVIOUS
  <2>4. i # 0
    BY <1>2, <1>8, <2>3
  <2>5. i \in 1 .. N /\ i - 1 \in 0 .. N
    BY <1>1, <2>3, <2>4
  <2>6. i - 1 \notin Bad
    <3> HIDE DEF Bad
    <3> QED
      BY <1>1, <2>2, <2>3, <2>5
  <2>7. Good(i - 1)
    BY <2>5, <2>6
  <2> QED
    BY <1>9, <2>3, <2>5, <2>7
<1>11. \A i \in 0 .. N : Good(i)
  <2> HIDE DEF Good
  <2> QED
    BY <1>10
<1> HIDE DEF Good, Bad
<1>12. K = Step(K)
  <2>1. ASSUME NEW i \in 0 .. N
        PROVE  f[i] = Step(f)[i]
    <3>1. CASE i = 0
      BY <1>8, <3>1
    <3>2. CASE i # 0
      <4>1. i \in 1 .. N /\ i - 1 \in 0 .. N
        BY <1>1, <3>2
      <4>2. f[i] = PutAt(f[i - 1], i, t[i])
        BY <1>9, <1>11, <4>1
      <4> QED
        BY <3>2, <4>2
    <3> QED
      BY <3>1, <3>2
  <2>2. f = Step(f)
    BY <1>8, <2>1
  <2> QED
    BY <2>2
<1>13. Reconciled(t) = K[N]
  BY DEF Reconciled, N, T, first
<1> HIDE DEF K
<1>14. K[0] = first
  BY <1>1, <1>12
<1>15. ASSUME NEW i \in 1 .. N
       PROVE  K[i] = PutAt(K[i - 1], i, t[i])
  <2>1. i \in 0 .. N /\ i # 0
    BY <1>1
  <2>2. K[i] = Step(K)[i]
    BY <1>12, Zenon
  <2> QED
    BY <2>1, <2>2
<1> HIDE DEF Step
<1> DEFINE Other == {i \in 0 .. N : K[i] # f[i]}
<1>16. ASSUME Other # {}
       PROVE  FALSE
  <2>1. Other \in SUBSET Nat
    BY <1>1
  <2>2. PICK i \in Other : \A j \in Other : i <= j
    <3> HIDE DEF Other
    <3> QED
      BY <1>16, <2>1, Least
  <2>3. i \in 0 .. N /\ K[i] # f[i]
    OBVIOUS
  <2>4. i # 0
    BY <1>8, <1>14, <2>3
  <2>5. i \in 1 .. N /\ i - 1 \in 0 .. N
    BY <1>1, <2>3, <2>4
  <2>6. i - 1 \notin Other
    <3> HIDE DEF Other
    <3> QED
      BY <1>1, <2>2, <2>3, <2>5
  <2>7. K[i - 1] = f[i - 1]
    BY <2>5, <2>6
  <2> QED
    BY <1>9, <1>11, <1>15, <2>3, <2>5, <2>7
<1>17. N \in 0 .. N
  BY <1>1
<1>18. K[N] = f[N]
  BY <1>16, <1>17
<1>19. Agrees(t, N, f[N])
  BY <1>11, <1>17 DEF Good
<1>20. f[N] = t
  BY <1>19, AgreesWhole DEF N
<1> QED
  BY <1>13, <1>18, <1>20

(* The panel lists the pane or the divider of every branch, each once.     *)
LEMMA ElementsIs ==
  ASSUME NEW h, NEW r, Tree(h, r)
  PROVE  Elements(h, r) \in Seq(Panes \cup Nodes) /\ IsInjective(Elements(h, r))
<1> DEFINE w == NodesOf(h, r)
           E == Elements(h, r)
           N == Len(w)
<1>1. /\ w \in Seq(DOMAIN h) /\ IsInjective(w) /\ N \in Nat /\ DOMAIN w = 1 .. N
      /\ \A i \in 1 .. N : w[i] \in DOMAIN h
  BY TreeCovered, LenProperties, ElementOfSeq
<1>2. E = [i \in 1 .. N |-> IF IsPane(h, w[i]) THEN h[w[i]].pane ELSE w[i]]
  BY <1>1 DEF Elements
<1> HIDE DEF w, E, N
<1>3. \A n \in DOMAIN h : n \in Nodes /\ (IsPane(h, n) => h[n].pane \in Panes)
  <2>1. DOMAIN h \subseteq Nodes
    BY DEF Tree, Grounded
  <2>2. \A n \in DOMAIN h : h[n].pane \in Panes \cup {Null}
    BY DEF Tree, Branches
  <2> QED
    BY <2>1, <2>2 DEF IsPane
<1>4. \A i \in 1 .. N : (IF IsPane(h, w[i]) THEN h[w[i]].pane ELSE w[i]) \in Panes \cup Nodes
  BY <1>1, <1>3
<1>5. E \in [1 .. N -> Panes \cup Nodes]
  BY <1>2, <1>4
<1>6. E \in Seq(Panes \cup Nodes)
  <2>1. \A n \in Nat : \A f \in [1 .. n -> Panes \cup Nodes] : f \in Seq(Panes \cup Nodes)
    BY SeqDef
  <2> QED
    BY <1>1, <1>5, <2>1, Zenon
<1>7. ASSUME NEW i \in 1 .. N, NEW j \in 1 .. N, E[i] = E[j]
      PROVE  i = j
  <2>1. /\ E[i] = IF IsPane(h, w[i]) THEN h[w[i]].pane ELSE w[i]
        /\ E[j] = IF IsPane(h, w[j]) THEN h[w[j]].pane ELSE w[j]
    BY <1>2
  <2>2. w[i] \in DOMAIN h /\ w[j] \in DOMAIN h
    BY <1>1
  <2>3. IsPane(h, w[i]) <=> IsPane(h, w[j])
    BY <1>3, <1>7, <2>1, <2>2, NullIsNoBranch
  <2>4. w[i] = w[j]
    BY <1>7, <2>1, <2>2, <2>3 DEF Tree
  <2> QED
    BY <1>1, <2>4 DEF IsInjective
<1>8. IsInjective(E)
  BY <1>5, <1>7 DEF IsInjective
<1> QED
  BY <1>6, <1>8 DEF E

-----------------------------------------------------------------------------
(* ReplacePane and RemovePane keep the tree a tree. *)

(* What Relink leaves as it was. *)
LEMMA RelinkIs ==
  ASSUME NEW h, \A m \in DOMAIN h : h[m] \in Branches,
         NEW up, up # Null => up \in DOMAIN h, NEW old, NEW new \in Nodes
  PROVE  /\ DOMAIN Relink(h, up, old, new) = DOMAIN h
         /\ \A m \in DOMAIN h :
              /\ Relink(h, up, old, new)[m] \in Branches
              /\ Relink(h, up, old, new)[m].pane = h[m].pane
              /\ Relink(h, up, old, new)[m].parent = h[m].parent
              /\ m # up => Relink(h, up, old, new)[m] = h[m]
         /\ up # Null =>
              /\ Relink(h, up, old, new)[up].left =
                   IF h[up].left = old THEN new ELSE h[up].left
              /\ Relink(h, up, old, new)[up].right =
                   IF h[up].left = old THEN h[up].right ELSE new
<1> DEFINE L == Relink(h, up, old, new)
<1>1. CASE up = Null
  BY <1>1 DEF Relink
<1>2. CASE up # Null /\ h[up].left = old
  <2>1. L = [h EXCEPT ![up].left = new]
    BY <1>2 DEF Relink
  <2>2. \A m \in DOMAIN h : L[m] = IF m = up THEN [h[up] EXCEPT !.left = new] ELSE h[m]
    BY <2>1
  <2>3. /\ [h[up] EXCEPT !.left = new] \in Branches
        /\ [h[up] EXCEPT !.left = new].pane = h[up].pane
        /\ [h[up] EXCEPT !.left = new].parent = h[up].parent
        /\ [h[up] EXCEPT !.left = new].left = new
        /\ [h[up] EXCEPT !.left = new].right = h[up].right
    BY <1>2 DEF Branches
  <2> QED
    BY <1>2, <2>1, <2>2, <2>3
<1>3. CASE up # Null /\ h[up].left # old
  <2>1. L = [h EXCEPT ![up].right = new]
    BY <1>3 DEF Relink
  <2>2. \A m \in DOMAIN h : L[m] = IF m = up THEN [h[up] EXCEPT !.right = new] ELSE h[m]
    BY <2>1
  <2>3. /\ [h[up] EXCEPT !.right = new] \in Branches
        /\ [h[up] EXCEPT !.right = new].pane = h[up].pane
        /\ [h[up] EXCEPT !.right = new].parent = h[up].parent
        /\ [h[up] EXCEPT !.right = new].right = new
        /\ [h[up] EXCEPT !.right = new].left = h[up].left
    BY <1>3 DEF Branches
  <2> QED
    BY <1>3, <2>1, <2>2, <2>3
<1> QED
  BY <1>1, <1>2, <1>3

(* H is the heap with g, from top down, in the place of n.                 *)
Grafted(H, n, top, g) ==
  /\ DOMAIN H = (DOMAIN heap \ {n}) \cup DOMAIN g
  /\ \A m \in DOMAIN heap \ {n} :
       /\ H[m] \in Branches
       /\ H[m].pane = heap[m].pane
       /\ H[m].parent = heap[m].parent
       /\ m # heap[n].parent => H[m] = heap[m]
  /\ n # root => LET up == heap[n].parent IN
       /\ H[up].left = IF heap[up].left = n THEN top ELSE heap[up].left
       /\ H[up].right = IF heap[up].left = n THEN heap[up].right ELSE top
  /\ \A m \in DOMAIN g :
       /\ H[m] \in Branches
       /\ H[m].pane = g[m].pane
       /\ H[m].left = g[m].left
       /\ H[m].right = g[m].right
       /\ H[m].parent = IF m = top THEN heap[n].parent ELSE g[m].parent

LEMMA ReplacedIs ==
  ASSUME Tree(heap, root), NEW n \in PaneNodes(heap),
         NEW g, NEW top \in DOMAIN g, Tree(g, top), DOMAIN g \cap DOMAIN heap = {}
  PROVE  Grafted(Replaced(n, top, g), n, top, g)
<1> DEFINE up == heap[n].parent
           L == Relink(heap, up, n, top)
           W == Without(L, {n})
           G == [g EXCEPT ![top].parent = up]
           H == Replaced(n, top, g)
<1>1. n \in DOMAIN heap /\ IsPane(heap, n) /\ \A m \in DOMAIN heap : heap[m] \in Branches
  BY DEF PaneNodes, Tree
<1>2. /\ up # Null => up \in DOMAIN heap /\ up # n
      /\ n # root => up \in DOMAIN heap /\ up # n /\ up # Null
  <2>1. CASE n = root
    BY <1>1, <2>1 DEF Tree
  <2>2. CASE n # root
    <3>1. up \in DOMAIN heap /\ ~IsPane(heap, up)
      BY <1>1, <2>2 DEF Tree, ChildOf
    <3>2. DOMAIN heap \subseteq Nodes
      BY DEF Tree, Grounded
    <3> QED
      BY <1>1, <3>1, <3>2, NullIsNoBranch
  <2> QED
    BY <2>1, <2>2
<1>3. top \in Nodes /\ \A m \in DOMAIN g : g[m] \in Branches
  BY DEF Tree, Grounded
<1>4. /\ DOMAIN L = DOMAIN heap
      /\ \A m \in DOMAIN heap :
           /\ L[m] \in Branches
           /\ L[m].pane = heap[m].pane
           /\ L[m].parent = heap[m].parent
           /\ m # up => L[m] = heap[m]
      /\ up # Null =>
           /\ L[up].left = IF heap[up].left = n THEN top ELSE heap[up].left
           /\ L[up].right = IF heap[up].left = n THEN heap[up].right ELSE top
  BY <1>1, <1>2, <1>3, RelinkIs
<1>5. up \in Nodes \cup {Null}
  BY <1>1 DEF Branches
<1>6. /\ DOMAIN G = DOMAIN g
      /\ \A m \in DOMAIN g : G[m] = IF m = top THEN [g[m] EXCEPT !.parent = up] ELSE g[m]
  OBVIOUS
<1>7. \A m \in DOMAIN g : /\ G[m] \in Branches
                          /\ G[m].pane = g[m].pane /\ G[m].left = g[m].left
                          /\ G[m].right = g[m].right
                          /\ G[m].parent = IF m = top THEN up ELSE g[m].parent
  BY <1>3, <1>5, <1>6 DEF Branches
<1> HIDE DEF L, G
<1>8. DOMAIN W = DOMAIN heap \ {n} /\ \A m \in DOMAIN heap \ {n} : W[m] = L[m]
  BY <1>4 DEF Without
<1>9. H = Union(W, G)
  BY DEF Replaced, L, G
<1> HIDE DEF W, H
<1>10. /\ DOMAIN H = (DOMAIN heap \ {n}) \cup DOMAIN g
       /\ \A m \in DOMAIN H : H[m] = IF m \in DOMAIN g THEN G[m] ELSE W[m]
  BY <1>6, <1>8, <1>9 DEF Union
<1>11. \A m \in DOMAIN heap \ {n} : H[m] = L[m] /\ m \in DOMAIN heap
  BY <1>8, <1>10
<1>12. \A m \in DOMAIN g : H[m] = G[m]
  BY <1>10
<1>13. n # root => up \in DOMAIN heap \ {n}
  BY <1>2
<1>14. \A m \in DOMAIN heap \ {n} :
         /\ H[m] \in Branches /\ H[m].pane = heap[m].pane /\ H[m].parent = heap[m].parent
         /\ m # up => H[m] = heap[m]
  BY <1>4, <1>11
<1>15. n # root => /\ H[up].left = IF heap[up].left = n THEN top ELSE heap[up].left
                   /\ H[up].right = IF heap[up].left = n THEN heap[up].right ELSE top
  BY <1>2, <1>4, <1>11, <1>13
<1>16. \A m \in DOMAIN g :
         /\ H[m] \in Branches /\ H[m].pane = g[m].pane
         /\ H[m].left = g[m].left /\ H[m].right = g[m].right
         /\ H[m].parent = IF m = top THEN up ELSE g[m].parent
  BY <1>7, <1>12
<1> QED
  BY <1>10, <1>14, <1>15, <1>16 DEF H, Grafted

(* The pane n gives its place to the tree g. *)
LEMMA ReplacedTree ==
  ASSUME Tree(heap, root), NEW n \in PaneNodes(heap),
         NEW g, NEW top \in DOMAIN g, Tree(g, top), DOMAIN g \cap DOMAIN heap = {},
         \A m \in PaneNodes(g), k \in PaneNodes(heap) \ {n} : g[m].pane # heap[k].pane
  PROVE  /\ Tree(Replaced(n, top, g), IF n = root THEN top ELSE root)
         /\ PaneNodes(Replaced(n, top, g)) = (PaneNodes(heap) \ {n}) \cup PaneNodes(g)
         /\ \A m \in PaneNodes(heap) \ {n} : Replaced(n, top, g)[m].pane = heap[m].pane
         /\ \A m \in PaneNodes(g) : Replaced(n, top, g)[m].pane = g[m].pane
<1> DEFINE up == heap[n].parent
           H == Replaced(n, top, g)
           R == IF n = root THEN top ELSE root
           A == DOMAIN heap \ {n}
           B == DOMAIN g
<1>0. Grafted(H, n, top, g)
  BY ReplacedIs
<1> HIDE DEF H
<1>1. /\ DOMAIN H = A \cup B
      /\ \A m \in A : /\ H[m] \in Branches /\ H[m].pane = heap[m].pane
                      /\ H[m].parent = heap[m].parent /\ (m # up => H[m] = heap[m])
      /\ n # root => /\ H[up].left = IF heap[up].left = n THEN top ELSE heap[up].left
                     /\ H[up].right = IF heap[up].left = n THEN heap[up].right ELSE top
      /\ \A m \in B : /\ H[m] \in Branches /\ H[m].pane = g[m].pane
                      /\ H[m].left = g[m].left /\ H[m].right = g[m].right
                      /\ H[m].parent = IF m = top THEN up ELSE g[m].parent
  BY <1>0 DEF Grafted
<1>2. n \in DOMAIN heap /\ IsPane(heap, n) /\ A \cap B = {} /\ n \notin A
  BY DEF PaneNodes
<1>3. /\ \A m \in A : IsPane(H, m) <=> IsPane(heap, m)
      /\ \A m \in B : IsPane(H, m) <=> IsPane(g, m)
  BY <1>1 DEF IsPane
<1>4. /\ DOMAIN heap \subseteq Nodes /\ DOMAIN g \subseteq Nodes /\ Null \notin Nodes
  BY NullIsNoBranch DEF Tree, Grounded
<1>5. /\ n = root => up = Null
      /\ n # root => /\ up \in A /\ up # Null /\ ~IsPane(heap, up) /\ root \in A
                     /\ n \in {heap[up].left, heap[up].right}
  <2>1. n # root => ChildOf(heap, n, up) /\ root \in DOMAIN heap
    BY <1>2 DEF Tree
  <2> QED
    BY <1>2, <1>4, <2>1 DEF Tree, ChildOf
<1>6. g[top].parent = Null /\ top \in B
  BY <1>4 DEF Tree
(* The splits of heap: none but up has n for a child. *)
<1>7. ASSUME NEW m \in A, ~IsPane(heap, m)
      PROVE  /\ heap[m].left \in DOMAIN heap /\ heap[m].right \in DOMAIN heap
             /\ heap[m].left # heap[m].right
             /\ heap[heap[m].left].parent = m /\ heap[heap[m].right].parent = m
             /\ m # up => heap[m].left \in A /\ heap[m].right \in A
             /\ heap[m].left # n => heap[m].left \in A
             /\ heap[m].right # n => heap[m].right \in A
  <2>1. /\ heap[m].left \in DOMAIN heap /\ heap[m].right \in DOMAIN heap
    BY <1>7 DEF Tree, Grounded
  <2>2. /\ heap[m].left # heap[m].right
        /\ heap[heap[m].left].parent = m /\ heap[heap[m].right].parent = m
    BY <1>7 DEF Tree, Kin
  <2> QED
    BY <2>1, <2>2
<1>8. ASSUME NEW m \in B, ~IsPane(g, m)
      PROVE  /\ g[m].left \in B /\ g[m].right \in B /\ g[m].left # g[m].right
             /\ g[g[m].left].parent = m /\ g[g[m].right].parent = m
             /\ g[m].left # top /\ g[m].right # top
  <2>1. /\ g[m].left \in B /\ g[m].right \in B
    BY <1>8 DEF Tree, Grounded
  <2>2. /\ g[m].left # g[m].right
        /\ g[g[m].left].parent = m /\ g[g[m].right].parent = m
    BY <1>8 DEF Tree, Kin
  <2> QED
    BY <1>4, <1>6, <2>1, <2>2
<1>9. \A m \in DOMAIN H : H[m] \in Branches
  BY <1>1
<1>10. Kin(H)
  <2> SUFFICES ASSUME NEW m \in DOMAIN H, ~IsPane(H, m)
               PROVE  /\ H[m].left # H[m].right
                      /\ H[H[m].left].parent = m
                      /\ H[H[m].right].parent = m
    BY DEF Kin
  <2>1. CASE m \in A /\ m # up
    BY <1>1, <1>3, <1>7, <2>1
  <2>2. CASE m \in B
    BY <1>1, <1>3, <1>8, <2>2
  <2>3. CASE m = up /\ n # root
    <3>1. m \in A /\ ~IsPane(heap, m)
      BY <1>5, <2>3
    <3>2. CASE heap[m].left = n
      BY <1>1, <1>2, <1>6, <1>7, <2>3, <3>1, <3>2
    <3>3. CASE heap[m].left # n
      <4>1. heap[m].right = n
        BY <1>5, <2>3, <3>3
      <4> QED
        BY <1>1, <1>2, <1>6, <1>7, <2>3, <3>1, <3>3, <4>1
    <3> QED
      BY <3>2, <3>3
  <2> QED
    BY <1>1, <1>4, <1>5, <2>1, <2>2, <2>3
<1>11. \E t \in Nat : \E d : Grounded(H, t, d)
  <2>1. PICK t1 \in Nat : \E d : Grounded(heap, t1, d)
    BY DEF Tree
  <2>2. PICK d1 : Grounded(heap, t1, d1)
    BY <2>1
  <2>3. PICK t2 \in Nat : \E d : Grounded(g, t2, d)
    BY DEF Tree
  <2>4. PICK d2 : Grounded(g, t2, d2)
    BY <2>3
  <2> DEFINE D == [m \in A \cup B |-> IF m \in B THEN d1[n] + d2[m] ELSE d1[m]]
  <2>5. /\ \A m \in DOMAIN heap : d1[m] \in 0 .. t1
        /\ \A m \in B : d2[m] \in 0 .. t2
    BY <2>2, <2>4 DEF Grounded
  <2>6. D \in [A \cup B -> 0 .. t1 + t2]
    BY <1>2, <2>5
  <2>7. (\A m \in A : D[m] = d1[m]) /\ (\A m \in B : D[m] = d1[n] + d2[m])
    BY <1>2
  <2> HIDE DEF D
  <2>8. ASSUME NEW m \in A \cup B, ~IsPane(H, m)
        PROVE  /\ H[m].left \in A \cup B /\ D[H[m].left] > D[m]
               /\ H[m].right \in A \cup B /\ D[H[m].right] > D[m]
    <3>1. CASE m \in B
      <4>1. d2[g[m].left] > d2[m] /\ d2[g[m].right] > d2[m]
        BY <1>3, <2>4, <2>8, <3>1 DEF Grounded
      <4> QED
        BY <1>1, <1>2, <1>3, <1>8, <2>5, <2>7, <2>8, <3>1, <4>1
    <3>2. CASE m \in A
      <4>1. d1[heap[m].left] > d1[m] /\ d1[heap[m].right] > d1[m]
        BY <1>3, <2>2, <2>8, <3>2 DEF Grounded
      <4>2. CASE m # up
        BY <1>1, <1>3, <1>7, <2>7, <2>8, <3>2, <4>1, <4>2
      <4>3. CASE m = up
        <5>1. n # root
          BY <1>4, <1>5, <3>2, <4>3
        <5>2. D[top] >= d1[n] /\ d1[n] \in Nat /\ D[top] \in Nat
          BY <1>2, <1>6, <2>5, <2>7
        <5>3. CASE heap[m].left = n
          <6>1. H[m].left = top /\ H[m].right = heap[m].right /\ heap[m].right \in A
            BY <1>1, <1>3, <1>7, <2>8, <3>2, <4>3, <5>1, <5>3
          <6> QED
            BY <1>6, <2>5, <2>7, <3>2, <4>1, <5>2, <5>3, <6>1
        <5>4. CASE heap[m].left # n
          <6>1. H[m].right = top /\ H[m].left = heap[m].left /\ heap[m].left \in A
                /\ heap[m].right = n
            BY <1>1, <1>3, <1>5, <1>7, <2>8, <3>2, <4>3, <5>1, <5>4
          <6> QED
            BY <1>6, <2>5, <2>7, <3>2, <4>1, <5>2, <5>4, <6>1
        <5> QED
          BY <5>3, <5>4
      <4> QED
        BY <4>2, <4>3
    <3> QED
      BY <3>1, <3>2
  <2>9. Grounded(H, t1 + t2, D)
    BY <1>1, <1>4, <2>6, <2>8 DEF Grounded
  <2>10. t1 + t2 \in Nat
    OBVIOUS
  <2> QED
    BY <2>9, <2>10
<1>12. ASSUME NEW m \in DOMAIN H, m # R
       PROVE  ChildOf(H, m, H[m].parent)
  <2>1. CASE m \in B /\ m # top
    <3>1. ChildOf(g, m, g[m].parent)
      BY <2>1 DEF Tree
    <3> QED
      BY <1>1, <1>3, <2>1, <3>1 DEF ChildOf
  <2>2. CASE m = top
    <3>1. n # root
      BY <1>12, <2>2
    <3> QED
      BY <1>1, <1>3, <1>5, <1>6, <2>2, <3>1 DEF ChildOf
  <2>3. CASE m \in A
    <3>1. m # root
      BY <1>2, <1>12, <2>3
    <3>2. ChildOf(heap, m, heap[m].parent)
      BY <2>3, <3>1 DEF Tree
    <3> DEFINE q == heap[m].parent
    <3>3. q \in A /\ ~IsPane(heap, q) /\ m \in {heap[q].left, heap[q].right} /\ H[m].parent = q
      BY <1>1, <1>2, <2>3, <3>2 DEF ChildOf
    <3>4. m \in {H[q].left, H[q].right}
      <4>1. CASE q # up
        BY <1>1, <3>3, <4>1
      <4>2. CASE q = up
        <5>1. n # root /\ m # n
          BY <1>2, <1>4, <1>5, <2>3, <3>3, <4>2
        <5> QED
          BY <1>1, <1>5, <3>3, <4>2, <5>1
      <4> QED
        BY <4>1, <4>2
    <3> QED
      BY <1>1, <1>3, <3>3, <3>4 DEF ChildOf
  <2> QED
    BY <1>1, <2>1, <2>2, <2>3
<1>13. R # Null /\ R \in DOMAIN H /\ H[R].parent = Null
  <2>1. CASE n = root
    BY <1>1, <1>4, <1>5, <1>6, <2>1
  <2>2. CASE n # root
    <3>1. root # Null /\ heap[root].parent = Null
      BY <1>4, <1>5, <2>2 DEF Tree
    <3> QED
      BY <1>1, <1>5, <2>2, <3>1
  <2> QED
    BY <2>1, <2>2
<1>14. ASSUME NEW k \in DOMAIN H, NEW m \in DOMAIN H, IsPane(H, k), H[k].pane = H[m].pane
       PROVE  k = m
  <2>1. IsPane(H, m)
    BY <1>14 DEF IsPane
  <2>2. CASE k \in A /\ m \in A
    BY <1>1, <1>3, <1>14, <2>2 DEF Tree
  <2>3. CASE k \in B /\ m \in B
    BY <1>1, <1>3, <1>14, <2>3 DEF Tree
  <2>4. CASE k \in A /\ m \in B
    BY <1>1, <1>2, <1>3, <1>14, <2>1, <2>4 DEF PaneNodes
  <2>5. CASE k \in B /\ m \in A
    BY <1>1, <1>2, <1>3, <1>14, <2>1, <2>5 DEF PaneNodes
  <2> QED
    BY <1>1, <2>2, <2>3, <2>4, <2>5
<1>15. Tree(H, R)
  BY <1>9, <1>10, <1>11, <1>12, <1>13, <1>14 DEF Tree
<1>16. PaneNodes(H) = (PaneNodes(heap) \ {n}) \cup PaneNodes(g)
  BY <1>1, <1>2, <1>3 DEF PaneNodes
<1> QED
  BY <1>1, <1>15, <1>16 DEF H, PaneNodes

(* Around a pane that is not the root: its split, its sibling, and what is *)
(* above them.                                                             *)
LEMMA SiblingIs ==
  ASSUME Tree(heap, root), NEW n \in PaneNodes(heap), n # root
  PROVE  LET up == heap[n].parent
             grand == heap[up].parent
         IN  /\ up \in DOMAIN heap /\ ~IsPane(heap, up) /\ up # Null /\ n # up
             /\ Sibling(n) \in DOMAIN heap \ {n, up}
             /\ {n, Sibling(n)} = {heap[up].left, heap[up].right}
             /\ heap[Sibling(n)].parent = up
             /\ up = root => grand = Null
             /\ up # root => /\ grand \in DOMAIN heap \ {n, up, Sibling(n)} /\ grand # Null
                             /\ ~IsPane(heap, grand)
                             /\ up \in {heap[grand].left, heap[grand].right}
             /\ Sibling(n) # root /\ root \in DOMAIN heap /\ root # Null
<1> DEFINE up == heap[n].parent
           grand == heap[up].parent
           s == Sibling(n)
<1>1. n \in DOMAIN heap /\ IsPane(heap, n) /\ DOMAIN heap \subseteq Nodes /\ Null \notin Nodes
  BY NullIsNoBranch DEF PaneNodes, Tree, Grounded
<1>2. root # Null /\ root \in DOMAIN heap /\ heap[root].parent = Null
  BY <1>1 DEF Tree
<1>3. up \in DOMAIN heap /\ ~IsPane(heap, up) /\ n \in {heap[up].left, heap[up].right}
  BY <1>1 DEF Tree, ChildOf
<1>4. /\ heap[up].left # heap[up].right
      /\ heap[heap[up].left].parent = up /\ heap[heap[up].right].parent = up
  BY <1>3 DEF Tree, Kin
<1>5. /\ heap[up].left \in DOMAIN heap /\ heap[up].right \in DOMAIN heap
  BY <1>3 DEF Tree, Grounded
<1>6. s = IF heap[up].left = n THEN heap[up].right ELSE heap[up].left
  BY DEF Sibling
<1>7. {n, s} = {heap[up].left, heap[up].right} /\ s # n /\ s \in DOMAIN heap /\ heap[s].parent = up
  BY <1>3, <1>4, <1>5, <1>6
<1> HIDE DEF s
<1>8. PICK t \in Nat : \E d : Grounded(heap, t, d)
  BY DEF Tree
<1>9. PICK d : Grounded(heap, t, d)
  BY <1>8
<1>10. d[s] > d[up] /\ d[up] \in Nat /\ d[s] \in Nat
  BY <1>3, <1>7, <1>9 DEF Grounded
<1>11. ASSUME up # root
       PROVE  /\ grand \in DOMAIN heap /\ grand # Null /\ ~IsPane(heap, grand)
              /\ up \in {heap[grand].left, heap[grand].right}
              /\ d[grand] < d[up] /\ d[grand] \in Nat
  <2>1. /\ grand \in DOMAIN heap /\ ~IsPane(heap, grand)
        /\ up \in {heap[grand].left, heap[grand].right}
    BY <1>3, <1>11 DEF Tree, ChildOf
  <2> QED
    BY <1>1, <1>9, <2>1 DEF Grounded
<1>12. up = root => grand = Null
  BY <1>2
<1>13. up # root => grand # n /\ grand # up /\ grand # s
  BY <1>1, <1>10, <1>11
<1>14. s # up /\ s # root
  BY <1>1, <1>2, <1>3, <1>7, <1>10
<1>15. up # Null /\ n # up
  BY <1>1, <1>3
<1> QED
  BY <1>2, <1>3, <1>7, <1>11, <1>12, <1>13, <1>14, <1>15 DEF s

(* H is the heap with the sibling of n in the place of their split.        *)
Pruned(H, n) ==
  LET up == heap[n].parent
      grand == heap[up].parent
  IN  /\ DOMAIN H = DOMAIN heap \ {n, up}
      /\ \A m \in DOMAIN heap \ {n, up} :
           /\ H[m] \in Branches
           /\ H[m].pane = heap[m].pane
           /\ H[m].parent = IF m = Sibling(n) THEN grand ELSE heap[m].parent
           /\ m # grand => H[m].left = heap[m].left /\ H[m].right = heap[m].right
      /\ grand # Null =>
           /\ H[grand].left = IF heap[grand].left = up THEN Sibling(n) ELSE heap[grand].left
           /\ H[grand].right = IF heap[grand].left = up THEN heap[grand].right ELSE Sibling(n)

LEMMA CollapsedIs ==
  ASSUME Tree(heap, root), NEW n \in PaneNodes(heap), n # root
  PROVE  Pruned(Collapsed(n), n)
<1> DEFINE up == heap[n].parent
           grand == heap[up].parent
           s == Sibling(n)
           L == Relink(heap, grand, up, s)
           M == [L EXCEPT ![s].parent = grand]
           H == Collapsed(n)
<1>1. /\ up \in DOMAIN heap /\ s \in DOMAIN heap \ {n, up}
      /\ grand # Null => grand \in DOMAIN heap \ {n, up, s}
  BY SiblingIs
<1>2. /\ \A m \in DOMAIN heap : heap[m] \in Branches
      /\ s \in Nodes /\ grand \in Nodes \cup {Null}
  BY <1>1 DEF Tree, Grounded, Branches
<1> HIDE DEF s, up, grand
<1>3. /\ DOMAIN L = DOMAIN heap
      /\ \A m \in DOMAIN heap :
           /\ L[m] \in Branches
           /\ L[m].pane = heap[m].pane
           /\ L[m].parent = heap[m].parent
           /\ m # grand => L[m] = heap[m]
      /\ grand # Null =>
           /\ L[grand].left = IF heap[grand].left = up THEN s ELSE heap[grand].left
           /\ L[grand].right = IF heap[grand].left = up THEN heap[grand].right ELSE s
  BY <1>1, <1>2, RelinkIs
<1> HIDE DEF L
<1>4. /\ DOMAIN M = DOMAIN heap
      /\ \A m \in DOMAIN heap : M[m] = IF m = s THEN [L[s] EXCEPT !.parent = grand] ELSE L[m]
  BY <1>1, <1>3
<1>5. /\ [L[s] EXCEPT !.parent = grand] \in Branches
      /\ [L[s] EXCEPT !.parent = grand].pane = L[s].pane
      /\ [L[s] EXCEPT !.parent = grand].left = L[s].left
      /\ [L[s] EXCEPT !.parent = grand].right = L[s].right
      /\ [L[s] EXCEPT !.parent = grand].parent = grand
  BY <1>1, <1>2, <1>3 DEF Branches
<1>6. H = Without(M, {n, up})
  BY DEF Collapsed, L, s, up, grand
<1> HIDE DEF M, H
<1>7. DOMAIN H = DOMAIN heap \ {n, up} /\ \A m \in DOMAIN heap \ {n, up} : H[m] = M[m]
  BY <1>4, <1>6 DEF Without
<1>8. ASSUME NEW m \in DOMAIN heap \ {n, up}
      PROVE  /\ H[m] \in Branches
             /\ H[m].pane = heap[m].pane
             /\ H[m].parent = IF m = s THEN grand ELSE heap[m].parent
             /\ m # grand => H[m].left = heap[m].left /\ H[m].right = heap[m].right
  <2>1. CASE m = s
    <3>1. m # grand
      BY <1>1, <1>2, <2>1, NullIsNoBranch
    <3>2. H[m] = [L[s] EXCEPT !.parent = grand] /\ L[s] = heap[m]
      BY <1>1, <1>3, <1>4, <1>7, <2>1, <3>1
    <3> QED
      BY <1>5, <2>1, <3>2
  <2>2. CASE m # s
    BY <1>3, <1>4, <1>7, <2>2
  <2> QED
    BY <2>1, <2>2
<1>9. grand # Null => H[grand] = L[grand]
  BY <1>1, <1>4, <1>7
<1> QED
  BY <1>3, <1>7, <1>8, <1>9 DEF Pruned, H, s, up, grand

LEMMA CollapsedTree ==
  ASSUME Tree(heap, root), NEW n \in PaneNodes(heap), n # root
  PROVE  /\ Tree(Collapsed(n), IF heap[n].parent = root THEN Sibling(n) ELSE root)
         /\ PaneNodes(Collapsed(n)) = PaneNodes(heap) \ {n}
         /\ \A m \in PaneNodes(heap) \ {n} : Collapsed(n)[m].pane = heap[m].pane
<1> DEFINE up == heap[n].parent
           grand == heap[up].parent
           s == Sibling(n)
           H == Collapsed(n)
           R == IF up = root THEN s ELSE root
           A == DOMAIN heap \ {n, up}
<1>0. Pruned(H, n)
  BY CollapsedIs
<1>1. /\ up \in DOMAIN heap /\ ~IsPane(heap, up) /\ up # Null /\ n # up
      /\ s \in A /\ {n, s} = {heap[up].left, heap[up].right} /\ heap[s].parent = up
      /\ up = root => grand = Null
      /\ up # root => /\ grand \in A /\ grand # s /\ grand # Null /\ ~IsPane(heap, grand)
                      /\ up \in {heap[grand].left, heap[grand].right}
      /\ s # root /\ root \in DOMAIN heap /\ root # Null
  BY SiblingIs
<1> HIDE DEF H, s
<1>2. /\ DOMAIN H = A
      /\ \A m \in A : /\ H[m] \in Branches /\ H[m].pane = heap[m].pane
                      /\ H[m].parent = IF m = s THEN grand ELSE heap[m].parent
                      /\ m # grand => H[m].left = heap[m].left /\ H[m].right = heap[m].right
      /\ up # root =>
           /\ H[grand].left = IF heap[grand].left = up THEN s ELSE heap[grand].left
           /\ H[grand].right = IF heap[grand].left = up THEN heap[grand].right ELSE s
  BY <1>0, <1>1 DEF Pruned, s
<1>3. \A m \in A : IsPane(H, m) <=> IsPane(heap, m)
  BY <1>2 DEF IsPane
<1>4. n \in DOMAIN heap /\ IsPane(heap, n) /\ DOMAIN heap \subseteq Nodes /\ Null \notin Nodes
  BY NullIsNoBranch DEF PaneNodes, Tree, Grounded
(* The other splits: none but grand has up for a child, and none has n or s. *)
<1>5. ASSUME NEW m \in A, ~IsPane(heap, m)
      PROVE  /\ heap[m].left \in DOMAIN heap \ {n, s} /\ heap[m].right \in DOMAIN heap \ {n, s}
             /\ heap[m].left # heap[m].right
             /\ heap[heap[m].left].parent = m /\ heap[heap[m].right].parent = m
             /\ heap[m].left = up \/ heap[m].right = up => m = grand
  <2>1. /\ heap[m].left \in DOMAIN heap /\ heap[m].right \in DOMAIN heap
    BY <1>5 DEF Tree, Grounded
  <2>2. /\ heap[m].left # heap[m].right
        /\ heap[heap[m].left].parent = m /\ heap[heap[m].right].parent = m
    BY <1>5 DEF Tree, Kin
  <2> QED
    BY <1>1, <2>1, <2>2
<1>6. \A m \in DOMAIN H : H[m] \in Branches
  BY <1>2
<1>7. ASSUME NEW m \in A, ~IsPane(heap, m)
      PROVE  /\ H[m].left \in A /\ H[m].right \in A /\ H[m].left # H[m].right
             /\ H[H[m].left].parent = m /\ H[H[m].right].parent = m
             /\ H[m].left = heap[m].left \/ (H[m].left = s /\ heap[m].left = up)
             /\ H[m].right = heap[m].right \/ (H[m].right = s /\ heap[m].right = up)
  <2>1. CASE m # grand
    BY <1>2, <1>5, <1>7, <2>1
  <2>2. CASE m = grand
    <3>1. up # root
      BY <1>1, <1>4, <2>2
    <3>2. CASE heap[m].left = up
      <4>1. H[m].left = s /\ H[m].right = heap[m].right /\ s \in A
        BY <1>1, <1>2, <2>2, <3>1, <3>2
      <4>2. heap[m].right \in A \ {s} /\ heap[heap[m].right].parent = m
        BY <1>5, <1>7, <3>2
      <4> QED
        BY <1>2, <2>2, <3>2, <4>1, <4>2
    <3>3. CASE heap[m].left # up
      <4>1. heap[m].right = up
        BY <1>1, <2>2, <3>1, <3>3
      <4>2. H[m].right = s /\ H[m].left = heap[m].left /\ s \in A
        BY <1>1, <1>2, <2>2, <3>1, <3>3
      <4>3. heap[m].left \in A \ {s} /\ heap[heap[m].left].parent = m
        BY <1>5, <1>7, <3>3
      <4> QED
        BY <1>2, <2>2, <4>1, <4>2, <4>3
    <3> QED
      BY <3>2, <3>3
  <2> QED
    BY <2>1, <2>2
<1>8. Kin(H)
  BY <1>2, <1>3, <1>7 DEF Kin
<1>9. \E t \in Nat : \E d : Grounded(H, t, d)
  <2>1. PICK t \in Nat : \E d : Grounded(heap, t, d)
    BY DEF Tree
  <2>2. PICK d : Grounded(heap, t, d)
    BY <2>1
  <2> DEFINE D == [m \in A |-> d[m]]
  <2>3. D \in [A -> 0 .. t]
    BY <2>2 DEF Grounded
  <2>4. d[s] > d[up] /\ d[s] \in Nat /\ d[up] \in Nat
    BY <1>1, <2>2 DEF Grounded
  <2>5. ASSUME NEW m \in A, ~IsPane(heap, m)
        PROVE  D[H[m].left] > D[m] /\ D[H[m].right] > D[m]
    <3>1. d[heap[m].left] > d[m] /\ d[heap[m].right] > d[m] /\ d[m] \in Nat
      BY <2>2, <2>5 DEF Grounded
    <3> QED
      BY <1>7, <2>4, <2>5, <3>1
  <2> HIDE DEF D
  <2>6. Grounded(H, t, D)
    BY <1>2, <1>3, <1>4, <1>7, <2>3, <2>5 DEF Grounded
  <2> QED
    BY <2>6
<1>10. ASSUME NEW m \in DOMAIN H, m # R
       PROVE  ChildOf(H, m, H[m].parent)
  <2>1. CASE m = s
    <3>1. up # root
      BY <1>10, <2>1
    <3>2. s \in {H[grand].left, H[grand].right}
      BY <1>1, <1>2, <3>1
    <3> QED
      BY <1>1, <1>2, <1>3, <2>1, <3>1, <3>2 DEF ChildOf
  <2>2. CASE m # s
    <3>1. m # root
      BY <1>2, <1>10
    <3>2. ChildOf(heap, m, heap[m].parent)
      BY <1>2, <3>1 DEF Tree
    <3> DEFINE q == heap[m].parent
    <3>3. /\ q \in DOMAIN heap /\ ~IsPane(heap, q) /\ m \in {heap[q].left, heap[q].right}
          /\ H[m].parent = q
      BY <1>2, <2>2, <3>2 DEF ChildOf
    <3>4. q \in A
      BY <1>1, <1>2, <1>4, <2>2, <3>3
    <3>5. m \in {H[q].left, H[q].right}
      BY <1>2, <1>7, <3>3, <3>4
    <3> QED
      BY <1>2, <1>3, <3>3, <3>4, <3>5 DEF ChildOf
  <2> QED
    BY <2>1, <2>2
<1>11. R # Null /\ R \in DOMAIN H /\ H[R].parent = Null
  <2>1. CASE up = root
    BY <1>1, <1>2, <1>4, <2>1
  <2>2. CASE up # root
    <3>1. heap[root].parent = Null /\ root \in A
      BY <1>1, <2>2 DEF Tree
    <3> QED
      BY <1>1, <1>2, <2>2, <3>1
  <2> QED
    BY <2>1, <2>2
<1>12. ASSUME NEW k \in DOMAIN H, NEW m \in DOMAIN H, IsPane(H, k), H[k].pane = H[m].pane
       PROVE  k = m
  BY <1>2, <1>3, <1>12 DEF Tree
<1>13. Tree(H, R)
  BY <1>6, <1>8, <1>9, <1>10, <1>11, <1>12 DEF Tree
<1>14. PaneNodes(H) = PaneNodes(heap) \ {n}
  BY <1>1, <1>2, <1>3 DEF PaneNodes
<1>15. PaneNodes(heap) \ {n} \subseteq A
  BY <1>1 DEF PaneNodes
<1> QED
  BY <1>2, <1>13, <1>14, <1>15 DEF H, s

-----------------------------------------------------------------------------
(* The inductive invariant. *)

(* What SplitPanel and Tab keep of the tree. A pane that SplitPane has     *)
(* returned and nobody activated yet is the one time the active pane may   *)
(* be a Branch that is gone.                                               *)
Pointers ==
  /\ splitters = {n \in DOMAIN heap : ~IsPane(heap, n)}
  /\ dragging \in splitters \cup {Null}
  /\ zoomed \in PaneNodes(heap) \cup {Null}
  /\ creating \in PaneNodes(heap) \cup {Null}
  /\ creating = Null /\ phase = "open" => active \in PaneNodes(heap)
  /\ phase = "open" <=> root # Null
  /\ phase # "open" => active = Null /\ creating = Null /\ sessions = {} /\ attached = {}

IInv == TypeOK /\ Tree(heap, root) /\ Pointers /\ PanelShowsTree /\ SurfacesHeld

(* The panes of a tree, and how their Branches are found. *)
PanesIn(h) == {h[n].pane : n \in PaneNodes(h)}

LEMMA PresentIs ==
  /\ Tree(heap, root) => Present = PanesIn(heap)
  /\ Tree(heap', root') => Present' = PanesIn(heap')
<1>1. ASSUME NEW h, NEW r, Tree(h, r)
      PROVE  ToSet(PanesOf(h, r)) = PaneNodes(h)
  BY <1>1, TreeCovered
<1>2. Tree(heap, root) => ToSet(Shown) = PaneNodes(heap)
  BY <1>1 DEF Shown
<1>3. Tree(heap', root') => ToSet(Shown') = PaneNodes(heap')
  BY <1>1 DEF Shown
<1> QED
  BY <1>2, <1>3 DEF Present, PanesIn

LEMMA NodeOfIs ==
  ASSUME Tree(heap, root), NEW p \in Present
  PROVE  NodeOf(p) \in PaneNodes(heap) /\ heap[NodeOf(p)].pane = p
<1>1. ToSet(Shown) = PaneNodes(heap)
  BY TreeCovered DEF Shown
<1>2. \E n \in ToSet(Shown) : heap[n].pane = p
  BY DEF Present
<1> QED
  BY <1>1, <1>2 DEF NodeOf

(* What the allocator returns is new, and each address once. *)
LEMMA NewIs ==
  ASSUME TypeOK, NEW k \in 1 .. 3, NEW a \in New(k)
  PROVE  /\ \A i \in 1 .. k : a[i] \in Nodes /\ a[i] \notin DOMAIN heap
         /\ \A i, j \in 1 .. k : a[i] = a[j] => i = j
<1>1. Nodes \ DOMAIN heap \in SUBSET Nodes
  OBVIOUS
<1>2. /\ a \in [1 .. k -> Nodes \ DOMAIN heap]
      /\ \A i, j \in 1 .. k : a[i] = a[j] => i = j
  BY <1>1, AllocAssumption DEF New
<1> QED
  BY <1>2

(* A Branch of its own is a tree, and so is a split of two. *)
LEMMA LeafTree ==
  ASSUME NEW a \in Nodes, NEW p \in Panes
  PROVE  LET g == [m \in {a} |-> Leaf(p, Null)]
         IN  Tree(g, a) /\ DOMAIN g = {a} /\ PaneNodes(g) = {a} /\ g[a].pane = p
<1> DEFINE g == [m \in {a} |-> Leaf(p, Null)]
           d == [m \in {a} |-> 0]
<1>1. DOMAIN g = {a} /\ g[a] = [pane |-> p, left |-> Null, right |-> Null, parent |-> Null]
  BY DEF Leaf
<1>2. IsPane(g, a) /\ g[a] \in Branches
  BY <1>1, NullIsNoBranch DEF IsPane, Branches
<1> HIDE DEF g
<1>3. Grounded(g, 0, d)
  BY <1>1, <1>2 DEF Grounded
<1>4. Tree(g, a)
  BY <1>1, <1>2, <1>3, NullIsNoBranch DEF Tree, Kin
<1> QED
  BY <1>1, <1>2, <1>4 DEF PaneNodes, g

LEMMA ForkTree ==
  ASSUME NEW fresh \in Nodes, NEW copy \in Nodes, NEW split \in Nodes,
         fresh # copy, fresh # split, copy # split,
         NEW p \in Panes, NEW q \in Panes, p # q, NEW fork,
         fork = Fork(fresh, copy) \/ fork = Fork(copy, fresh)
  PROVE  LET g == [n \in {fresh, copy, split} |->
                     IF n = split THEN fork ELSE Leaf(IF n = fresh THEN q ELSE p, split)]
         IN  /\ Tree(g, split) /\ DOMAIN g = {fresh, copy, split}
             /\ PaneNodes(g) = {fresh, copy} /\ g[fresh].pane = q /\ g[copy].pane = p
<1> DEFINE g == [n \in {fresh, copy, split} |->
                   IF n = split THEN fork ELSE Leaf(IF n = fresh THEN q ELSE p, split)]
           d == [n \in {fresh, copy, split} |-> IF n = split THEN 0 ELSE 1]
<1>1. /\ DOMAIN g = {fresh, copy, split} /\ g[split] = fork
      /\ g[fresh] = Leaf(q, split) /\ g[copy] = Leaf(p, split)
  OBVIOUS
<1>2. /\ g[fresh].pane = q /\ g[fresh].parent = split /\ g[fresh] \in Branches
      /\ g[copy].pane = p /\ g[copy].parent = split /\ g[copy] \in Branches
  BY <1>1 DEF Leaf, Branches
<1>3. /\ g[split].pane = Null /\ g[split].parent = Null /\ g[split] \in Branches
      /\ {g[split].left, g[split].right} = {fresh, copy}
      /\ g[split].left # g[split].right
  BY <1>1 DEF Fork, Branches
<1> HIDE DEF g
<1>4. IsPane(g, fresh) /\ IsPane(g, copy) /\ ~IsPane(g, split)
  BY <1>2, <1>3, NullIsNoBranch DEF IsPane
<1>5. d \in [{fresh, copy, split} -> 0 .. 1] /\ d[split] = 0 /\ d[fresh] = 1 /\ d[copy] = 1
  OBVIOUS
<1> HIDE DEF d
<1>6. Grounded(g, 1, d)
  BY <1>1, <1>3, <1>4, <1>5 DEF Grounded
<1>7. Kin(g)
  BY <1>1, <1>2, <1>3, <1>4 DEF Kin
<1>8. \A n \in DOMAIN g : n # split => ChildOf(g, n, g[n].parent)
  BY <1>1, <1>2, <1>3, <1>4 DEF ChildOf
<1>9. \A n \in DOMAIN g : g[n] \in Branches
  BY <1>1, <1>2, <1>3
<1>10. \A m, n \in DOMAIN g : IsPane(g, m) /\ g[m].pane = g[n].pane => m = n
  BY <1>1, <1>2, <1>3, <1>4, NullIsNoBranch
<1>11. Tree(g, split)
  BY <1>1, <1>3, <1>6, <1>7, <1>8, <1>9, <1>10, NullIsNoBranch DEF Tree
<1> QED
  BY <1>1, <1>2, <1>4, <1>11 DEF PaneNodes, g

(* The panes after each mutation. *)
LEMMA ReplacedPanes ==
  ASSUME Tree(heap, root), NEW n \in PaneNodes(heap),
         NEW g, NEW top \in DOMAIN g, Tree(g, top), DOMAIN g \cap DOMAIN heap = {},
         PanesIn(g) \cap (PanesIn(heap) \ {heap[n].pane}) = {}
  PROVE  LET H == Replaced(n, top, g)
             R == IF n = root THEN top ELSE root
         IN  /\ Tree(H, R)
             /\ PaneNodes(H) = (PaneNodes(heap) \ {n}) \cup PaneNodes(g)
             /\ PanesIn(H) = (PanesIn(heap) \ {heap[n].pane}) \cup PanesIn(g)
<1> DEFINE H == Replaced(n, top, g)
           R == IF n = root THEN top ELSE root
<1>1. \A m \in PaneNodes(heap) \ {n} : heap[m].pane # heap[n].pane
  BY DEF Tree, PaneNodes
<1>2. \A m \in PaneNodes(g), k \in PaneNodes(heap) \ {n} : g[m].pane # heap[k].pane
  BY <1>1 DEF PanesIn
<1>3. /\ Tree(H, R)
      /\ PaneNodes(H) = (PaneNodes(heap) \ {n}) \cup PaneNodes(g)
      /\ \A m \in PaneNodes(heap) \ {n} : H[m].pane = heap[m].pane
      /\ \A m \in PaneNodes(g) : H[m].pane = g[m].pane
  BY <1>2, ReplacedTree
<1> HIDE DEF H
<1>4. PanesIn(H) = {heap[m].pane : m \in PaneNodes(heap) \ {n}} \cup PanesIn(g)
  BY <1>3 DEF PanesIn
<1>5. {heap[m].pane : m \in PaneNodes(heap) \ {n}} = PanesIn(heap) \ {heap[n].pane}
  BY <1>1 DEF PanesIn
<1> QED
  BY <1>3, <1>4, <1>5 DEF H

LEMMA CollapsedPanes ==
  ASSUME Tree(heap, root), NEW n \in PaneNodes(heap), n # root
  PROVE  PanesIn(Collapsed(n)) = PanesIn(heap) \ {heap[n].pane}
<1> DEFINE H == Collapsed(n)
<1>1. \A m \in PaneNodes(heap) \ {n} : heap[m].pane # heap[n].pane
  BY DEF Tree, PaneNodes
<1>2. /\ PaneNodes(H) = PaneNodes(heap) \ {n}
      /\ \A m \in PaneNodes(heap) \ {n} : H[m].pane = heap[m].pane
  BY CollapsedTree
<1> HIDE DEF H
<1>3. PanesIn(H) = {heap[m].pane : m \in PaneNodes(heap) \ {n}}
  BY <1>2 DEF PanesIn
<1> QED
  BY <1>1, <1>3 DEF PanesIn, H

(* A tree on its way into the panel: SyncChildrenFromTree makes the        *)
(* children what the tree says.                                            *)
LEMMA ReshapeIs ==
  ASSUME IInv, NEW h, NEW r, Tree(h, r), Reshape(h, r)
  PROVE  /\ heap' = h /\ root' = r /\ zoomed' = Null /\ hidden' = {} /\ dragging' = Null
         /\ children' = Elements(h, r)
         /\ splitters' = {n \in DOMAIN h : ~IsPane(h, n)}
<1>1. children = Elements(heap, root)
  BY DEF IInv, PanelShowsTree
<1>2. children \in Seq(Panes \cup Nodes) /\ IsInjective(children)
  BY <1>1, ElementsIs DEF IInv
<1>3. Elements(h, r) \in Seq(Panes \cup Nodes) /\ IsInjective(Elements(h, r))
  BY ElementsIs
<1>4. Reconciled(Elements(h, r)) = Elements(h, r)
  BY <1>2, <1>3, ReconciledIs
<1>5. SplitsOf(h, r) = {n \in DOMAIN h : ~IsPane(h, n)}
  BY TreeCovered DEF SplitsOf
<1> QED
  BY <1>4, <1>5 DEF Reshape

(* What is left to show of an operation that changes the tree. *)
LEMMA Reshaped ==
  ASSUME IInv, NEW h, NEW r, Tree(h, r), Reshape(h, r),
         creating' \in PaneNodes(h) \cup {Null},
         active' \in Nodes \cup {Null},
         creating' = Null /\ phase' = "open" => active' \in PaneNodes(h),
         phase' \in {"new", "open", "gone"},
         phase' = "open" <=> r # Null,
         phase' # "open" =>
           active' = Null /\ creating' = Null /\ sessions' = {} /\ attached' = {},
         sessions' \subseteq [overlay : Panes, parked : Panes \cup {Null}],
         attached' \subseteq Panes,
         Present' = PanesIn(h) => SurfacesHeld'
  PROVE  IInv'
<1>1. /\ heap' = h /\ root' = r /\ zoomed' = Null /\ hidden' = {} /\ dragging' = Null
      /\ children' = Elements(h, r)
      /\ splitters' = {n \in DOMAIN h : ~IsPane(h, n)}
  BY ReshapeIs
<1>2. Elements(h, r) \in Seq(Panes \cup Nodes)
  BY ElementsIs
<1>3. DOMAIN h \subseteq Nodes /\ r \in Nodes \cup {Null}
  BY DEF Tree, Grounded
<1>4. PaneNodes(h) \subseteq DOMAIN h
  BY DEF PaneNodes
<1>5. TypeOK'
  <2>1. \A n \in DOMAIN h : h[n] \in Branches
    BY DEF Tree
  <2> QED
    BY <1>1, <1>2, <1>3, <1>4, <2>1 DEF TypeOK
<1>6. Tree(heap', root')
  BY <1>1
<1>7. Present' = PanesIn(h)
  BY <1>1, <1>6, PresentIs
<1>8. Pointers'
  BY <1>1 DEF Pointers
<1>9. PanelShowsTree'
  BY <1>1 DEF PanelShowsTree
<1> QED
  BY <1>5, <1>6, <1>7, <1>8, <1>9 DEF IInv

(* What every operation on a pane starts from. *)
LEMMA PaneIs ==
  ASSUME IInv, NEW p \in Present
  PROVE  /\ NodeOf(p) \in PaneNodes(heap) /\ heap[NodeOf(p)].pane = p
         /\ PaneNodes(heap) \subseteq Nodes /\ Present = PanesIn(heap)
         /\ Present \subseteq Panes /\ p \in Panes /\ p \in attached /\ p \notin Parked
<1>1. NodeOf(p) \in PaneNodes(heap) /\ heap[NodeOf(p)].pane = p
  BY NodeOfIs DEF IInv
<1>2. Present = PanesIn(heap)
  BY PresentIs DEF IInv
<1>3. \A n \in PaneNodes(heap) : n \in Nodes /\ heap[n].pane \in Panes
  BY DEF IInv, TypeOK, Branches, PaneNodes, IsPane
<1>4. Present \subseteq Panes
  BY <1>2, <1>3 DEF PanesIn
<1>5. p \in attached /\ p \notin Parked
  BY DEF IInv, SurfacesHeld
<1> QED
  BY <1>1, <1>2, <1>3, <1>4, <1>5

(* The session of a WSL pane. *)
LEMMA SessionIs ==
  ASSUME IInv, NEW p \in Overlays
  PROVE  /\ SessionOf(p) \in sessions /\ SessionOf(p).overlay = p
         /\ \A s \in sessions : s.overlay = p => s = SessionOf(p)
<1>1. \E s \in sessions : s.overlay = p
  BY DEF Overlays
<1>2. SessionOf(p) \in sessions /\ SessionOf(p).overlay = p
  BY <1>1 DEF SessionOf
<1>3. \A s \in sessions : s.overlay = p => s = SessionOf(p)
  BY <1>2 DEF IInv, SurfacesHeld
<1> QED
  BY <1>2, <1>3

(* A pane that nothing shows, put in the place of one. *)
LEMMA SlotTaken ==
  ASSUME IInv, NEW p \in Present, NEW q \in Panes, q \notin Present,
         NEW a \in New(1),
         ReplacePane(NodeOf(p), a[1], [m \in {a[1]} |-> Leaf(q, Null)])
  PROVE  \E h, r : /\ Tree(h, r) /\ Reshape(h, r) /\ r # Null
                   /\ PaneNodes(h) = (PaneNodes(heap) \ {NodeOf(p)}) \cup {a[1]}
                   /\ PanesIn(h) = (Present \ {p}) \cup {q}
                   /\ a[1] \in Nodes
<1> DEFINE n == NodeOf(p)
           g == [m \in {a[1]} |-> Leaf(q, Null)]
           top == a[1]
           H == Replaced(n, top, g)
           R == IF n = root THEN top ELSE root
<1>1. n \in PaneNodes(heap) /\ heap[n].pane = p /\ Present = PanesIn(heap)
  BY PaneIs
<1>2. top \in Nodes /\ top \notin DOMAIN heap
  <2>1. 1 \in 1 .. 3 /\ 1 \in 1 .. 1 /\ TypeOK
    BY DEF IInv
  <2> QED
    BY <2>1, NewIs
<1>3. Tree(g, top) /\ DOMAIN g = {top} /\ PaneNodes(g) = {top} /\ g[top].pane = q
  BY <1>2, LeafTree
<1>4. Reshape(H, R)
  BY DEF ReplacePane
<1>5. root # Null
  BY <1>1 DEF IInv, Tree, PaneNodes
<1>6. R # Null
  BY <1>2, <1>5, NullIsNoBranch
<1> HIDE DEF n, g, top
<1>7. PanesIn(g) = {q}
  BY <1>3 DEF PanesIn
<1>8. /\ Tree(H, R)
      /\ PaneNodes(H) = (PaneNodes(heap) \ {n}) \cup PaneNodes(g)
      /\ PanesIn(H) = (PanesIn(heap) \ {heap[n].pane}) \cup PanesIn(g)
  <2>1. Tree(heap, root) /\ top \in DOMAIN g /\ DOMAIN g \cap DOMAIN heap = {}
        /\ PanesIn(g) \cap (PanesIn(heap) \ {heap[n].pane}) = {}
    BY <1>1, <1>2, <1>3, <1>7 DEF IInv
  <2> QED
    BY <1>1, <1>3, <2>1, ReplacedPanes
<1> HIDE DEF H, R
<1>9. /\ PaneNodes(H) = (PaneNodes(heap) \ {n}) \cup {top}
      /\ PanesIn(H) = (Present \ {p}) \cup {q}
  BY <1>1, <1>3, <1>7, <1>8
<1> QED
  BY <1>2, <1>4, <1>6, <1>8, <1>9 DEF n, top

LEMMA EmptyTree == Tree(<<>>, Null) /\ PaneNodes(<<>>) = {}
<1>1. DOMAIN <<>> = {}
  OBVIOUS
<1>2. Grounded(<<>>, 0, <<>>)
  <2>1. <<>> \in [{} -> 0 .. 0]
    BY <1>1
  <2> QED
    BY <1>1, <2>1 DEF Grounded
<1> QED
  BY <1>1, <1>2 DEF Tree, Kin, PaneNodes

-----------------------------------------------------------------------------
(* The operations keep the invariant, one by one. *)

LEMMA InitHolds == Init => IInv
<1> SUFFICES ASSUME Init PROVE IInv
  OBVIOUS
<1> USE DEF Init
<1>1. TypeOK
  BY DEF TypeOK
<1>2. Tree(heap, root) /\ PaneNodes(heap) = {} /\ DOMAIN heap = {}
  BY EmptyTree
<1>3. Pointers
  BY <1>2 DEF Pointers
<1>4. NodesOf(heap, root) = <<>>
  <2>1. NodesOf(heap, root) \in Seq(DOMAIN heap)
    BY <1>2, TreeCovered
  <2>2. \A s \in Seq({}) : s = <<>>
    OBVIOUS
  <2> QED
    BY <1>2, <2>1, <2>2
<1>5. Elements(heap, root) = <<>>
  BY <1>4 DEF Elements
<1>6. PanelShowsTree
  BY <1>5 DEF PanelShowsTree
<1>7. Present = {}
  BY <1>2, PresentIs DEF PanesIn
<1>8. Parked = {} /\ Overlays = {}
  BY DEF Parked, Overlays
<1>9. SurfacesHeld
  BY <1>7, <1>8 DEF SurfacesHeld
<1> QED
  BY <1>1, <1>2, <1>3, <1>6, <1>9 DEF IInv

LEMMA OpenTabStep ==
  ASSUME IInv, NEW p \in Panes, OpenTab(p)
  PROVE  IInv'
<1>1. /\ sessions = {} /\ creating = Null /\ phase = "new"
      /\ creating' = Null /\ sessions' = {} /\ attached' = {p} /\ phase' = "open"
  BY DEF OpenTab, IInv, Pointers
<1>2. PICK a \in New(1) : Reshape([n \in {a[1]} |-> Leaf(p, Null)], a[1]) /\ active' = a[1]
  BY DEF OpenTab
<1> DEFINE g == [n \in {a[1]} |-> Leaf(p, Null)]
           top == a[1]
<1>3. top \in Nodes
  <2>1. 1 \in 1 .. 3 /\ 1 \in 1 .. 1 /\ TypeOK
    BY DEF IInv
  <2> QED
    BY <2>1, NewIs
<1>4. Tree(g, top) /\ PaneNodes(g) = {top} /\ g[top].pane = p
  BY <1>3, LeafTree
<1>5. Reshape(g, top) /\ active' = top
  BY <1>2
<1> HIDE DEF g, top
<1>6. PanesIn(g) = {p}
  BY <1>4 DEF PanesIn
<1>7. Present' = PanesIn(g) => SurfacesHeld'
  BY <1>1, <1>6 DEF SurfacesHeld, Parked, Overlays
<1>8. top # Null
  BY <1>3, NullIsNoBranch
<1> QED
  BY <1>1, <1>3, <1>4, <1>5, <1>7, <1>8, Reshaped

LEMMA SplitPaneStep ==
  ASSUME IInv, NEW p \in Present, NEW first \in BOOLEAN, NEW q \in Panes,
         SplitPane(p, first, q)
  PROVE  IInv'
<1> DEFINE n == NodeOf(p)
<1>1. /\ Ready /\ q \notin attached
      /\ attached' = attached \cup {q}
      /\ UNCHANGED <<active, sessions, phase>>
  BY DEF SplitPane
<1>2. PICK a \in New(3) :
        /\ LET fresh == a[1]
               copy == a[2]
               split == a[3]
               fork == IF first THEN Fork(fresh, copy) ELSE Fork(copy, fresh)
           IN  ReplacePane(n, split,
                 [m \in {fresh, copy, split} |->
                    IF m = split THEN fork ELSE Leaf(IF m = fresh THEN q ELSE p, split)])
        /\ creating' = a[1]
  BY DEF SplitPane
<1> DEFINE fresh == a[1]
           copy == a[2]
           split == a[3]
           fork == IF first THEN Fork(fresh, copy) ELSE Fork(copy, fresh)
           g == [m \in {fresh, copy, split} |->
                   IF m = split THEN fork ELSE Leaf(IF m = fresh THEN q ELSE p, split)]
           H == Replaced(n, split, g)
           R == IF n = root THEN split ELSE root
<1>3. Reshape(H, R) /\ creating' = fresh
  BY <1>2 DEF ReplacePane
<1>4. /\ n \in PaneNodes(heap) /\ heap[n].pane = p /\ Present = PanesIn(heap)
      /\ p \in Panes /\ p \in attached
  BY PaneIs
<1>5. /\ fresh \in Nodes /\ fresh \notin DOMAIN heap
      /\ copy \in Nodes /\ copy \notin DOMAIN heap
      /\ split \in Nodes /\ split \notin DOMAIN heap
      /\ fresh # copy /\ fresh # split /\ copy # split
  <2>1. 3 \in 1 .. 3 /\ TypeOK /\ 1 \in 1 .. 3 /\ 2 \in 1 .. 3
    BY DEF IInv
  <2>2. /\ \A i \in 1 .. 3 : a[i] \in Nodes /\ a[i] \notin DOMAIN heap
        /\ \A i, j \in 1 .. 3 : a[i] = a[j] => i = j
    BY <2>1, NewIs
  <2> QED
    BY <2>1, <2>2
<1> HIDE DEF fresh, copy, split, n
<1>6. p # q
  BY <1>1, <1>4
<1>7. fork = Fork(fresh, copy) \/ fork = Fork(copy, fresh)
  OBVIOUS
<1> HIDE DEF fork
<1>8. /\ Tree(g, split) /\ DOMAIN g = {fresh, copy, split}
      /\ PaneNodes(g) = {fresh, copy} /\ g[fresh].pane = q /\ g[copy].pane = p
  BY <1>4, <1>5, <1>6, <1>7, ForkTree
<1> HIDE DEF g
<1>9. PanesIn(g) = {p, q}
  BY <1>8 DEF PanesIn
<1>10. q \notin Present
  BY <1>1 DEF IInv, SurfacesHeld
<1>11. /\ Tree(H, R)
       /\ PaneNodes(H) = (PaneNodes(heap) \ {n}) \cup PaneNodes(g)
       /\ PanesIn(H) = (PanesIn(heap) \ {heap[n].pane}) \cup PanesIn(g)
  <2>1. Tree(heap, root) /\ split \in DOMAIN g /\ DOMAIN g \cap DOMAIN heap = {}
        /\ PanesIn(g) \cap (PanesIn(heap) \ {heap[n].pane}) = {}
    BY <1>4, <1>5, <1>8, <1>9, <1>10 DEF IInv
  <2> QED
    BY <1>4, <1>8, <2>1, ReplacedPanes
<1>12. root # Null
  BY <1>4 DEF IInv, Tree, PaneNodes
<1>13. R # Null
  BY <1>5, <1>12, NullIsNoBranch
<1> HIDE DEF H, R
<1>14. PanesIn(H) = Present \cup {q} /\ fresh \in PaneNodes(H)
  BY <1>4, <1>8, <1>9, <1>11
<1>15. Present' = PanesIn(H) => SurfacesHeld'
  BY <1>1, <1>14 DEF IInv, SurfacesHeld, Parked, Overlays
<1>16. /\ creating' \in PaneNodes(H) \cup {Null} /\ creating' # Null
       /\ active' \in Nodes \cup {Null} /\ phase' = "open"
       /\ sessions' \subseteq [overlay : Panes, parked : Panes \cup {Null}]
       /\ attached' \subseteq Panes
  BY <1>1, <1>3, <1>5, <1>14, NullIsNoBranch DEF IInv, TypeOK, Ready
<1> QED
  BY <1>3, <1>11, <1>13, <1>15, <1>16, Reshaped

(* The tab goes, with its tree and all it kept. *)
LEMMA TearDownStep ==
  ASSUME IInv, creating = Null, TearDownTab
  PROVE  IInv'
<1>1. /\ Reshape(<<>>, Null) /\ active' = Null /\ sessions' = {} /\ attached' = {}
      /\ phase' = "gone" /\ creating' = Null
  BY DEF TearDownTab
<1>2. PanesIn(<<>>) = {}
  BY EmptyTree DEF PanesIn
<1>3. Present' = PanesIn(<<>>) => SurfacesHeld'
  BY <1>1, <1>2 DEF SurfacesHeld, Parked, Overlays
<1> QED
  BY <1>1, <1>3, EmptyTree, Reshaped

LEMMA RestoreStep ==
  ASSUME IInv, Ready, NEW p \in Present, p \in Overlays, SessionOf(p).parked # Null,
         RestoreParkedPane(p)
  PROVE  IInv'
<1> DEFINE s == SessionOf(p)
           q == s.parked
           n == NodeOf(p)
<1>1. /\ s \in sessions /\ s.overlay = p /\ s.parked # Null
      /\ \A t \in sessions : t.overlay = p => t = s
  BY SessionIs
<1>2. /\ attached' = attached \ {p} /\ sessions' = sessions \ {s}
      /\ UNCHANGED <<creating, phase>>
  BY DEF RestoreParkedPane
<1>3. PICK a \in New(1) :
        /\ ReplacePane(n, a[1], [m \in {a[1]} |-> Leaf(q, Null)])
        /\ active' = IF active = n THEN a[1] ELSE active
  BY DEF RestoreParkedPane
<1> HIDE DEF s
<1>4. q \in Panes /\ q \in Parked /\ q \notin Present
  BY <1>1, NullIsNoBranch DEF IInv, TypeOK, SurfacesHeld, Parked
<1>5. PICK h, r : /\ Tree(h, r) /\ Reshape(h, r) /\ r # Null
                  /\ PaneNodes(h) = (PaneNodes(heap) \ {n}) \cup {a[1]}
                  /\ PanesIn(h) = (Present \ {p}) \cup {q}
                  /\ a[1] \in Nodes
  BY <1>3, <1>4, SlotTaken
<1>6. n \in PaneNodes(heap) /\ PaneNodes(heap) \subseteq Nodes /\ p \notin Parked
  BY PaneIs
<1>7. Parked' = Parked \ {q}
  <2>1. \A t \in sessions : t.parked = q => t = s
    BY <1>1, <1>4, NullIsNoBranch DEF IInv, SurfacesHeld
  <2> QED
    BY <1>1, <1>2, <2>1 DEF Parked
<1>8. Overlays' = Overlays \ {p}
  BY <1>1, <1>2 DEF Overlays
<1>9. Present' = PanesIn(h) => SurfacesHeld'
  <2> SUFFICES ASSUME Present' = PanesIn(h) PROVE SurfacesHeld'
    OBVIOUS
  <2>1. Present' = (Present \ {p}) \cup {q}
    BY <1>5
  <2>2. /\ attached = Present \cup Parked /\ Present \cap Parked = {}
        /\ Overlays \subseteq Present \ Parked
        /\ \A t, u \in sessions :
             (t.overlay = u.overlay \/ (t.parked = u.parked /\ t.parked # Null)) => t = u
    BY DEF IInv, SurfacesHeld
  <2>3. /\ attached' = Present' \cup Parked' /\ Present' \cap Parked' = {}
        /\ Overlays' \subseteq Present' \ Parked'
    BY <1>2, <1>4, <1>6, <1>7, <1>8, <2>1, <2>2
  <2> QED
    BY <1>2, <2>2, <2>3 DEF SurfacesHeld
<1>10. /\ creating' = Null /\ phase' = "open" /\ active' \in PaneNodes(h)
       /\ active' \in Nodes \cup {Null}
  <2>1. active \in PaneNodes(heap)
    BY DEF IInv, Pointers, Ready
  <2> QED
    BY <1>2, <1>3, <1>5, <1>6, <2>1 DEF Ready
<1>11. /\ sessions' \subseteq [overlay : Panes, parked : Panes \cup {Null}]
       /\ attached' \subseteq Panes
  BY <1>2 DEF IInv, TypeOK
<1> QED
  BY <1>5, <1>9, <1>10, <1>11, Reshaped

LEMMA OpenWslStep ==
  ASSUME IInv, NEW p \in Present, NEW q \in Panes, OpenWslInPane(p, q)
  PROVE  IInv'
<1> DEFINE n == NodeOf(p)
           s == [overlay |-> q, parked |-> p]
<1>1. /\ Ready /\ p \notin Overlays /\ q \notin attached
      /\ sessions' = sessions \cup {s} /\ attached' = attached \cup {q}
      /\ UNCHANGED <<creating, phase>>
  BY DEF OpenWslInPane
<1>2. PICK a \in New(1) :
        /\ ReplacePane(n, a[1], [m \in {a[1]} |-> Leaf(q, Null)])
        /\ active' = a[1]
  BY DEF OpenWslInPane
<1>3. q \notin Present /\ q \notin Parked
  BY <1>1 DEF IInv, SurfacesHeld
<1>4. PICK h, r : /\ Tree(h, r) /\ Reshape(h, r) /\ r # Null
                  /\ PaneNodes(h) = (PaneNodes(heap) \ {n}) \cup {a[1]}
                  /\ PanesIn(h) = (Present \ {p}) \cup {q}
                  /\ a[1] \in Nodes
  BY <1>2, <1>3, SlotTaken
<1>5. p \in Panes /\ p \in attached /\ p \notin Parked
  BY PaneIs
<1>6. p # Null /\ p # q
  BY <1>1, <1>5, NullIsNoBranch
<1>7. s.overlay = q /\ s.parked = p /\ s \in [overlay : Panes, parked : Panes \cup {Null}]
  BY <1>5
<1> HIDE DEF s
<1>8. Parked' = Parked \cup {p}
  BY <1>1, <1>6, <1>7 DEF Parked
<1>9. Overlays' = Overlays \cup {q}
  BY <1>1, <1>7 DEF Overlays
<1>10. Present' = PanesIn(h) => SurfacesHeld'
  <2> SUFFICES ASSUME Present' = PanesIn(h) PROVE SurfacesHeld'
    OBVIOUS
  <2>1. Present' = (Present \ {p}) \cup {q}
    BY <1>4
  <2>2. /\ attached = Present \cup Parked /\ Present \cap Parked = {}
        /\ Overlays \subseteq Present \ Parked
        /\ \A t, u \in sessions :
             (t.overlay = u.overlay \/ (t.parked = u.parked /\ t.parked # Null)) => t = u
    BY DEF IInv, SurfacesHeld
  <2>3. /\ attached' = Present' \cup Parked' /\ Present' \cap Parked' = {}
        /\ Overlays' \subseteq Present' \ Parked'
    BY <1>1, <1>3, <1>5, <1>6, <1>8, <1>9, <2>1, <2>2
  <2>4. \A t \in sessions : t.overlay # q /\ t.parked # p
    BY <1>3, <1>5, <1>6, <2>2 DEF Overlays, Parked
  <2>5. \A t, u \in sessions' :
          (t.overlay = u.overlay \/ (t.parked = u.parked /\ t.parked # Null)) => t = u
    BY <1>1, <1>7, <2>2, <2>4
  <2> QED
    BY <2>3, <2>5 DEF SurfacesHeld
<1>11. /\ creating' = Null /\ phase' = "open" /\ active' \in PaneNodes(h)
       /\ active' \in Nodes \cup {Null}
  BY <1>1, <1>2, <1>4 DEF Ready
<1>12. /\ sessions' \subseteq [overlay : Panes, parked : Panes \cup {Null}]
       /\ attached' \subseteq Panes
  BY <1>1, <1>7 DEF IInv, TypeOK
<1> QED
  BY <1>4, <1>10, <1>11, <1>12, Reshaped

(* A pane that is not the root goes, and its session with it. *)
LEMMA CollapseStep ==
  ASSUME IInv, Ready, NEW p \in Present, p \in Overlays => SessionOf(p).parked = Null,
         NodeOf(p) # root,
         active' = IF active = NodeOf(p) THEN Head(PanesOf(heap, Sibling(NodeOf(p)))) ELSE active,
         RemovePane(NodeOf(p)),
         attached' = attached \ {p}, sessions' = {s \in sessions : s.overlay # p},
         UNCHANGED <<creating, phase>>
  PROVE  IInv'
<1> DEFINE n == NodeOf(p)
           H == Collapsed(n)
           R == IF heap[n].parent = root THEN Sibling(n) ELSE root
<1>1. Reshape(H, R)
  BY DEF RemovePane
<1>2. /\ n \in PaneNodes(heap) /\ heap[n].pane = p /\ PaneNodes(heap) \subseteq Nodes
      /\ Present = PanesIn(heap) /\ p \notin Parked
  BY PaneIs
<1> HIDE DEF n
<1>3. n # root /\ Tree(heap, root)
  BY DEF n, IInv
<1>4. Tree(H, R) /\ PaneNodes(H) = PaneNodes(heap) \ {n}
  BY <1>2, <1>3, CollapsedTree
<1>5. PanesIn(H) = Present \ {p}
  BY <1>2, <1>3, CollapsedPanes
<1>6. R # Null
  <2>1. Sibling(n) \in DOMAIN heap /\ root # Null
    BY <1>2, <1>3, SiblingIs
  <2>2. DOMAIN heap \subseteq Nodes
    BY DEF IInv, TypeOK
  <2> QED
    BY <2>1, <2>2, NullIsNoBranch
<1>7. Head(PanesOf(heap, Sibling(n))) \in PaneNodes(heap) \ {n}
  <2>1. {n, Sibling(n)} = {heap[heap[n].parent].left, heap[heap[n].parent].right}
        /\ heap[n].parent \in DOMAIN heap /\ ~IsPane(heap, heap[n].parent)
        /\ Sibling(n) \in DOMAIN heap
    BY <1>2, <1>3, SiblingIs
  <2>2. n \in DOMAIN heap
    BY <1>2 DEF PaneNodes
  <2> QED
    BY <1>3, <2>1, <2>2, FirstPane
<1> HIDE DEF H, R
<1>8. Parked' = Parked
  <2>1. \A s \in sessions : s.overlay = p => s.parked = Null
    <3> SUFFICES ASSUME NEW s \in sessions, s.overlay = p PROVE s.parked = Null
      OBVIOUS
    <3>1. p \in Overlays
      BY DEF Overlays
    <3> QED
      BY <3>1, SessionIs
  <2> QED
    BY <2>1 DEF Parked
<1>9. Overlays' = Overlays \ {p}
  BY DEF Overlays
<1>10. Present' = PanesIn(H) => SurfacesHeld'
  BY <1>2, <1>5, <1>8, <1>9 DEF IInv, SurfacesHeld
<1>11. /\ creating' = Null /\ phase' = "open" /\ active' \in PaneNodes(H)
       /\ active' \in Nodes \cup {Null}
  <2>1. active \in PaneNodes(heap)
    BY DEF IInv, Pointers, Ready
  <2>2. active' \in PaneNodes(heap) \ {n}
    BY <1>7, <2>1 DEF n
  <2> QED
    BY <1>2, <1>4, <2>2 DEF Ready
<1>12. /\ sessions' \subseteq [overlay : Panes, parked : Panes \cup {Null}]
       /\ attached' \subseteq Panes
  BY DEF IInv, TypeOK
<1> QED
  BY <1>1, <1>4, <1>6, <1>10, <1>11, <1>12, Reshaped

(* The whole tab may be parked for an undo: then only its session goes. *)
LEMMA ForgetSessionStep ==
  ASSUME IInv, NEW p \in Present, p \in Overlays, SessionOf(p).parked = Null,
         sessions' = sessions \ {SessionOf(p)},
         UNCHANGED <<treeVars, panelVars, active, creating, attached, phase>>
  PROVE  IInv'
<1> DEFINE s == SessionOf(p)
<1>1. UNCHANGED treeVars /\ UNCHANGED panelVars /\ UNCHANGED <<active, creating, attached, phase>>
  OBVIOUS
<1>2. Present' = Present
  BY <1>1 DEF Present, Shown, treeVars
<1>3. Parked' = Parked
  <2>1. s.parked = Null /\ sessions' = sessions \ {s}
    OBVIOUS
  <2> HIDE DEF s
  <2> QED
    BY <2>1 DEF Parked
<1>4. Overlays' \subseteq Overlays
  BY DEF Overlays
<1>5. SurfacesHeld'
  BY <1>1, <1>2, <1>3, <1>4 DEF IInv, SurfacesHeld
<1>6. TypeOK' /\ Tree(heap', root') /\ Pointers' /\ PanelShowsTree'
  BY <1>1 DEF IInv, TypeOK, Pointers, PanelShowsTree, treeVars, panelVars
<1> QED
  BY <1>5, <1>6 DEF IInv

LEMMA RemoveStep ==
  ASSUME IInv, NEW p \in Present, RemovePaneByIdApproved(p)
  PROVE  IInv'
<1>1. Ready /\ creating = Null
  BY DEF RemovePaneByIdApproved, Ready
<1>2. CASE p \in Overlays /\ SessionOf(p).parked # Null /\ RestoreParkedPane(p)
  BY <1>1, <1>2, RestoreStep
<1>3. CASE TearDownTab
  BY <1>1, <1>3, TearDownStep
<1>4. CASE /\ p \in Overlays /\ SessionOf(p).parked = Null
           /\ sessions' = sessions \ {SessionOf(p)}
           /\ UNCHANGED <<treeVars, panelVars, active, creating, attached, phase>>
  BY <1>4, ForgetSessionStep
<1>5. CASE /\ p \in Overlays => SessionOf(p).parked = Null
           /\ NodeOf(p) # root
           /\ active' = IF active = NodeOf(p)
                        THEN Head(PanesOf(heap, Sibling(NodeOf(p)))) ELSE active
           /\ RemovePane(NodeOf(p))
           /\ attached' = attached \ {p}
           /\ sessions' = {s \in sessions : s.overlay # p}
           /\ UNCHANGED <<creating, phase>>
  BY <1>1, <1>5, CollapseStep
<1> QED
  BY <1>2, <1>3, <1>4, <1>5 DEF RemovePaneByIdApproved

LEMMA ParkedShellStep ==
  ASSUME IInv, NEW p \in Panes, ParkedShellDies(p)
  PROVE  IInv'
<1> DEFINE Left(s) == [s EXCEPT !.parked = IF s.parked = p THEN Null ELSE s.parked]
<1>1. /\ Ready /\ p \in Parked /\ sessions' = {Left(s) : s \in sessions}
      /\ attached' = attached \ {p}
      /\ UNCHANGED <<treeVars, panelVars, active, creating, phase>>
  BY DEF ParkedShellDies
<1>2. \A s \in sessions :
        /\ Left(s) \in [overlay : Panes, parked : Panes \cup {Null}]
        /\ Left(s).overlay = s.overlay
        /\ Left(s).parked = IF s.parked = p THEN Null ELSE s.parked
  BY DEF IInv, TypeOK
<1> HIDE DEF Left
<1>3. Parked' = Parked \ {p}
  BY <1>1, <1>2 DEF Parked
<1>4. Overlays' = Overlays
  BY <1>1, <1>2 DEF Overlays
<1>5. Present' = Present
  BY <1>1 DEF Present, Shown, treeVars
<1>6. SurfacesHeld'
  <2>1. /\ attached = Present \cup Parked /\ Present \cap Parked = {}
        /\ Overlays \subseteq Present \ Parked
        /\ \A t, u \in sessions :
             (t.overlay = u.overlay \/ (t.parked = u.parked /\ t.parked # Null)) => t = u
    BY DEF IInv, SurfacesHeld
  <2>2. /\ attached' = Present' \cup Parked' /\ Present' \cap Parked' = {}
        /\ Overlays' \subseteq Present' \ Parked'
    BY <1>1, <1>3, <1>4, <1>5, <2>1
  <2>3. \A t, u \in sessions :
          (Left(t).overlay = Left(u).overlay
            \/ (Left(t).parked = Left(u).parked /\ Left(t).parked # Null)) => t = u
    BY <1>2, <2>1
  <2>4. \A t, u \in sessions' :
          (t.overlay = u.overlay \/ (t.parked = u.parked /\ t.parked # Null)) => t = u
    BY <1>1, <2>3
  <2> QED
    BY <2>2, <2>4 DEF SurfacesHeld
<1>7. TypeOK'
  BY <1>1, <1>2 DEF IInv, TypeOK, treeVars, panelVars
<1>8. Tree(heap', root') /\ PanelShowsTree'
  BY <1>1 DEF IInv, PanelShowsTree, treeVars, panelVars
<1>9. Pointers'
  BY <1>1 DEF IInv, Pointers, treeVars, panelVars, Ready
<1> QED
  BY <1>6, <1>7, <1>8, <1>9 DEF IInv

(* Operations that leave the tree alone. *)
LEMMA SamePanes ==
  ASSUME IInv, heap' = heap, root' = root, sessions' = sessions, attached' = attached
  PROVE  SurfacesHeld' /\ Tree(heap', root')
<1>1. Present' = Present /\ Parked' = Parked /\ Overlays' = Overlays
  BY DEF Present, Shown, Parked, Overlays
<1> QED
  BY <1>1 DEF IInv, SurfacesHeld

LEMMA ToggleZoomStep ==
  ASSUME IInv, NEW p \in Present, ToggleZoom(p)
  PROVE  IInv'
<1>1. /\ Ready
      /\ UNCHANGED <<heap, root, children, splitters, dragging, creating, sessions,
                     attached, phase>>
  BY DEF ToggleZoom
<1>2. NodeOf(p) \in PaneNodes(heap) /\ PaneNodes(heap) \subseteq Nodes
  BY PaneIs
<1>3. PICK n \in PaneNodes(heap) \cup {Null} :
        SetZoomed(n) /\ (active' = active \/ active' \in PaneNodes(heap))
  BY <1>2 DEF ToggleZoom
<1>4. /\ zoomed' = n /\ hidden' = IF n = Null THEN {} ELSE ToSet(children) \ {heap[n].pane}
  BY <1>3 DEF SetZoomed
<1>5. ToSet(children) \subseteq Panes \cup Nodes
  BY SeqSet DEF IInv, TypeOK
<1>6. TypeOK'
  <2>1. active' \in Nodes \cup {Null}
    BY <1>2, <1>3 DEF IInv, TypeOK
  <2>2. zoomed' \in Nodes \cup {Null} /\ hidden' \subseteq Panes \cup Nodes
    BY <1>2, <1>4, <1>5
  <2> QED
    BY <1>1, <2>1, <2>2 DEF IInv, TypeOK
<1>7. Pointers'
  BY <1>1, <1>3, <1>4 DEF IInv, Pointers, Ready
<1>8. PanelShowsTree'
  <2>1. children' = Elements(heap', root')
    BY <1>1 DEF IInv, PanelShowsTree
  <2> QED
    BY <1>1, <1>4, <2>1 DEF PanelShowsTree
<1> QED
  BY <1>1, <1>6, <1>7, <1>8, SamePanes DEF IInv

LEMMA ActivateStep ==
  ASSUME IInv, Ready, NEW n \in PaneNodes(heap), Activate(n)
  PROVE  IInv'
<1>1. /\ active' = n /\ UNCHANGED <<treeVars, panelVars, creating, sessions, attached, phase>>
  BY DEF Activate
<1>2. TypeOK'
  <2>1. n \in Nodes
    BY DEF IInv, TypeOK, PaneNodes
  <2> QED
    BY <1>1, <2>1 DEF IInv, TypeOK, treeVars, panelVars
<1>3. Pointers' /\ PanelShowsTree'
  BY <1>1 DEF IInv, Pointers, PanelShowsTree, Ready, treeVars, panelVars
<1> QED
  BY <1>1, <1>2, <1>3, SamePanes DEF IInv, treeVars

LEMMA GotoSplitStep ==
  ASSUME IInv, NEW p \in Present, NEW target, GotoSplit(p, target)
  PROVE  IInv'
<1> DEFINE panes == Shown
           i == CHOOSE k \in DOMAIN panes : heap[panes[k]].pane = p
           size == Len(panes)
<1>1. panes \in Seq(DOMAIN heap) /\ ToSet(panes) = PaneNodes(heap)
  BY TreeCovered DEF IInv, Shown
<1>2. DOMAIN panes = 1 .. size /\ size \in Nat /\ \A k \in DOMAIN panes : panes[k] \in PaneNodes(heap)
  BY <1>1, LenProperties DEF ToSet
<1>3. i \in DOMAIN panes
  BY DEF Present, ToSet
<1>4. Ready
  BY DEF GotoSplit
<1>5. \/ Activate(panes[(i % size) + 1])
      \/ Activate(panes[IF i = 1 THEN size ELSE i - 1])
      \/ \E k \in DOMAIN panes \ {i} : Activate(panes[k])
  BY DEF GotoSplit
<1> HIDE DEF i, panes, size
<1>6. /\ (i % size) + 1 \in DOMAIN panes
      /\ (IF i = 1 THEN size ELSE i - 1) \in DOMAIN panes
  <2>1. size \in Nat /\ size >= 1 /\ i \in 1 .. size
    BY <1>2, <1>3
  <2>2. i % size \in 0 .. size - 1
    BY <2>1
  <2> QED
    BY <1>2, <2>1, <2>2
<1>7. PICK k \in DOMAIN panes : Activate(panes[k])
  BY <1>5, <1>6
<1> QED
  BY <1>2, <1>4, <1>7, ActivateStep

LEMMA SplitterStep ==
  ASSUME IInv, (\E n \in Nodes : PressSplitter(n)) \/ ReleaseSplitter
  PROVE  IInv'
<1>1. /\ dragging' \in splitters \cup {Null}
      /\ UNCHANGED <<treeVars, children, hidden, splitters, tabVars>>
  BY DEF PressSplitter, ReleaseSplitter
<1>2. TypeOK'
  BY <1>1 DEF IInv, TypeOK, treeVars, tabVars
<1>3. Pointers' /\ PanelShowsTree'
  BY <1>1 DEF IInv, Pointers, PanelShowsTree, treeVars, tabVars
<1> QED
  BY <1>1, <1>2, <1>3, SamePanes DEF IInv, treeVars, tabVars

LEMMA ActivateCreatedStep ==
  ASSUME IInv, ActivateCreated
  PROVE  IInv'
<1>1. /\ creating # Null /\ active' = creating /\ creating' = Null
      /\ UNCHANGED <<treeVars, panelVars, sessions, attached, phase>>
  BY DEF ActivateCreated
<1>2. TypeOK'
  BY <1>1 DEF IInv, TypeOK, treeVars, panelVars
<1>3. Pointers' /\ PanelShowsTree'
  BY <1>1 DEF IInv, Pointers, PanelShowsTree, treeVars, panelVars
<1> QED
  BY <1>1, <1>2, <1>3, SamePanes DEF IInv, treeVars

-----------------------------------------------------------------------------
(* The theorems. *)

(* Whatever the operations on a tab, in whatever order, and whichever free *)
(* addresses the allocator returns: the types, the tree link by link, the  *)
(* pointers into it, the panel and the surfaces.                           *)
THEOREM PaneInvariance == Spec => []IInv
<1>1. IInv /\ [Next]_vars => IInv'
  <2> SUFFICES ASSUME IInv, [Next]_vars PROVE IInv'
    OBVIOUS
  <2>1. CASE \E p \in Panes : OpenTab(p)
    BY <2>1, OpenTabStep
  <2>2. CASE \E p \in Panes : ParkedShellDies(p)
    BY <2>2, ParkedShellStep
  <2>3. ASSUME NEW p \in Present, PaneStep(p)
        PROVE  IInv'
    <3>1. CASE \E q \in Panes : OpenWslInPane(p, q)
      BY <3>1, OpenWslStep
    <3>2. CASE \E q \in Panes : \E first \in BOOLEAN : SplitPane(p, first, q)
      BY <3>2, SplitPaneStep
    <3>3. CASE RemovePaneByIdApproved(p)
      BY <3>3, RemoveStep
    <3>4. CASE ToggleZoom(p)
      BY <3>4, ToggleZoomStep
    <3>5. CASE NotifySurfaceFocused(p)
      <4>1. NodeOf(p) \in PaneNodes(heap) /\ Ready /\ Activate(NodeOf(p))
        BY <3>5, PaneIs DEF NotifySurfaceFocused
      <4> QED
        BY <4>1, ActivateStep
    <3>6. CASE \E target \in {"next", "previous", "arrow"} : GotoSplit(p, target)
      BY <3>6, GotoSplitStep
    <3> QED
      BY <2>3, <3>1, <3>2, <3>3, <3>4, <3>5, <3>6 DEF PaneStep
  <2>4. CASE (\E n \in Nodes : PressSplitter(n)) \/ ReleaseSplitter
    BY <2>4, SplitterStep
  <2>5. CASE ActivateCreated
    BY <2>5, ActivateCreatedStep
  <2>6. CASE CloseTab
    BY <2>6, TearDownStep DEF CloseTab, Ready
  <2>7. CASE UNCHANGED vars
    <3>1. /\ UNCHANGED treeVars /\ UNCHANGED panelVars /\ UNCHANGED tabVars
      BY <2>7 DEF vars
    <3>2. TypeOK' /\ Pointers' /\ PanelShowsTree'
      BY <3>1 DEF IInv, TypeOK, Pointers, PanelShowsTree, treeVars, panelVars, tabVars
    <3> QED
      BY <3>1, <3>2, SamePanes DEF IInv, treeVars, tabVars
  <2> QED
    BY <2>1, <2>2, <2>3, <2>4, <2>5, <2>6, <2>7 DEF Next
<1> QED
  BY InitHolds, <1>1, PTL DEF Spec

(* Every live Branch is met exactly once on a walk from the root, over     *)
(* children that name their parent, and the pointers of SplitPanel and Tab *)
(* name live Branches of the right kind whenever an operation is over,     *)
(* although ReplacePane frees a pane's Branch and the allocator may hand   *)
(* its address out again at once.                                          *)
THEOREM PointersAlive == Spec => []PointersLive
<1>1. IInv => PointersLive
  <2> SUFFICES ASSUME IInv PROVE PointersLive
    OBVIOUS
  <2>1. /\ ToSet(NodesOf(heap, root)) = DOMAIN heap /\ IsInjective(NodesOf(heap, root))
        /\ ToSet(Shown) = PaneNodes(heap)
    BY TreeCovered DEF IInv, Shown
  <2>2. \A n \in DOMAIN heap : ~IsPane(heap, n) =>
          \A kid \in {heap[n].left, heap[n].right} :
            kid \in DOMAIN heap /\ heap[kid].parent = n
    BY DEF IInv, Tree, Grounded, Kin
  <2>3. TreeShape
    BY <2>1, <2>2 DEF IInv, Tree, TreeShape
  <2>4. splitters = SplitsOf(heap, root)
    BY <2>1 DEF IInv, Pointers, SplitsOf
  <2>5. phase = "open" => active # Null \/ creating # Null
    BY NullIsNoBranch DEF IInv, Pointers, TypeOK, PaneNodes
  <2> QED
    BY <2>1, <2>3, <2>4, <2>5 DEF IInv, Pointers, PointersLive
<1> QED
  BY PaneInvariance, <1>1, PTL

(* The panel's children are the panes and the dividers of the tree in its  *)
(* order: the diff of SyncChildrenFromTree arrives at what it is given,    *)
(* whatever was there; and a zoom hides all but its pane and ends with     *)
(* every change of the tree.                                               *)
THEOREM PanelFollowsTree == Spec => []PanelShowsTree
<1>1. IInv => PanelShowsTree
  BY DEF IInv
<1> QED
  BY PaneInvariance, <1>1, PTL

(* A surface is alive exactly while its pane is in the tree or parked      *)
(* behind a WSL pane that is: RestoreParkedPane, RemovePaneByIdApproved    *)
(* and CloseSurfaceByPaneId free neither too much nor too little.          *)
THEOREM SurfacesAreHeld == Spec => []SurfacesHeld
<1>1. IInv => SurfacesHeld
  BY DEF IInv
<1> QED
  BY PaneInvariance, <1>1, PTL
=============================================================================
