----------------------- MODULE TransparencyLogProofs -----------------------
(* What a temporal anchor proves, for every log, payload and bound: that a *)
(* path whose root is that of a tree shows the leaf at its index, and what *)
(* the signature over anchor_hash and external_aad gives.                  *)
EXTENDS TransparencyLog, Integers, WellFoundedInduction, TLAPS

----------------------------------------------------------------------------
(* Induction over numbers, and functions defined by recursion             *)

(* A set of numbers that has 0, and with each number the next, has all.     *)
LEMMA SetInduction ==
  ASSUME NEW S, 0 \in S, \A n \in Nat : n \in S => n + 1 \in S
  PROVE  \A n \in Nat : n \in S
<1> SUFFICES ASSUME NEW m \in Nat, m \notin S PROVE FALSE
  OBVIOUS
<1>1. PICK x \in Nat \ S : \A y \in Nat \ S : ~(<<y, x>> \in OpToRel(<, Nat))
  BY WFMin, NatLessThanWellFounded
<1>2. \A y \in Nat \ S : ~(y < x)
  BY <1>1 DEF OpToRel
<1>3. x # 0
  BY <1>1
<1>4. x - 1 \in Nat /\ x - 1 < x /\ (x - 1) + 1 = x
  BY <1>3
<1>5. x - 1 \in S
  BY <1>2, <1>4
<1> QED BY <1>1, <1>4, <1>5

(* A set of natural numbers that is not empty has a least element.          *)
LEMMA LeastExists ==
  ASSUME NEW S, S \subseteq Nat, S # {}
  PROVE  \E i \in S : \A j \in S : i <= j
<1>1. PICK x \in S : \A y \in S : ~(<<y, x>> \in OpToRel(<, Nat))
  BY WFMin, NatLessThanWellFounded
<1>2. \A y \in S : ~(y < x)
  BY <1>1 DEF OpToRel
<1>3. \A y \in S : x <= y
  <2>1. \A a, b \in Nat : ~(b < a) => a <= b
    OBVIOUS
  <2>2. x \in Nat /\ \A y \in S : y \in Nat
    OBVIOUS
  <2> QED BY <1>2, <2>1, <2>2
<1> QED BY <1>3

(* w is the sequence of values from b on, each what G makes of the one      *)
(* before. For any function G on R, there is one of every length.           *)
Iterates(w, n, R, b, G) ==
  w \in [0..n -> R] /\ w[0] = b /\ \A i \in 1..n : w[i] = G[w[i - 1]]

LEMMA IterationExists ==
  ASSUME NEW n \in Nat, NEW R, NEW b \in R, NEW G \in [R -> R]
  PROVE  \E w : Iterates(w, n, R, b, G)
<1> DEFINE S == {m \in Nat : \E w : Iterates(w, m, R, b, G)}
<1>1. 0 \in S
  <2>1. Iterates([i \in 0..0 |-> b], 0, R, b, G)
    BY DEF Iterates
  <2> QED BY <2>1
<1>2. ASSUME NEW m \in Nat, m \in S PROVE m + 1 \in S
  <2>1. PICK w : Iterates(w, m, R, b, G)
    BY <1>2
  <2> DEFINE v == [i \in 0..m + 1 |-> IF i <= m THEN w[i] ELSE G[w[m]]]
  <2>2. w \in [0..m -> R] /\ w[0] = b /\ \A i \in 1..m : w[i] = G[w[i - 1]]
    BY <2>1 DEF Iterates
  <2>3. v \in [0..m + 1 -> R] /\ v[0] = b
    BY <2>2
  <2>4. \A i \in 1..m + 1 : v[i] = G[v[i - 1]]
    <3> SUFFICES ASSUME NEW i \in 1..m + 1 PROVE v[i] = G[v[i - 1]]
      OBVIOUS
    <3>1. i - 1 \in 0..m /\ i - 1 \in 0..m + 1 /\ v[i - 1] = w[i - 1]
      OBVIOUS
    <3>2. CASE i <= m
      BY <2>2, <3>1, <3>2
    <3>3. CASE i = m + 1
      BY <3>1, <3>3
    <3> QED BY <3>2, <3>3
  <2>5. Iterates(v, m + 1, R, b, G)
    BY <2>3, <2>4 DEF Iterates
  <2> HIDE DEF v
  <2> QED BY <2>5
<1> HIDE DEF S
<1>3. n \in S
  BY <1>1, <1>2, SetInduction
<1> QED BY <1>3 DEF S

(* The same without an end: f is defined by recursion on all of Nat.        *)
Recursion(f, R, b, G) ==
  f \in [Nat -> R] /\ f = [n \in Nat |-> IF n = 0 THEN b ELSE G[f[n - 1]]]

LEMMA RecursionExists ==
  ASSUME NEW R, NEW b \in R, NEW G \in [R -> R]
  PROVE  \E f : Recursion(f, R, b, G)
<1> DEFINE W(n) == CHOOSE w : Iterates(w, n, R, b, G)
           f == [n \in Nat |-> W(n)[n]]
<1>1. ASSUME NEW n \in Nat PROVE Iterates(W(n), n, R, b, G)
  BY IterationExists
<1> HIDE DEF W
<1>2. ASSUME NEW n \in Nat PROVE f[n] \in R
  BY <1>1 DEF Iterates
<1>3. f[0] = b
  BY <1>1 DEF Iterates
<1>4. ASSUME NEW n \in Nat PROVE f[n + 1] = G[f[n]]
  <2> DEFINE U == {i \in Nat : i <= n => W(n + 1)[i] = W(n)[i]}
  <2>1. /\ W(n)[0] = b /\ \A i \in 1..n : W(n)[i] = G[W(n)[i - 1]]
        /\ W(n + 1)[0] = b /\ \A i \in 1..n + 1 : W(n + 1)[i] = G[W(n + 1)[i - 1]]
    BY <1>1 DEF Iterates
  <2>2. 0 \in U
    BY <2>1
  <2>3. ASSUME NEW i \in Nat, i \in U PROVE i + 1 \in U
    <3>1. i + 1 <= n => i + 1 \in 1..n /\ i + 1 \in 1..n + 1 /\ (i + 1) - 1 = i /\ i <= n
      OBVIOUS
    <3> QED BY <2>1, <2>3, <3>1
  <2>4. n \in U
    <3> HIDE DEF U
    <3> QED BY <2>2, <2>3, SetInduction
  <2>5. W(n + 1)[n + 1] = G[W(n + 1)[n]]
    <3>1. n + 1 \in 1..n + 1 /\ (n + 1) - 1 = n
      OBVIOUS
    <3> QED BY <2>1, <3>1
  <2> QED BY <2>4, <2>5
<1> HIDE DEF f
<1>5. f \in [Nat -> R]
  BY <1>2 DEF f
<1>6. f = [n \in Nat |-> IF n = 0 THEN b ELSE G[f[n - 1]]]
  <2>1. ASSUME NEW n \in Nat PROVE f[n] = IF n = 0 THEN b ELSE G[f[n - 1]]
    <3>1. n # 0 => n - 1 \in Nat /\ (n - 1) + 1 = n
      OBVIOUS
    <3> QED BY <1>3, <1>4, <3>1
  <2> QED BY <2>1, <1>5
<1>7. Recursion(f, R, b, G)
  BY <1>5, <1>6 DEF Recursion
<1> QED BY <1>7

----------------------------------------------------------------------------
(* Powers of two, heights and halvings                                     *)

LEMMA PowRec ==
  /\ Pow \in [Nat -> Nat] /\ Pow[0] = 1
  /\ \A d \in Nat : Pow[d + 1] = 2 * Pow[d]
<1> DEFINE G == [p \in Nat |-> 2 * p]
<1>1. PICK f : Recursion(f, Nat, 1, G)
  <2>1. G \in [Nat -> Nat] /\ 1 \in Nat
    OBVIOUS
  <2> HIDE DEF G
  <2> QED BY <2>1, RecursionExists
<1>2. f = [d \in Nat |-> IF d = 0 THEN 1 ELSE 2 * f[d - 1]]
  <2>1. ASSUME NEW d \in Nat PROVE f[d] = IF d = 0 THEN 1 ELSE 2 * f[d - 1]
    <3>1. d # 0 => d - 1 \in Nat
      OBVIOUS
    <3> QED BY <1>1, <3>1 DEF Recursion
  <2> QED BY <1>1, <2>1 DEF Recursion
<1>3. Pow = [d \in Nat |-> IF d = 0 THEN 1 ELSE 2 * Pow[d - 1]]
  BY <1>2 DEF Pow
<1>4. \A d \in Nat : Pow[d] \in Nat
  <2> DEFINE S == {d \in Nat : Pow[d] \in Nat}
  <2>1. 0 \in S
    BY <1>3
  <2>2. ASSUME NEW d \in Nat, d \in S PROVE d + 1 \in S
    <3>1. Pow[d + 1] = 2 * Pow[d]
      BY <1>3
    <3> QED BY <2>2, <3>1
  <2> HIDE DEF S
  <2>3. \A d \in Nat : d \in S
    BY <2>1, <2>2, SetInduction
  <2> QED BY <2>3 DEF S
<1>5. \A d \in Nat : Pow[d + 1] = 2 * Pow[d]
  BY <1>3
<1> QED BY <1>3, <1>4, <1>5

LEMMA PowGrows == \A d \in Nat : Pow[d] >= d + 1
<1> DEFINE S == {d \in Nat : Pow[d] >= d + 1}
<1>1. 0 \in S
  BY PowRec
<1>2. ASSUME NEW d \in Nat, d \in S PROVE d + 1 \in S
  BY <1>2, PowRec
<1> HIDE DEF S
<1>3. \A d \in Nat : d \in S
  BY <1>1, <1>2, SetInduction
<1> QED BY <1>3 DEF S

(* A padded tree has room for its leaves.                                  *)
LEMMA HeightFits ==
  ASSUME NEW n \in Nat
  PROVE  Height(n) \in 0..n /\ Pow[Height(n)] >= n
<1> DEFINE S == {d \in 0..n : Pow[d] >= n}
<1>1. n \in S
  BY PowGrows, PowRec
<1>2. PICK d \in S : \A e \in S : d <= e
  <2>1. S \subseteq Nat /\ S # {}
    BY <1>1
  <2> HIDE DEF S
  <2> QED BY <2>1, LeastExists
<1>3. ASSUME NEW e \in 0..d - 1 PROVE Pow[e] < n
  <2>1. e \in 0..n /\ ~(d <= e) /\ Pow[e] \in Nat
    BY PowRec
  <2>2. e \notin S
    BY <1>2, <2>1
  <2> QED BY <2>1, <2>2
<1>4. d \in 0..n /\ Pow[d] >= n /\ \A e \in 0..d - 1 : Pow[e] < n
  BY <1>3
<1> HIDE DEF S
<1> QED BY <1>4 DEF Height

LEMMA HalvingsRec ==
  ASSUME NEW i \in Nat
  PROVE  /\ Halvings(i) \in [Nat -> Nat] /\ Halvings(i)[0] = i
         /\ \A k \in Nat : Halvings(i)[k + 1] = Halvings(i)[k] \div 2
<1> DEFINE G == [p \in Nat |-> p \div 2]
<1>1. PICK f : Recursion(f, Nat, i, G)
  <2>1. G \in [Nat -> Nat]
    OBVIOUS
  <2> HIDE DEF G
  <2> QED BY <2>1, RecursionExists
<1>2. f = [k \in Nat |-> IF k = 0 THEN i ELSE f[k - 1] \div 2]
  <2>1. ASSUME NEW k \in Nat PROVE f[k] = IF k = 0 THEN i ELSE f[k - 1] \div 2
    <3>1. k # 0 => k - 1 \in Nat
      OBVIOUS
    <3> QED BY <1>1, <3>1 DEF Recursion
  <2> QED BY <1>1, <2>1 DEF Recursion
<1> DEFINE H == Halvings(i)
<1>3. H = [k \in Nat |-> IF k = 0 THEN i ELSE H[k - 1] \div 2]
  BY <1>2 DEF Halvings
<1> HIDE DEF H
<1>4. \A k \in Nat : H[k] \in Nat
  <2> DEFINE S == {k \in Nat : H[k] \in Nat}
  <2>1. 0 \in S
    BY <1>3
  <2>2. ASSUME NEW k \in Nat, k \in S PROVE k + 1 \in S
    <3>1. H[k + 1] = H[k] \div 2
      BY <1>3
    <3> QED BY <2>2, <3>1
  <2> HIDE DEF S
  <2>3. \A k \in Nat : k \in S
    BY <2>1, <2>2, SetInduction
  <2> QED BY <2>3 DEF S
<1>5. \A k \in Nat : H[k + 1] = H[k] \div 2
  BY <1>3
<1>6. H \in [Nat -> Nat] /\ H[0] = i
  BY <1>3, <1>4
<1> QED BY <1>5, <1>6 DEF H

(* The index of a leaf is used up at the root.                             *)
LEMMA HalvedToZero ==
  ASSUME NEW H \in Nat, NEW i \in Nat, i < Pow[H]
  PROVE  Halvings(i)[H] = 0
<1> DEFINE S == {k \in Nat : k <= H => Halvings(i)[k] < Pow[H - k]}
<1>1. 0 \in S
  <2>1. Halvings(i)[0] = i /\ H - 0 = H
    BY HalvingsRec
  <2> QED BY <2>1
<1>2. ASSUME NEW k \in Nat, k \in S PROVE k + 1 \in S
  <2> SUFFICES ASSUME k + 1 <= H PROVE Halvings(i)[k + 1] < Pow[H - (k + 1)]
    OBVIOUS
  <2>1. /\ H - (k + 1) \in Nat /\ (H - (k + 1)) + 1 = H - k
        /\ Pow[H - (k + 1)] \in Nat /\ Pow[H - k] = 2 * Pow[H - (k + 1)]
    <3>1. H - (k + 1) \in Nat /\ (H - (k + 1)) + 1 = H - k
      OBVIOUS
    <3> QED BY <3>1, PowRec
  <2>2. /\ Halvings(i)[k] \in Nat /\ Halvings(i)[k] < Pow[H - k]
        /\ Halvings(i)[k + 1] = Halvings(i)[k] \div 2
    BY <1>2, HalvingsRec
  <2>3. \A x, p \in Nat : x < 2 * p => x \div 2 < p
    OBVIOUS
  <2> QED BY <2>1, <2>2, <2>3
<1> HIDE DEF S
<1>3. H \in S
  BY <1>1, <1>2, SetInduction
<1>4. Halvings(i)[H] < Pow[H - H] /\ H - H = 0
  BY <1>3 DEF S
<1>5. Halvings(i)[H] \in Nat
  BY HalvingsRec
<1> QED BY <1>4, <1>5, PowRec

(* So is that of a leaf of a padded tree.                                  *)
LEMMA RootIndex ==
  ASSUME NEW leaves, Len(leaves) \in Nat, NEW i \in Nat, i < Len(leaves)
  PROVE  Halvings(i)[Height(Len(leaves))] = 0
<1> DEFINE H == Height(Len(leaves))
<1>1. \A n \in Nat : Height(n) \in Nat /\ Pow[Height(n)] \in Nat /\ Pow[Height(n)] >= n
  <2> SUFFICES ASSUME NEW n \in Nat
               PROVE  Height(n) \in Nat /\ Pow[Height(n)] \in Nat /\ Pow[Height(n)] >= n
    OBVIOUS
  <2>1. Height(n) \in Nat /\ Pow[Height(n)] >= n
    BY HeightFits
  <2> QED BY <2>1, PowRec
<1>2. H \in Nat /\ i < Pow[H]
  <2> DEFINE n == Len(leaves)
  <2>1. n \in Nat /\ i < n
    OBVIOUS
  <2> HIDE DEF n
  <2>2. Pow[Height(n)] \in Nat /\ Pow[Height(n)] >= n /\ Height(n) \in Nat
    BY <1>1, <2>1
  <2>3. i < Pow[Height(n)]
    BY <2>1, <2>2
  <2> QED BY <2>2, <2>3 DEF n
<1>3. \A d, k \in Nat : k < Pow[d] => Halvings(k)[d] = 0
  BY HalvedToZero
<1> HIDE DEF H
<1>4. Halvings(i)[H] = 0
  BY <1>2, <1>3
<1> QED BY <1>4 DEF H

----------------------------------------------------------------------------
(* Paths and trees                                                         *)

(* The walk of compute_root, as a function of the siblings passed.         *)
Walks(at, proof, h) ==
  /\ at[0] = [node |-> Leaf(h), idx |-> proof.leaf_index]
  /\ \A k \in 1..Len(proof.siblings) : at[k] = Climb(at[k - 1], proof.siblings[k])

LEMMA WalkExists ==
  ASSUME NEW proof, NEW h, Len(proof.siblings) \in Nat
  PROVE  \E at : Walks(at, proof, h) /\ compute_root(proof, h) = at[Len(proof.siblings)].node
<1> DEFINE first == [node |-> Leaf(h), idx |-> proof.leaf_index]
           n == Len(proof.siblings)
           Walk(f, m) == f = [k \in 0..m |-> IF k = 0 THEN first
                                             ELSE Climb(f[k - 1], proof.siblings[k])]
           S == {m \in Nat : \E f : Walk(f, m)}
<1>1. 0 \in S
  <2>1. Walk([k \in 0..0 |-> first], 0)
    OBVIOUS
  <2> QED BY <2>1
<1>2. ASSUME NEW m \in Nat, m \in S PROVE m + 1 \in S
  <2>1. PICK f : Walk(f, m)
    BY <1>2
  <2> DEFINE g == [k \in 0..m + 1 |-> IF k <= m THEN f[k] ELSE Climb(f[m], proof.siblings[k])]
  <2>2. ASSUME NEW k \in 0..m + 1
        PROVE  g[k] = IF k = 0 THEN first ELSE Climb(g[k - 1], proof.siblings[k])
    <3>1. CASE k = 0
      BY <2>1, <3>1
    <3>2. CASE k \in 1..m
      <4>1. k \in 0..m /\ k - 1 \in 0..m + 1 /\ k - 1 <= m /\ k # 0
        BY <3>2
      <4> QED BY <2>1, <4>1
    <3>3. CASE k = m + 1
      <4>1. k - 1 = m /\ m \in 0..m + 1 /\ k # 0 /\ ~(k <= m)
        BY <3>3
      <4> QED BY <4>1
    <3> QED BY <3>1, <3>2, <3>3
  <2>3. Walk(g, m + 1)
    BY <2>2
  <2> HIDE DEF g
  <2> QED BY <2>3
<1>3. n \in S
  <2> HIDE DEF S
  <2> QED BY <1>1, <1>2, SetInduction
<1>4. PICK f : Walk(f, n)
  BY <1>3
<1> DEFINE at == CHOOSE f1 : Walk(f1, n)
<1>5. Walk(at, n)
  BY <1>4
<1>6. compute_root(proof, h) = at[n].node
  BY DEF compute_root
<1> HIDE DEF at
<1>7. Walks(at, proof, h)
  <2>1. at[0] = first
    BY <1>5
  <2>2. ASSUME NEW k \in 1..n PROVE at[k] = Climb(at[k - 1], proof.siblings[k])
    BY <1>5
  <2> QED BY <2>1, <2>2 DEF Walks
<1> QED BY <1>6, <1>7

(* The levels of a padded tree: leaves and padding at the bottom, and      *)
(* nodes of two neighbours above.                                          *)
LEMMA LevelsRec ==
  ASSUME NEW leaves, Len(leaves) \in Nat, NEW i \in Nat
  PROVE  /\ Levels(leaves)[0][i] = IF i < Len(leaves) THEN Leaf(leaves[i + 1]) ELSE Pad
         /\ \A d \in 1..Height(Len(leaves)) :
              Levels(leaves)[d][i] = Node(Levels(leaves)[d - 1][2 * i], Levels(leaves)[d - 1][2 * i + 1])
<1> DEFINE bottom == [j \in Nat |-> IF j < Len(leaves) THEN Leaf(leaves[j + 1]) ELSE Pad]
           H == Height(Len(leaves))
           Above(l) == [j \in Nat |-> Node(l[2 * j], l[2 * j + 1])]
           Tree(f, m) == f = [d \in 0..m |-> [j \in Nat |->
                                IF d > 0 THEN Node(f[d - 1][2 * j], f[d - 1][2 * j + 1])
                                ELSE IF j < Len(leaves) THEN Leaf(leaves[j + 1]) ELSE Pad]]
           S == {m \in Nat : \E f : Tree(f, m)}
<1>1. 0 \in S
  <2>1. Tree([d \in 0..0 |-> bottom], 0)
    OBVIOUS
  <2> QED BY <2>1
<1>2. ASSUME NEW m \in Nat, m \in S PROVE m + 1 \in S
  <2>1. PICK f : Tree(f, m)
    BY <1>2
  <2> DEFINE g == [d \in 0..m + 1 |-> IF d <= m THEN f[d] ELSE Above(f[m])]
  <2>2. ASSUME NEW d \in 0..m + 1
        PROVE  g[d] = [j \in Nat |-> IF d > 0 THEN Node(g[d - 1][2 * j], g[d - 1][2 * j + 1])
                                     ELSE IF j < Len(leaves) THEN Leaf(leaves[j + 1]) ELSE Pad]
    <3>1. CASE d = 0
      BY <2>1, <3>1
    <3>2. CASE d \in 1..m
      <4>1. d \in 0..m /\ d - 1 \in 0..m + 1 /\ d - 1 <= m /\ d > 0
        BY <3>2
      <4>2. g[d] = f[d] /\ g[d - 1] = f[d - 1]
        BY <4>1
      <4> HIDE DEF g
      <4> QED BY <2>1, <4>1, <4>2
    <3>3. CASE d = m + 1
      <4>1. d - 1 = m /\ m \in 0..m + 1 /\ d > 0 /\ ~(d <= m)
        BY <3>3
      <4>2. g[d] = Above(f[m]) /\ g[d - 1] = f[m]
        BY <4>1
      <4> HIDE DEF g
      <4> QED BY <4>1, <4>2
    <3> QED BY <3>1, <3>2, <3>3
  <2>3. Tree(g, m + 1)
    BY <2>2
  <2> HIDE DEF g, Tree
  <2> QED BY <2>3
<1>3. H \in S
  <2>1. H \in Nat
    BY HeightFits
  <2> HIDE DEF S, H
  <2> QED BY <1>1, <1>2, <2>1, SetInduction
<1> DEFINE level == CHOOSE f : Tree(f, H)
<1>4. Tree(level, H)
  BY <1>3
<1>5. Levels(leaves) = level
  BY DEF Levels
<1> HIDE DEF level
<1>6. level[0][i] = IF i < Len(leaves) THEN Leaf(leaves[i + 1]) ELSE Pad
  <2>1. 0 \in 0..H
    BY HeightFits
  <2> HIDE DEF H
  <2> QED BY <1>4, <2>1
<1>7. ASSUME NEW d \in 1..H PROVE level[d][i] = Node(level[d - 1][2 * i], level[d - 1][2 * i + 1])
  <2>1. d \in 0..H /\ d > 0
    BY HeightFits
  <2> HIDE DEF H
  <2> QED BY <1>4, <2>1
<1> QED BY <1>5, <1>6, <1>7

(* Different nodes have different children, and no leaf is a node.         *)
LEMMA NodeParts ==
  /\ \A l, r, m, q : Node(l, r) = Node(m, q) => l = m /\ r = q
  /\ \A l, r, h : Node(l, r) # Leaf(h) /\ Node(l, r) # Pad
  /\ \A g, h : Leaf(g) = Leaf(h) => g = h
  /\ \A h : Leaf(h) # Pad
<1>1. \A l, r, m, q : Node(l, r) = Node(m, q) => l = m /\ r = q
  BY DEF Node
<1>2. \A l, r, h : Node(l, r)[1] = "node" /\ Leaf(h)[1] = "leaf" /\ Pad[1] = "pad"
  BY DEF Node, Leaf, Pad
<1>3. \A g, h : Leaf(g) = Leaf(h) => g = h
  BY DEF Leaf
<1> QED BY <1>1, <1>2, <1>3

(* Below an inner node of the tree, the walk was at the child that the     *)
(* next bit of the index tells.                                            *)
LEMMA StepDown ==
  ASSUME NEW acc, NEW sibling, NEW l, NEW r,
         Climb(acc, sibling).node = Node(l, r)
  PROVE  acc.node = IF acc.idx % 2 = 0 THEN l ELSE r
<1>1. CASE acc.idx % 2 = 0
  <2>1. Node(acc.node, sibling) = Node(l, r)
    BY <1>1 DEF Climb
  <2> QED BY <1>1, <2>1, NodeParts
<1>2. CASE acc.idx % 2 # 0
  <2>1. Node(sibling, acc.node) = Node(l, r)
    BY <1>2 DEF Climb
  <2> QED BY <1>2, <2>1, NodeParts
<1> QED BY <1>1, <1>2

(* The index at each step of a walk.                                       *)
LEMMA WalkIndex ==
  ASSUME NEW proof, NEW h, NEW at, Walks(at, proof, h),
         Len(proof.siblings) \in Nat, proof.leaf_index \in Nat
  PROVE  \A k \in 0..Len(proof.siblings) : at[k].idx = Halvings(proof.leaf_index)[k]
<1> DEFINE x == Halvings(proof.leaf_index)
           S == {k \in Nat : k <= Len(proof.siblings) => at[k].idx = x[k]}
<1>4. x[0] = proof.leaf_index /\ \A k \in Nat : x[k + 1] = x[k] \div 2
  <2>1. \A i \in Nat : Halvings(i)[0] = i /\ \A k \in Nat : Halvings(i)[k + 1] = Halvings(i)[k] \div 2
    BY HalvingsRec
  <2> QED BY <2>1
<1> HIDE DEF x
<1>1. 0 \in S
  BY <1>4 DEF Walks
<1>2. ASSUME NEW k \in Nat, k \in S PROVE k + 1 \in S
  <2> SUFFICES ASSUME k + 1 <= Len(proof.siblings) PROVE at[k + 1].idx = x[k + 1]
    OBVIOUS
  <2>1. at[k + 1] = Climb(at[k], proof.siblings[k + 1])
    <3>1. k + 1 \in 1..Len(proof.siblings) /\ (k + 1) - 1 = k
      OBVIOUS
    <3> QED BY <3>1 DEF Walks
  <2>2. at[k + 1].idx = at[k].idx \div 2
    BY <2>1 DEF Climb
  <2>3. at[k].idx = x[k] /\ x[k + 1] = x[k] \div 2
    <3>1. k <= Len(proof.siblings)
      OBVIOUS
    <3> QED BY <1>2, <1>4, <3>1
  <2> QED BY <2>2, <2>3
<1> HIDE DEF S
<1>3. \A k \in Nat : k \in S
  BY <1>1, <1>2, SetInduction
<1> QED BY <1>3 DEF S, x

(* A path of whatever length that leads from a hash to the root of a tree, *)
(* its index below the number of leaves, shows the leaf at that index.     *)
THEOREM InclusionSound ==
  ASSUME NEW leaves, Len(leaves) \in Nat, leaves # <<>>, NEW h,
         NEW proof, Len(proof.siblings) \in Nat,
         proof.leaf_index \in Nat, proof.leaf_index < Len(leaves),
         compute_root(proof, h) = PaddedRoot(leaves)
  PROVE  leaves[proof.leaf_index + 1] = h
<1> DEFINE s == Len(proof.siblings)
           H == Height(Len(leaves))
           x == Halvings(proof.leaf_index)
           level == Levels(leaves)
<1>1. PICK at : Walks(at, proof, h) /\ compute_root(proof, h) = at[s].node
  BY WalkExists
<1>2. H \in Nat /\ s \in Nat /\ x \in [Nat -> Nat] /\ x[0] = proof.leaf_index
      /\ \A k \in Nat : x[k + 1] = x[k] \div 2
  <2>1. \A n \in Nat : Height(n) \in Nat
    BY HeightFits
  <2>2. \A i \in Nat : /\ Halvings(i) \in [Nat -> Nat] /\ Halvings(i)[0] = i
                       /\ \A k \in Nat : Halvings(i)[k + 1] = Halvings(i)[k] \div 2
    BY HalvingsRec
  <2> QED BY <2>1, <2>2
<1>3. x[H] = 0
  BY RootIndex
<1>4. \A k \in 0..s : at[k].idx = x[k]
  BY <1>1, WalkIndex
<1>5. ASSUME NEW i \in Nat
      PROVE  /\ level[0][i] = IF i < Len(leaves) THEN Leaf(leaves[i + 1]) ELSE Pad
             /\ \A d \in 1..H : level[d][i] = Node(level[d - 1][2 * i], level[d - 1][2 * i + 1])
  BY LevelsRec
<1>6. at[s].node = level[H][0]
  BY <1>1 DEF PaddedRoot
<1>7. at[0].node = Leaf(h) /\ \A k \in 1..s : at[k] = Climb(at[k - 1], proof.siblings[k])
  BY <1>1 DEF Walks
(* Down from the root, the walk passed nodes of the tree; if its index     *)
(* was used up, the nodes above the leaf.                                  *)
<1> DEFINE Passed(k) == \E i \in Nat : at[s - k].node = level[H - k][i] /\ (x[s] = 0 => i = x[s - k])
           S == {k \in Nat : k <= s /\ k <= H => Passed(k)}
<1>8. 0 \in S
  <2>1. s - 0 = s /\ H - 0 = H /\ 0 \in Nat
    BY <1>2
  <2> QED BY <1>6, <2>1
<1> HIDE DEF s, H, x, level
<1>9. ASSUME NEW k \in Nat, k \in S PROVE k + 1 \in S
  <2> SUFFICES ASSUME k + 1 <= s, k + 1 <= H PROVE Passed(k + 1)
    OBVIOUS
  <2>1. /\ s - k \in 1..s /\ H - k \in 1..H /\ (s - k) - 1 = s - (k + 1) /\ (H - k) - 1 = H - (k + 1)
        /\ s - (k + 1) \in 0..s /\ s - (k + 1) \in Nat /\ (s - (k + 1)) + 1 = s - k
    BY <1>2
  <2>2. PICK i \in Nat : at[s - k].node = level[H - k][i] /\ (x[s] = 0 => i = x[s - k])
    BY <1>2, <1>9
  <2> DEFINE b == x[s - (k + 1)]
  <2>3. b \in Nat /\ at[s - (k + 1)].idx = b /\ x[s - k] = b \div 2
    <3>1. x[(s - (k + 1)) + 1] = x[s - (k + 1)] \div 2
      BY <1>2, <2>1
    <3>2. b \in Nat /\ at[s - (k + 1)].idx = b
      BY <1>2, <1>4, <2>1
    <3> QED BY <2>1, <3>1, <3>2
  <2>4. at[s - k].node = Node(level[H - (k + 1)][2 * i], level[H - (k + 1)][2 * i + 1])
    BY <1>5, <2>1, <2>2
  <2>5. at[s - k] = Climb(at[s - (k + 1)], proof.siblings[s - k])
    BY <1>7, <2>1
  <2>10. Climb(at[s - (k + 1)], proof.siblings[s - k]).node
            = Node(level[H - (k + 1)][2 * i], level[H - (k + 1)][2 * i + 1])
    BY <2>4, <2>5
  <2>6. at[s - (k + 1)].node = IF b % 2 = 0 THEN level[H - (k + 1)][2 * i] ELSE level[H - (k + 1)][2 * i + 1]
    BY <2>3, <2>10, StepDown
  <2> HIDE DEF b
  <2>7. b = 2 * (b \div 2) + (b % 2) /\ b % 2 \in {0, 1}
    BY <2>3
  <2>8. CASE b % 2 = 0
    <3>1. 2 * i \in Nat /\ (x[s] = 0 => 2 * i = b)
      BY <2>2, <2>3, <2>7, <2>8
    <3> QED BY <2>6, <2>8, <3>1 DEF b
  <2>9. CASE b % 2 = 1
    <3>1. 2 * i + 1 \in Nat /\ (x[s] = 0 => 2 * i + 1 = b)
      BY <2>2, <2>3, <2>7, <2>9
    <3> QED BY <2>6, <2>9, <3>1 DEF b
  <2> QED BY <2>7, <2>8, <2>9
<1>10. \A k \in Nat : k <= s /\ k <= H => Passed(k)
  <2> HIDE DEF S
  <2>1. \A k \in Nat : k \in S
    BY <1>8, <1>9, SetInduction
  <2> USE DEF S
  <2> QED BY <2>1
<1>11. CASE s = H
  <2>1. Passed(s)
    <3>1. s <= s /\ s <= H
      BY <1>2, <1>11
    <3> HIDE DEF Passed
    <3> QED BY <1>2, <1>10, <3>1
  <2>2. PICK i \in Nat : at[0].node = level[0][i] /\ (x[s] = 0 => i = x[0])
    <3>1. s - s = 0 /\ H - s = 0
      BY <1>2, <1>11
    <3> QED BY <1>2, <2>1, <3>1
  <2>3. i = proof.leaf_index
    BY <1>2, <1>3, <1>11, <2>2
  <2>4. Leaf(h) = Leaf(leaves[proof.leaf_index + 1])
    BY <1>5, <1>7, <2>2, <2>3
  <2> QED BY <2>4, NodeParts
(* A path too short would have to meet an inner node at its start.         *)
<1>12. CASE s < H
  <2>1. Passed(s)
    <3>1. s <= s /\ s <= H
      BY <1>2, <1>12
    <3> HIDE DEF Passed
    <3> QED BY <1>2, <1>10, <3>1
  <2>2. PICK i \in Nat : at[0].node = level[H - s][i]
    <3>1. s - s = 0
      BY <1>2
    <3> QED BY <1>2, <2>1, <3>1
  <2>3. H - s \in 1..H
    BY <1>2, <1>12
  <2>4. level[H - s][i] = Node(level[(H - s) - 1][2 * i], level[(H - s) - 1][2 * i + 1])
    <3> DEFINE d == H - s
    <3>1. d \in 1..H
      BY <2>3
    <3> HIDE DEF d
    <3>2. level[d][i] = Node(level[d - 1][2 * i], level[d - 1][2 * i + 1])
      BY <1>5, <3>1
    <3> QED BY <3>2 DEF d
  <2>5. level[H - s][i] = Leaf(h)
    BY <1>7, <2>2
  <2>6. \A l, r, g : Node(l, r) # Leaf(g)
    BY NodeParts
  <2>7. \A v : v = Leaf(h) => ~(\E l, r : v = Node(l, r))
    BY <2>6
  <2> QED BY <2>4, <2>5, <2>7
(* A path too long would have an inner node where the tree has a leaf.     *)
<1>13. CASE H < s
  <2>1. Passed(H)
    <3>1. H <= s /\ H <= H
      BY <1>2, <1>13
    <3> HIDE DEF Passed
    <3> QED BY <1>2, <1>10, <3>1
  <2>2. PICK i \in Nat : at[s - H].node = level[0][i]
    <3>1. H - H = 0
      BY <1>2
    <3> QED BY <1>2, <2>1, <3>1
  <2>3. at[s - H] = Climb(at[(s - H) - 1], proof.siblings[s - H])
    <3>1. s - H \in 1..s
      BY <1>2, <1>13
    <3> QED BY <1>7, <3>1
  <2>4. \E l, r : at[s - H].node = Node(l, r)
    BY <2>3 DEF Climb
  <2>5. \E g : level[0][i] = Leaf(g) \/ level[0][i] = Pad
    <3>1. level[0][i] = IF i < Len(leaves) THEN Leaf(leaves[i + 1]) ELSE Pad
      BY <1>5
    <3> QED BY <3>1
  <2> QED BY <2>2, <2>4, <2>5, NodeParts
<1> QED BY <1>2, <1>11, <1>12, <1>13

LEMMA PathLength ==
  ASSUME NEW leaves, Len(leaves) \in Nat, NEW i
  PROVE  Len(PaddedPath(leaves, i)) = Height(Len(leaves))
<1> DEFINE H == Height(Len(leaves))
           path == PaddedPath(leaves, i)
<1>1. H \in Nat
  BY HeightFits
<1>2. DOMAIN path = 1..H
  BY DEF PaddedPath
<1>3. path = [k \in 1..H |-> path[k]]
  BY DEF PaddedPath
<1> HIDE DEF H, path
<1>4. path \in Seq({path[k] : k \in 1..H})
  BY <1>1, <1>3
<1>5. Len(path) = H
  BY <1>1, <1>2, <1>4
<1> QED BY <1>5 DEF H, path

(* The padded tree's own path for a leaf leads to its root.                *)
THEOREM InclusionComplete ==
  ASSUME NEW leaves, Len(leaves) \in Nat, leaves # <<>>,
         NEW i \in Nat, i < Len(leaves),
         NEW proof, proof.leaf_index = i, proof.siblings = PaddedPath(leaves, i)
  PROVE  compute_root(proof, leaves[i + 1]) = PaddedRoot(leaves)
<1> DEFINE H == Height(Len(leaves))
           x == Halvings(i)
           level == Levels(leaves)
<1>1. H \in Nat /\ Len(proof.siblings) = H
  BY HeightFits, PathLength
<1>2. PICK at : Walks(at, proof, leaves[i + 1]) /\ compute_root(proof, leaves[i + 1]) = at[H].node
  BY <1>1, WalkExists
<1>3. /\ at[0] = [node |-> Leaf(leaves[i + 1]), idx |-> i]
      /\ \A k \in 1..H : at[k] = Climb(at[k - 1], proof.siblings[k])
  BY <1>1, <1>2 DEF Walks
<1>4. x[0] = i /\ \A k \in Nat : x[k] \in Nat /\ x[k + 1] = x[k] \div 2
  <2>1. \A j \in Nat : /\ Halvings(j) \in [Nat -> Nat] /\ Halvings(j)[0] = j
                       /\ \A k \in Nat : Halvings(j)[k + 1] = Halvings(j)[k] \div 2
    BY HalvingsRec
  <2> QED BY <2>1
<1>5. ASSUME NEW j \in Nat
      PROVE  /\ level[0][j] = IF j < Len(leaves) THEN Leaf(leaves[j + 1]) ELSE Pad
             /\ \A d \in 1..H : level[d][j] = Node(level[d - 1][2 * j], level[d - 1][2 * j + 1])
  BY LevelsRec
<1>6. \A k \in 1..H : proof.siblings[k] = level[k - 1][Sibling(x[k - 1])]
  BY DEF PaddedPath
<1>7. x[H] = 0
  BY RootIndex
<1>8. PaddedRoot(leaves) = level[H][0]
  BY DEF PaddedRoot
<1> DEFINE S == {k \in Nat : k <= H => at[k] = [node |-> level[k][x[k]], idx |-> x[k]]}
<1>9. 0 \in S
  <2>1. level[0][i] = Leaf(leaves[i + 1])
    BY <1>5
  <2> QED BY <1>3, <1>4, <2>1
<1> HIDE DEF H, x, level
<1>10. ASSUME NEW k \in Nat, k \in S PROVE k + 1 \in S
  <2> SUFFICES ASSUME k + 1 <= H PROVE at[k + 1] = [node |-> level[k + 1][x[k + 1]], idx |-> x[k + 1]]
    OBVIOUS
  <2>1. k <= H /\ k + 1 \in 1..H /\ (k + 1) - 1 = k
    BY <1>1
  <2>2. at[k] = [node |-> level[k][x[k]], idx |-> x[k]]
    BY <1>10, <2>1 DEF S
  <2>3. at[k + 1] = Climb(at[k], level[k][Sibling(x[k])])
    BY <1>3, <1>6, <2>1
  <2> DEFINE b == x[k]
  <2>4. b \in Nat /\ x[k + 1] = b \div 2
    BY <1>4
  <2>5. level[k + 1][b \div 2] = Node(level[k][2 * (b \div 2)], level[k][2 * (b \div 2) + 1])
    <3>1. b \div 2 \in Nat
      BY <2>4
    <3> HIDE DEF b
    <3> QED BY <1>5, <2>1, <3>1
  <2> HIDE DEF b
  <2>6. b = 2 * (b \div 2) + (b % 2) /\ b % 2 \in {0, 1}
    BY <2>4
  <2>7. at[k + 1].node = Node(level[k][2 * (b \div 2)], level[k][2 * (b \div 2) + 1])
    <3>1. at[k].node = level[k][b] /\ at[k].idx = b
      BY <2>2 DEF b
    <3>2. CASE b % 2 = 0
      <4>1. Sibling(b) = b + 1 /\ 2 * (b \div 2) = b
        BY <2>4, <2>6, <3>2 DEF Sibling
      <4> QED BY <2>3, <3>1, <3>2, <4>1 DEF Climb, b
    <3>3. CASE b % 2 = 1
      <4>1. Sibling(b) = 2 * (b \div 2) /\ 2 * (b \div 2) + 1 = b
        BY <2>4, <2>6, <3>3 DEF Sibling
      <4> QED BY <2>3, <3>1, <3>3, <4>1 DEF Climb, b
    <3> QED BY <2>6, <3>2, <3>3
  <2>8. at[k + 1] = [node |-> at[k + 1].node, idx |-> b \div 2]
    <3>1. at[k].idx = b
      BY <2>2 DEF b
    <3> QED BY <2>3, <3>1 DEF Climb
  <2> QED BY <2>4, <2>5, <2>7, <2>8
<1>11. H \in S
  <2> HIDE DEF S
  <2> QED BY <1>1, <1>9, <1>10, SetInduction
<1>12. at[H].node = level[H][0]
  BY <1>1, <1>7, <1>11
<1> QED BY <1>2, <1>8, <1>12

----------------------------------------------------------------------------
(* A statement keeps the external_aad it was signed with, which is the     *)
(* unprotected header its signer bound; nothing is accepted unsigned, and  *)
(* nothing but the header can change once it is signed.                    *)
BoundBySignature ==
  /\ stmt = None => verdict = "none"
  /\ stmt # None => "signed" \in DOMAIN stmt /\ stmt.signed.external_aad = bound
  /\ verdict = "accepted" => SignatureOk(stmt)

LEMMA BoundInit == Init => BoundBySignature
BY DEF Init, BoundBySignature

(* No step of the log, the signer, the network or the verifier undoes it.  *)
LEMMA BoundStep == BoundBySignature /\ [Next]_vars => BoundBySignature'
<1> SUFFICES ASSUME BoundBySignature, [Next]_vars PROVE BoundBySignature'
  OBVIOUS
<1>1. CASE Tick \/ AppendLeaf \/ SignHead
  BY <1>1 DEF BoundBySignature, Tick, AppendLeaf, SignHead, LogActs, SignatureOk
<1>2. CASE Sign
  <2>1. PICK c \in Contents, a \in {None} \cup AnchorFiles : SignStatement(c, a)
    BY <1>2 DEF Sign
  <2>2. verdict = "none" /\ verdict' = verdict
    BY <1>2 DEF Sign, BoundBySignature
  <2>3. "signed" \in DOMAIN stmt' /\ stmt'.signed.external_aad = a /\ bound' = a
    BY <2>1 DEF SignStatement
  <2> QED BY <2>2, <2>3 DEF BoundBySignature
<1>3. CASE Reattach
  <2>1. /\ stmt # None /\ verdict = "none" /\ verdict' = verdict /\ bound' = bound
        /\ \E a : stmt' = [stmt EXCEPT !.unprotected = a]
    BY <1>3 DEF Reattach
  <2> QED BY <2>1 DEF BoundBySignature
<1>4. CASE Verify
  BY <1>4 DEF Verify, BoundBySignature
<1>5. CASE UNCHANGED vars
  BY <1>5 DEF vars, BoundBySignature, SignatureOk
<1> QED BY <1>1, <1>2, <1>3, <1>4, <1>5 DEF Next

(* An accepted statement carries the unprotected header its signer gave    *)
(* it, whether or not the payload repeats it as anchor_hash.               *)
THEOREM AnchorBinding == Spec => []AnchorAsSigned
<1>1. BoundBySignature => AnchorAsSigned
  BY DEF BoundBySignature, AnchorAsSigned, SignatureOk, Accepted, anchor
<1> QED BY <1>1, BoundInit, BoundStep, PTL DEF Spec

----------------------------------------------------------------------------
(* The log and what it has signed: times never go back, a tree head shows  *)
(* entries appended by its time, a statement carries what it was signed    *)
(* with, and the verdict is that of the checks.                            *)
Times ==
  /\ clock \in 0..MaxClock /\ when \in Seq(Nat) /\ Len(when) <= Len(Entries)
  /\ \A i \in 1..Len(when) : when[i] <= clock
  /\ \A i, j \in 1..Len(when) : i <= j => when[i] <= when[j]

HeadOfLog(h) ==
  \E ts \in 0..clock, n \in 0..Len(when) :
    h = TreeHead(Log, ts, n) /\ \A i \in 1..n : when[i] <= ts

StatementAsSigned ==
  stmt # None =>
    /\ stmt.content \in Contents
    /\ bound \in {None} \cup AnchorFiles
    /\ stmt.anchor_hash \in {None, bound}
    /\ stmt.signed = [payload |-> <<stmt.content, stmt.anchor_hash>>, external_aad |-> bound]

Judged ==
  /\ verdict \in {"none", "accepted", "rejected"}
  /\ stmt = None => verdict = "none"
  /\ verdict = "accepted" => SignatureOk(stmt) /\ AnchorOk(stmt)
  /\ verdict = "rejected" => ~(SignatureOk(stmt) /\ AnchorOk(stmt))

LogInv == Times /\ (\A h \in heads : HeadOfLog(h)) /\ StatementAsSigned /\ Judged

LEMMA LeavesOfEntries ==
  ASSUME NEW n \in 0..Len(Entries)
  PROVE  Len(Leaves(n)) = n /\ \A i \in 1..n : Leaves(n)[i] = Entries[i]
<1>1. Entries \in Seq(Entry) /\ Len(Entries) \in Nat
  BY LogAssumption
<1> HIDE DEF Entry
<1> QED BY <1>1 DEF Leaves

LEMMA LogInit == Init => LogInv
<1> SUFFICES ASSUME Init PROVE LogInv
  OBVIOUS
<1>1. Times
  <2>1. MaxClock \in Nat /\ Len(Entries) \in Nat
    BY LogAssumption
  <2> QED BY <2>1 DEF Init, Times
<1>2. /\ \A h \in heads : HeadOfLog(h)
      /\ StatementAsSigned /\ Judged
  BY DEF Init, StatementAsSigned, Judged
<1> QED BY <1>1, <1>2 DEF LogInv

(* The log grows only at its end, at the present time, and signs its       *)
(* present state: an earlier head stays a head of the log.                 *)
LEMMA TimesStep == Times /\ [Next]_vars => Times'
<1> SUFFICES ASSUME Times, [Next]_vars PROVE Times'
  OBVIOUS
<1>0. MaxClock \in Nat /\ Len(Entries) \in Nat /\ clock \in Nat
  BY LogAssumption DEF Times
<1>1. CASE Tick
  <2>1. clock' = clock + 1 /\ clock < MaxClock /\ when' = when
    BY <1>1 DEF Tick
  <2>2. \A i \in 1..Len(when) : when[i] \in Nat
    BY DEF Times
  <2> QED BY <1>0, <2>1, <2>2 DEF Times
<1>2. CASE AppendLeaf
  <2>1. when' = Append(when, clock) /\ Len(when) < Len(Entries) /\ clock' = clock
    BY <1>2 DEF AppendLeaf
  <2>2. /\ Len(when') = Len(when) + 1 /\ when' \in Seq(Nat) /\ Len(when) \in Nat
        /\ \A i \in 1..Len(when') : when'[i] = IF i <= Len(when) THEN when[i] ELSE clock
    BY <1>0, <2>1 DEF Times
  <2>3. ASSUME NEW i \in 1..Len(when') PROVE when'[i] <= clock
    <3>1. CASE i <= Len(when)
      <4>1. i \in 1..Len(when) /\ when'[i] = when[i]
        BY <2>2, <3>1
      <4> QED BY <4>1 DEF Times
    <3>2. CASE ~(i <= Len(when))
      BY <1>0, <2>2, <3>2
    <3> QED BY <3>1, <3>2
  <2>4. ASSUME NEW i \in 1..Len(when'), NEW j \in 1..Len(when'), i <= j PROVE when'[i] <= when'[j]
    <3>1. CASE j <= Len(when)
      <4>1. i \in 1..Len(when) /\ j \in 1..Len(when)
        BY <2>2, <2>4, <3>1
      <4>2. when'[i] = when[i] /\ when'[j] = when[j]
        BY <2>2, <4>1
      <4> QED BY <2>4, <4>1, <4>2 DEF Times
    <3>2. CASE ~(j <= Len(when))
      BY <2>2, <2>3, <3>2
    <3> QED BY <3>1, <3>2
  <2> QED BY <1>0, <2>1, <2>2, <2>3, <2>4 DEF Times
<1>3. CASE SignHead \/ Sign \/ Reattach \/ Verify \/ UNCHANGED vars
  <2>1. when' = when /\ clock' = clock
    BY <1>3 DEF SignHead, Sign, Reattach, Verify, vars
  <2> QED BY <2>1 DEF Times
<1> QED BY <1>1, <1>2, <1>3 DEF Next

LEMMA HeadsStep ==
  ASSUME Times, \A h \in heads : HeadOfLog(h), [Next]_vars
  PROVE  \A h \in heads' : HeadOfLog(h)'
<1>0. clock \in Nat /\ when \in Seq(Nat) /\ Len(when) \in Nat
  BY LogAssumption DEF Times
<1>1. ASSUME NEW h \in heads, clock' \in Nat, clock <= clock',
             Len(when) <= Len(when'), Len(when') \in Nat,
             \A i \in 1..Len(when) : when'[i] = when[i]
      PROVE  HeadOfLog(h)'
  <2>1. PICK ts \in 0..clock, n \in 0..Len(when) :
             h = TreeHead(Log, ts, n) /\ \A i \in 1..n : when[i] <= ts
    BY DEF HeadOfLog
  <2>2. ts \in 0..clock' /\ n \in 0..Len(when') /\ \A i \in 1..n : i \in 1..Len(when)
    BY <1>0, <1>1
  <2>3. \A i \in 1..n : when'[i] <= ts
    BY <1>1, <2>1, <2>2
  <2> QED BY <2>1, <2>2, <2>3 DEF HeadOfLog
<1>2. CASE Tick
  <2>1. clock' = clock + 1 /\ when' = when /\ heads' = heads
    BY <1>2 DEF Tick
  <2> QED BY <1>0, <1>1, <2>1
<1>3. CASE AppendLeaf
  <2>1. when' = Append(when, clock) /\ clock' = clock /\ heads' = heads
    BY <1>3 DEF AppendLeaf
  <2>2. /\ Len(when') = Len(when) + 1
        /\ \A i \in 1..Len(when) : when'[i] = when[i]
    BY <1>0, <2>1
  <2> QED BY <1>0, <1>1, <2>1, <2>2
<1>4. CASE SignHead
  <2>1. when' = when /\ clock' = clock /\ heads' = heads \cup {TreeHead(Log, clock, Len(when))}
    BY <1>4 DEF SignHead
  <2>2. HeadOfLog(TreeHead(Log, clock, Len(when)))'
    <3>1. clock \in 0..clock' /\ Len(when) \in 0..Len(when') /\ \A i \in 1..Len(when) : when'[i] <= clock
      BY <1>0, <2>1 DEF Times
    <3> QED BY <2>1, <3>1 DEF HeadOfLog
  <2> QED BY <1>0, <1>1, <2>1, <2>2
<1>5. CASE Sign \/ Reattach \/ Verify \/ UNCHANGED vars
  <2>1. when' = when /\ clock' = clock /\ heads' = heads
    BY <1>5 DEF Sign, Reattach, Verify, vars
  <2> QED BY <1>0, <1>1, <2>1
<1> QED BY <1>2, <1>3, <1>4, <1>5 DEF Next

(* Once signed, only the unprotected header of a statement can change; the *)
(* anchor files it was bound from stay what they were.                     *)
LEMMA StatementStep == StatementAsSigned /\ [Next]_vars => StatementAsSigned'
<1> SUFFICES ASSUME StatementAsSigned, [Next]_vars PROVE StatementAsSigned'
  OBVIOUS
<1>1. CASE Tick \/ AppendLeaf \/ SignHead
  <2>1. stmt' = None
    BY <1>1 DEF Tick, AppendLeaf, SignHead, LogActs
  <2> QED BY <2>1 DEF StatementAsSigned
<1>2. ASSUME when' = when, heads' = heads PROVE AnchorFiles' = AnchorFiles
  <2>1. Paths' = Paths
    BY <1>2 DEF Paths
  <2> QED BY <1>2, <2>1 DEF AnchorFiles
<1>3. CASE Sign
  <2>1. PICK c \in Contents, a \in {None} \cup AnchorFiles : SignStatement(c, a)
    BY <1>3 DEF Sign
  <2>2. AnchorFiles' = AnchorFiles
    BY <1>2, <1>3 DEF Sign
  <2>3. /\ stmt'.content = c /\ stmt'.anchor_hash = a /\ bound' = a
        /\ stmt'.signed = [payload |-> <<c, a>>, external_aad |-> a]
    BY <2>1 DEF SignStatement
  <2> QED BY <2>1, <2>2, <2>3 DEF StatementAsSigned
<1>4. CASE Reattach
  <2>1. PICK a : stmt # None /\ stmt' = [stmt EXCEPT !.unprotected = a] /\ bound' = bound
    BY <1>4 DEF Reattach
  <2>2. AnchorFiles' = AnchorFiles
    BY <1>2, <1>4 DEF Reattach
  <2>3. stmt'.content = stmt.content /\ stmt'.anchor_hash = stmt.anchor_hash /\ stmt'.signed = stmt.signed
    BY <2>1
  <2> HIDE DEF AnchorFiles
  <2> QED BY <2>1, <2>2, <2>3 DEF StatementAsSigned
<1>5. CASE Verify \/ UNCHANGED vars
  <2>1. stmt' = stmt /\ bound' = bound /\ when' = when /\ heads' = heads
    BY <1>5 DEF Verify, vars
  <2>2. AnchorFiles' = AnchorFiles
    BY <1>2, <2>1
  <2> QED BY <2>1, <2>2 DEF StatementAsSigned
<1> QED BY <1>1, <1>3, <1>4, <1>5 DEF Next

LEMMA JudgedStep == Judged /\ [Next]_vars => Judged'
<1> SUFFICES ASSUME Judged, [Next]_vars PROVE Judged'
  OBVIOUS
<1>1. CASE Tick \/ AppendLeaf \/ SignHead
  BY <1>1 DEF Tick, AppendLeaf, SignHead, LogActs, Judged
<1>2. CASE Sign
  <2>1. verdict' = "none"
    BY <1>2 DEF Sign, Judged
  <2> QED BY <2>1 DEF Judged
<1>3. CASE Reattach
  BY <1>3 DEF Reattach, Judged
<1>4. CASE Verify
  BY <1>4 DEF Verify, Judged
<1>5. CASE UNCHANGED vars
  BY <1>5 DEF vars, Judged, SignatureOk, AnchorOk
<1> QED BY <1>1, <1>2, <1>3, <1>4, <1>5 DEF Next

LEMMA LogStep == LogInv /\ [Next]_vars => LogInv'
BY TimesStep, HeadsStep, StatementStep, JudgedStep DEF LogInv

(* Anchor files hold an index and a path; of the tree heads at hand, only  *)
(* the log's own pass verify_sth_signature, unless of an empty tree.       *)
LEMMA AnchorFileShape ==
  ASSUME Times, NEW a \in AnchorFiles
  PROVE  /\ a.proof.leaf_index \in Nat /\ Len(a.proof.siblings) \in Nat
         /\ \E h \in heads : a.sth \in Damaged(h)
<1>0. Len(when) \in Nat /\ Len(Entries) \in Nat /\ Len(when) <= Len(Entries)
  BY LogAssumption DEF Times
<1>7. PICK n \in 1..Len(when) :
           a.proof \in UNION {{Proof(n, i, j) : j \in {i, i + 1, i + Pow[Height(n)]}} : i \in 0..n - 1}
  BY DEF AnchorFiles, Paths
<1>8. PICK i \in 0..n - 1 :
           a.proof \in {Proof(n, i, j) : j \in {i, i + 1, i + Pow[Height(n)]}}
  BY <1>7
<1>1. PICK j \in {i, i + 1, i + Pow[Height(n)]} : a.proof = Proof(n, i, j)
  BY <1>8
<1>2. n \in Nat /\ i \in Nat /\ Height(n) \in Nat /\ n \in 0..Len(Entries)
  <2>1. n \in Nat /\ i \in Nat /\ n \in 0..Len(Entries)
    BY <1>0
  <2> QED BY <2>1, HeightFits
<1>3. j \in Nat
  <2>1. Pow[Height(n)] \in Nat
    BY <1>2, PowRec
  <2> QED BY <1>2, <2>1
<1>4. a.proof.leaf_index = j /\ a.proof.siblings = Path(n, i)
  BY <1>1 DEF Proof
<1>5. Len(Path(n, i)) \in Nat
  BY <1>2, LeavesOfEntries, PathLength DEF Path
<1>6. \E h \in heads : a.sth \in Damaged(h)
  BY DEF AnchorFiles
<1> QED BY <1>3, <1>4, <1>5, <1>6

LEMMA HeadVerified ==
  ASSUME Times, NEW h \in heads, HeadOfLog(h), NEW sth \in Damaged(h),
         verify_sth_signature(sth), sth.tree_size > 0
  PROVE  sth = h
<1>1. PICK ts \in 0..clock, n \in 0..Len(when) : h = TreeHead(Log, ts, n)
  BY DEF HeadOfLog
<1>2. ts \in Nat /\ n \in Nat
  BY LogAssumption DEF Times
<1>3. /\ h.log_pubkey = Log /\ h.timestamp = ts /\ h.tree_size = n /\ h.root_hash = Root(n)
      /\ h.signed = <<Log, ts, n, Root(n)>>
  BY <1>1 DEF TreeHead
<1>4. CASE sth = [h EXCEPT !.timestamp = 0]
  <2>1. <<Log, ts, n, Root(n)>> = <<Log, 0, n, Root(n)>>
    BY <1>1, <1>3, <1>4 DEF verify_sth_signature, TreeHead
  <2>2. ts = 0
    BY <2>1
  <2>3. h = [log_pubkey |-> Log, timestamp |-> 0, tree_size |-> n, root_hash |-> Root(n),
             signed |-> h.signed]
    BY <1>1, <2>2 DEF TreeHead
  <2> QED BY <1>4, <2>3
<1>5. CASE sth = [h EXCEPT !.tree_size = 2 * @]
  <2>1. <<Log, ts, n, Root(n)>> = <<Log, ts, 2 * n, Root(n)>> /\ sth.tree_size = 2 * n
    BY <1>1, <1>3, <1>5 DEF verify_sth_signature, TreeHead
  <2>2. n = 2 * n
    BY <2>1
  <2> QED BY <1>2, <2>1, <2>2
<1>6. CASE sth = TreeHead(Stranger, h.timestamp, h.tree_size)
  BY <1>6 DEF verify_sth_signature, TreeHead, Log, Stranger
<1> QED BY <1>4, <1>5, <1>6 DEF Damaged

(* The anchor of an accepted statement is the one its signer bound: a head *)
(* of the log, and a path that shows the payload at the claimed index.     *)
LEMMA AcceptedAnchor ==
  ASSUME LogInv, Accepted, anchor # None
  PROVE  /\ HeadOfLog(anchor.sth)
         /\ anchor.proof.leaf_index \in 0..anchor.sth.tree_size - 1
         /\ Entries[anchor.proof.leaf_index + 1] = content_hash(stmt.content)
         /\ Stamp[stmt.content] # None => anchor.sth.timestamp >= Stamp[stmt.content]
<1> DEFINE a == anchor
           j == a.proof.leaf_index
<1>1. Times /\ (\A h \in heads : HeadOfLog(h)) /\ StatementAsSigned /\ Judged
  BY DEF LogInv
<1>2. stmt # None /\ SignatureOk(stmt) /\ AnchorOk(stmt)
  BY <1>1 DEF Judged, Accepted
<1>3. a = bound /\ a \in AnchorFiles
  <2>1. stmt.signed.external_aad = bound /\ bound \in {None} \cup AnchorFiles
    BY <1>1, <1>2 DEF StatementAsSigned
  <2>2. a = bound
    BY <1>2, <2>1 DEF SignatureOk, anchor
  <2> QED BY <2>1, <2>2
<1>4. /\ verify_sth_signature(a.sth)
      /\ a.sth.tree_size > 0 /\ j < a.sth.tree_size
      /\ compute_root(a.proof, content_hash(stmt.content)) = a.sth.root_hash
      /\ Stamp[stmt.content] # None => a.sth.timestamp >= Stamp[stmt.content]
  BY <1>2 DEF AnchorOk, anchor, verify_inclusion, Stripped
<1>5. j \in Nat /\ Len(a.proof.siblings) \in Nat /\ \E h \in heads : a.sth \in Damaged(h)
  BY <1>1, <1>3, AnchorFileShape
<1>6. a.sth \in heads
  BY <1>1, <1>4, <1>5, HeadVerified
<1>7. PICK ts \in 0..clock, n \in 0..Len(when) : a.sth = TreeHead(Log, ts, n)
  BY <1>1, <1>6 DEF HeadOfLog
<1>8. a.sth.tree_size = n /\ a.sth.root_hash = PaddedRoot(Leaves(n))
  BY <1>7 DEF TreeHead, Root
<1>9. n \in Nat /\ n \in 0..Len(Entries)
  BY <1>1, LogAssumption DEF Times
<1>10. Len(Leaves(n)) = n /\ \A i \in 1..n : Leaves(n)[i] = Entries[i]
  BY <1>9, LeavesOfEntries
<1>11. Leaves(n) # <<>>
  BY <1>4, <1>8, <1>9, <1>10
<1> DEFINE p == a.proof
           h == content_hash(stmt.content)
<1>12. /\ Len(Leaves(n)) \in Nat /\ Len(p.siblings) \in Nat /\ p.leaf_index \in Nat
       /\ p.leaf_index < Len(Leaves(n)) /\ compute_root(p, h) = PaddedRoot(Leaves(n))
  BY <1>4, <1>5, <1>8, <1>9, <1>10
<1>13. Leaves(n)[j + 1] = h
  <2> HIDE DEF p, h
  <2>1. Leaves(n)[p.leaf_index + 1] = h
    BY <1>11, <1>12, InclusionSound
  <2> QED BY <2>1 DEF p
<1>14. j \in 0..n - 1 /\ j + 1 \in 1..n
  BY <1>4, <1>5, <1>8, <1>9
<1> QED BY <1>1, <1>4, <1>6, <1>8, <1>10, <1>13, <1>14

(* What an accepted anchor proves of the log (LoggedInTime): the payload   *)
(* had been appended by the time of a head the log signed.                 *)
THEOREM AnchorProvesTime == Spec => []LoggedInTime
<1>1. LogInv => LoggedInTime
  <2> SUFFICES ASSUME LogInv, Accepted, anchor # None
               PROVE  /\ \E i \in 1..anchor.sth.tree_size :
                           Entries[i] = content_hash(stmt.content) /\ when[i] <= anchor.sth.timestamp
                      /\ anchor.sth.timestamp <= clock
                      /\ Stamp[stmt.content] # None => Stamp[stmt.content] <= anchor.sth.timestamp
    BY DEF LoggedInTime
  <2> DEFINE j == anchor.proof.leaf_index
  <2>1. /\ HeadOfLog(anchor.sth) /\ j \in 0..anchor.sth.tree_size - 1
        /\ Entries[j + 1] = content_hash(stmt.content)
        /\ Stamp[stmt.content] # None => anchor.sth.timestamp >= Stamp[stmt.content]
    BY AcceptedAnchor
  <2>2. PICK ts \in 0..clock, n \in 0..Len(when) :
             anchor.sth = TreeHead(Log, ts, n) /\ \A i \in 1..n : when[i] <= ts
    BY <2>1 DEF HeadOfLog
  <2>3. anchor.sth.tree_size = n /\ anchor.sth.timestamp = ts
    BY <2>2 DEF TreeHead
  <2>4. n \in Nat /\ ts <= clock
    BY LogAssumption DEF LogInv, Times
  <2>5. j + 1 \in 1..n
    BY <2>1, <2>3, <2>4
  <2>6. when[j + 1] <= ts
    BY <2>2, <2>5
  <2>7. Stamp[stmt.content] # None => Stamp[stmt.content] <= ts
    <3>1. ts >= Stamp[stmt.content] => Stamp[stmt.content] <= ts
      OBVIOUS
    <3> QED BY <2>1, <2>3, <3>1
  <2> QED BY <2>1, <2>3, <2>4, <2>5, <2>6, <2>7
<1> QED BY <1>1, LogInit, LogStep, PTL DEF Spec

(* The index of an accepted proof is the payload's position in the log     *)
(* (IndexIsPosition): no path of another length or bit pattern passes.     *)
THEOREM IndexProved == Spec => []IndexIsPosition
<1>1. LogInv => IndexIsPosition
  BY AcceptedAnchor DEF IndexIsPosition
<1> QED BY <1>1, LogInit, LogStep, PTL DEF Spec

(* An anchor the log issued, bound and untouched, is accepted              *)
(* (IssuedAnchorVerifies), whatever the log has appended since.            *)
THEOREM IssuedAccepted == Spec => []IssuedAnchorVerifies
<1>1. LogInv => IssuedAnchorVerifies
  <2> SUFFICES ASSUME LogInv, verdict # "none", bound # None, anchor = bound,
                      Issued(anchor, content_hash(stmt.content)),
                      Stamp[stmt.content] # None => Stamp[stmt.content] <= anchor.sth.timestamp
               PROVE  SignatureOk(stmt) /\ AnchorOk(stmt)
    BY DEF IssuedAnchorVerifies, Accepted, LogInv, Judged
  <2> DEFINE a == anchor
  <2>1. Times /\ (\A h \in heads : HeadOfLog(h)) /\ StatementAsSigned /\ Judged
    BY DEF LogInv
  <2>2. stmt # None /\ stmt.unprotected = bound /\ stmt.unprotected # None
    BY <2>1 DEF Judged, anchor
  <2>3. SignatureOk(stmt)
    BY <2>1, <2>2 DEF StatementAsSigned, SignatureOk
  <2>4. PICK ts \in 0..clock, n \in 0..Len(when) : a.sth = TreeHead(Log, ts, n)
    BY <2>1 DEF Issued, HeadOfLog
  <2>5. /\ a.sth.log_pubkey = Log /\ a.sth.timestamp = ts /\ a.sth.tree_size = n
        /\ a.sth.root_hash = PaddedRoot(Leaves(n)) /\ a.sth.signed = <<Log, ts, n, a.sth.root_hash>>
    BY <2>4 DEF TreeHead, Root
  <2>6. verify_sth_signature(a.sth)
    BY <2>5 DEF verify_sth_signature
  <2>7. PICK i \in 0..n - 1 : a.proof = Proof(n, i, i) /\ Entries[i + 1] = content_hash(stmt.content)
    BY <2>5 DEF Issued
  <2>8. n \in Nat /\ n \in 0..Len(Entries) /\ i \in Nat /\ i < n /\ i + 1 \in 1..n /\ n > 0
    BY <2>1, LogAssumption DEF Times
  <2>9. Len(Leaves(n)) = n /\ Leaves(n)[i + 1] = content_hash(stmt.content)
    BY <2>7, <2>8, LeavesOfEntries
  <2>10. a.proof.leaf_index = i /\ a.proof.siblings = PaddedPath(Leaves(n), i)
    BY <2>7 DEF Proof, Path
  <2>11. compute_root(a.proof, content_hash(stmt.content)) = a.sth.root_hash
    <3> DEFINE p == a.proof
               l == Leaves(n)
    <3>1. Len(l) \in Nat /\ l # <<>> /\ i < Len(l) /\ p.leaf_index = i /\ p.siblings = PaddedPath(l, i)
      BY <2>8, <2>9, <2>10
    <3> HIDE DEF p, l
    <3>2. compute_root(p, l[i + 1]) = PaddedRoot(l)
      BY <2>8, <3>1, InclusionComplete
    <3> QED BY <2>5, <2>9, <3>2 DEF p, l
  <2>12. verify_inclusion(a, Stripped(stmt))
    BY <2>5, <2>8, <2>10, <2>11 DEF verify_inclusion, Stripped
  <2>13. stmt.anchor_hash \in {None, stmt.unprotected}
    BY <2>1, <2>2 DEF StatementAsSigned
  <2>14. Stamp[stmt.content] # None => a.sth.timestamp >= Stamp[stmt.content]
    <3>1. Stamp[stmt.content] <= ts => ts >= Stamp[stmt.content]
      OBVIOUS
    <3> QED BY <2>5, <3>1
  <2>15. AnchorOk(stmt)
    BY <2>2, <2>6, <2>12, <2>13, <2>14 DEF AnchorOk, anchor
  <2> QED BY <2>3, <2>15
<1> QED BY <1>1, LogInit, LogStep, PTL DEF Spec

=============================================================================
