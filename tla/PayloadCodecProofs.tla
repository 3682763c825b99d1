------------------------ MODULE PayloadCodecProofs ------------------------
(* What the re-encoding test accepts, and what survives the way from a     *)
(* signer or a caller to the verifier, for payloads of any shape and any   *)
(* limits. The encoder and the decoder are functions defined level by      *)
(* level of nesting; each section proves one fact about one level and goes *)
(* on by induction over the levels.                                        *)
EXTENDS PayloadCodec, Integers, FiniteSetTheorems, WellFoundedInduction, TLAPS

-----------------------------------------------------------------------------
(* Levels *)

(* What holds at level 0, and at each level above one where it holds,      *)
(* holds at all levels.                                                    *)
LEMMA LevelInduction ==
  ASSUME NEW N \in Nat, NEW S, 0 \in S, \A d \in 1..N : d - 1 \in S => d \in S
  PROVE  \A d \in 0..N : d \in S
<1> SUFFICES ASSUME NEW m \in 0..N, m \notin S PROVE FALSE
  OBVIOUS
<1> DEFINE Bad == {d \in Nat : d <= N /\ d \notin S}
<1>1. m \in Bad
  OBVIOUS
<1>2. PICK x \in Bad : \A y \in Bad : ~(<<y, x>> \in OpToRel(<, Nat))
  <2>1. Bad \subseteq Nat /\ Bad # {}
    BY <1>1
  <2> HIDE DEF Bad
  <2> QED BY <2>1, WFMin, NatLessThanWellFounded
<1>3. x \in Nat /\ x <= N /\ x \notin S /\ x # 0
  OBVIOUS
<1>4. x \in 1..N /\ x - 1 \in Nat /\ x - 1 <= N /\ x - 1 < x
  BY <1>3
<1>5. x - 1 \in S
  <2>1. x - 1 \notin Bad
    BY <1>2, <1>3, <1>4 DEF OpToRel
  <2> QED BY <1>4, <2>1
<1> QED BY <1>3, <1>4, <1>5

(* The limits are numbers, as CodecAssumption has it.                      *)
LEMMA Limits ==
  MaxDepth \in Nat /\ MaxEntries \in Nat /\ MaxNesting \in Nat /\ Hash32 \in Bytes
BY CodecAssumption

USE Limits

(* The recursive definitions of PayloadCodec do define a function.         *)
LEMMA ValueLevels ==
  Value = [d \in 0..MaxNesting |-> ValueOver(IF d = 0 THEN {} ELSE Value[d - 1])]
<1> DEFINE Upto(f, n) == f = [d \in 0..n |-> ValueOver(IF d = 0 THEN {} ELSE f[d - 1])]
           S == {n \in 0..MaxNesting : \E f : Upto(f, n)}
<1>1. 0 \in S
  <2>1. Upto([d \in 0..0 |-> ValueOver({})], 0)
    BY DEF Below
  <2> HIDE DEF Upto
  <2> QED BY <2>1
<1>2. ASSUME NEW n \in 1..MaxNesting, n - 1 \in S PROVE n \in S
  <2>1. PICK f : Upto(f, n - 1)
    BY <1>2
  <2> DEFINE g == [d \in 0..n |-> ValueOver(IF d = 0 THEN {} ELSE f[d - 1])]
  <2>2. ASSUME NEW d \in 0..n, d # 0 PROVE g[d - 1] = f[d - 1]
    <3>1. d - 1 \in 0..n - 1 /\ d - 1 \in 0..n
      BY <2>2
    <3> QED BY <2>1, <3>1
  <2> HIDE DEF Upto
  <2>3. g = [d \in 0..n |-> ValueOver(IF d = 0 THEN {} ELSE g[d - 1])]
    <3>1. ASSUME NEW d \in 0..n PROVE ValueOver(IF d = 0 THEN {} ELSE f[d - 1]) = ValueOver(IF d = 0 THEN {} ELSE g[d - 1])
      <4>1. CASE d = 0
        BY <4>1 DEF Below
      <4>2. CASE d # 0
        <5> HIDE DEF g
        <5> QED BY <2>2, <4>2 DEF Below
      <4> QED BY <4>1, <4>2
    <3> QED BY <3>1
  <2>4. Upto(g, n)
    BY <2>3 DEF Upto
  <2> HIDE DEF g
  <2> QED BY <2>4
<1>3. MaxNesting \in S
  <2> HIDE DEF S
  <2> QED BY <1>1, <1>2, LevelInduction
<1>4. PICK f : Upto(f, MaxNesting)
  BY <1>3
<1>5. Upto(CHOOSE f1 : Upto(f1, MaxNesting), MaxNesting)
  <2> HIDE DEF Upto
  <2> QED BY <1>4
<1> QED BY <1>5 DEF Value

(* CBOR of one level is made of that of the level below.                   *)
LEMMA ItemLevels ==
  ItemTree = [d \in 0..MaxNesting |-> ItemOver(IF d = 0 THEN {} ELSE ItemTree[d - 1])]
<1> DEFINE Upto(f, n) == f = [d \in 0..n |-> ItemOver(IF d = 0 THEN {} ELSE f[d - 1])]
           S == {n \in 0..MaxNesting : \E f : Upto(f, n)}
<1>1. 0 \in S
  <2>1. Upto([d \in 0..0 |-> ItemOver({})], 0)
    BY DEF Below
  <2> HIDE DEF Upto
  <2> QED BY <2>1
<1>2. ASSUME NEW n \in 1..MaxNesting, n - 1 \in S PROVE n \in S
  <2>1. PICK f : Upto(f, n - 1)
    BY <1>2
  <2> DEFINE g == [d \in 0..n |-> ItemOver(IF d = 0 THEN {} ELSE f[d - 1])]
  <2>2. ASSUME NEW d \in 0..n, d # 0 PROVE g[d - 1] = f[d - 1]
    <3>1. d - 1 \in 0..n - 1 /\ d - 1 \in 0..n
      BY <2>2
    <3> QED BY <2>1, <3>1
  <2> HIDE DEF Upto
  <2>3. g = [d \in 0..n |-> ItemOver(IF d = 0 THEN {} ELSE g[d - 1])]
    <3>1. ASSUME NEW d \in 0..n PROVE ItemOver(IF d = 0 THEN {} ELSE f[d - 1]) = ItemOver(IF d = 0 THEN {} ELSE g[d - 1])
      <4>1. CASE d = 0
        BY <4>1 DEF Below
      <4>2. CASE d # 0
        <5> HIDE DEF g
        <5> QED BY <2>2, <4>2 DEF Below
      <4> QED BY <4>1, <4>2
    <3> QED BY <3>1
  <2>4. Upto(g, n)
    BY <2>3 DEF Upto
  <2> HIDE DEF g
  <2> QED BY <2>4
<1>3. MaxNesting \in S
  <2> HIDE DEF S
  <2> QED BY <1>1, <1>2, LevelInduction
<1>4. PICK f : Upto(f, MaxNesting)
  BY <1>3
<1>5. Upto(CHOOSE f1 : Upto(f1, MaxNesting), MaxNesting)
  <2> HIDE DEF Upto
  <2> QED BY <1>4
<1> QED BY <1>5 DEF ItemTree

(* The same for canonical CBOR.                                            *)
LEMMA CanonicalLevels ==
  Canonical = [d \in 0..MaxNesting |-> CanonicalOver(IF d = 0 THEN {} ELSE Canonical[d - 1])]
<1> DEFINE Upto(f, n) == f = [d \in 0..n |-> CanonicalOver(IF d = 0 THEN {} ELSE f[d - 1])]
           S == {n \in 0..MaxNesting : \E f : Upto(f, n)}
<1>1. 0 \in S
  <2>1. Upto([d \in 0..0 |-> CanonicalOver({})], 0)
    BY DEF Below
  <2> HIDE DEF Upto
  <2> QED BY <2>1
<1>2. ASSUME NEW n \in 1..MaxNesting, n - 1 \in S PROVE n \in S
  <2>1. PICK f : Upto(f, n - 1)
    BY <1>2
  <2> DEFINE g == [d \in 0..n |-> CanonicalOver(IF d = 0 THEN {} ELSE f[d - 1])]
  <2>2. ASSUME NEW d \in 0..n, d # 0 PROVE g[d - 1] = f[d - 1]
    <3>1. d - 1 \in 0..n - 1 /\ d - 1 \in 0..n
      BY <2>2
    <3> QED BY <2>1, <3>1
  <2> HIDE DEF Upto
  <2>3. g = [d \in 0..n |-> CanonicalOver(IF d = 0 THEN {} ELSE g[d - 1])]
    <3>1. ASSUME NEW d \in 0..n PROVE CanonicalOver(IF d = 0 THEN {} ELSE f[d - 1]) = CanonicalOver(IF d = 0 THEN {} ELSE g[d - 1])
      <4>1. CASE d = 0
        BY <4>1 DEF Below
      <4>2. CASE d # 0
        <5> HIDE DEF g
        <5> QED BY <2>2, <4>2 DEF Below
      <4> QED BY <4>1, <4>2
    <3> QED BY <3>1
  <2>4. Upto(g, n)
    BY <2>3 DEF Upto
  <2> HIDE DEF g
  <2> QED BY <2>4
<1>3. MaxNesting \in S
  <2> HIDE DEF S
  <2> QED BY <1>1, <1>2, LevelInduction
<1>4. PICK f : Upto(f, MaxNesting)
  BY <1>3
<1>5. Upto(CHOOSE f1 : Upto(f1, MaxNesting), MaxNesting)
  <2> HIDE DEF Upto
  <2> QED BY <1>4
<1> QED BY <1>5 DEF Canonical

(* The same for values whose maps are in order.                            *)
LEMMA SortedLevels ==
  Sorted = [d \in 0..MaxNesting |-> SortedOver(IF d = 0 THEN {} ELSE Sorted[d - 1])]
<1> DEFINE Upto(f, n) == f = [d \in 0..n |-> SortedOver(IF d = 0 THEN {} ELSE f[d - 1])]
           S == {n \in 0..MaxNesting : \E f : Upto(f, n)}
<1>1. 0 \in S
  <2>1. Upto([d \in 0..0 |-> SortedOver({})], 0)
    BY DEF Below
  <2> HIDE DEF Upto
  <2> QED BY <2>1
<1>2. ASSUME NEW n \in 1..MaxNesting, n - 1 \in S PROVE n \in S
  <2>1. PICK f : Upto(f, n - 1)
    BY <1>2
  <2> DEFINE g == [d \in 0..n |-> SortedOver(IF d = 0 THEN {} ELSE f[d - 1])]
  <2>2. ASSUME NEW d \in 0..n, d # 0 PROVE g[d - 1] = f[d - 1]
    <3>1. d - 1 \in 0..n - 1 /\ d - 1 \in 0..n
      BY <2>2
    <3> QED BY <2>1, <3>1
  <2> HIDE DEF Upto
  <2>3. g = [d \in 0..n |-> SortedOver(IF d = 0 THEN {} ELSE g[d - 1])]
    <3>1. ASSUME NEW d \in 0..n PROVE SortedOver(IF d = 0 THEN {} ELSE f[d - 1]) = SortedOver(IF d = 0 THEN {} ELSE g[d - 1])
      <4>1. CASE d = 0
        BY <4>1 DEF Below
      <4>2. CASE d # 0
        <5> HIDE DEF g
        <5> QED BY <2>2, <4>2 DEF Below
      <4> QED BY <4>1, <4>2
    <3> QED BY <3>1
  <2>4. Upto(g, n)
    BY <2>3 DEF Upto
  <2> HIDE DEF g
  <2> QED BY <2>4
<1>3. MaxNesting \in S
  <2> HIDE DEF S
  <2> QED BY <1>1, <1>2, LevelInduction
<1>4. PICK f : Upto(f, MaxNesting)
  BY <1>3
<1>5. Upto(CHOOSE f1 : Upto(f1, MaxNesting), MaxNesting)
  <2> HIDE DEF Upto
  <2> QED BY <1>4
<1> QED BY <1>5 DEF Sorted

(* encode_value at one level calls itself one level down.                  *)
LEMMA EncoderLevels ==
  encode_value = [d \in 0..MaxNesting |-> Encoder(Below(encode_value, d), d)]
<1> DEFINE Upto(f, n) == f = [d \in 0..n |-> Encoder(Below(f, d), d)]
           S == {n \in 0..MaxNesting : \E f : Upto(f, n)}
<1>1. 0 \in S
  <2>1. Upto([d \in 0..0 |-> Encoder(<<>>, d)], 0)
    BY DEF Below
  <2> HIDE DEF Upto
  <2> QED BY <2>1
<1>2. ASSUME NEW n \in 1..MaxNesting, n - 1 \in S PROVE n \in S
  <2>1. PICK f : Upto(f, n - 1)
    BY <1>2
  <2> DEFINE g == [d \in 0..n |-> Encoder(Below(f, d), d)]
  <2>2. ASSUME NEW d \in 0..n, d # 0 PROVE g[d - 1] = f[d - 1]
    <3>1. d - 1 \in 0..n - 1 /\ d - 1 \in 0..n
      BY <2>2
    <3> QED BY <2>1, <3>1
  <2> HIDE DEF Upto
  <2>3. g = [d \in 0..n |-> Encoder(Below(g, d), d)]
    <3>1. ASSUME NEW d \in 0..n PROVE Encoder(Below(f, d), d) = Encoder(Below(g, d), d)
      <4>1. CASE d = 0
        BY <4>1 DEF Below
      <4>2. CASE d # 0
        <5> HIDE DEF g
        <5> QED BY <2>2, <4>2 DEF Below
      <4> QED BY <4>1, <4>2
    <3> QED BY <3>1
  <2>4. Upto(g, n)
    BY <2>3 DEF Upto
  <2> HIDE DEF g
  <2> QED BY <2>4
<1>3. MaxNesting \in S
  <2> HIDE DEF S
  <2> QED BY <1>1, <1>2, LevelInduction
<1>4. PICK f : Upto(f, MaxNesting)
  BY <1>3
<1>5. Upto(CHOOSE f1 : Upto(f1, MaxNesting), MaxNesting)
  <2> HIDE DEF Upto
  <2> QED BY <1>4
<1> QED BY <1>5 DEF encode_value

(* So does decode_any_value_depth.                                         *)
LEMMA ReaderLevels ==
  decode_any_value_depth = [d \in 0..MaxNesting |-> ValueReader(Below(decode_any_value_depth, d), d)]
<1> DEFINE Upto(f, n) == f = [d \in 0..n |-> ValueReader(Below(f, d), d)]
           S == {n \in 0..MaxNesting : \E f : Upto(f, n)}
<1>1. 0 \in S
  <2>1. Upto([d \in 0..0 |-> ValueReader(<<>>, d)], 0)
    BY DEF Below
  <2> HIDE DEF Upto
  <2> QED BY <2>1
<1>2. ASSUME NEW n \in 1..MaxNesting, n - 1 \in S PROVE n \in S
  <2>1. PICK f : Upto(f, n - 1)
    BY <1>2
  <2> DEFINE g == [d \in 0..n |-> ValueReader(Below(f, d), d)]
  <2>2. ASSUME NEW d \in 0..n, d # 0 PROVE g[d - 1] = f[d - 1]
    <3>1. d - 1 \in 0..n - 1 /\ d - 1 \in 0..n
      BY <2>2
    <3> QED BY <2>1, <3>1
  <2> HIDE DEF Upto
  <2>3. g = [d \in 0..n |-> ValueReader(Below(g, d), d)]
    <3>1. ASSUME NEW d \in 0..n PROVE ValueReader(Below(f, d), d) = ValueReader(Below(g, d), d)
      <4>1. CASE d = 0
        BY <4>1 DEF Below
      <4>2. CASE d # 0
        <5> HIDE DEF g
        <5> QED BY <2>2, <4>2 DEF Below
      <4> QED BY <4>1, <4>2
    <3> QED BY <3>1
  <2>4. Upto(g, n)
    BY <2>3 DEF Upto
  <2> HIDE DEF g
  <2> QED BY <2>4
<1>3. MaxNesting \in S
  <2> HIDE DEF S
  <2> QED BY <1>1, <1>2, LevelInduction
<1>4. PICK f : Upto(f, MaxNesting)
  BY <1>3
<1>5. Upto(CHOOSE f1 : Upto(f1, MaxNesting), MaxNesting)
  <2> HIDE DEF Upto
  <2> QED BY <1>4
<1> QED BY <1>5 DEF decode_any_value_depth

(* And so does what fits the decoder.                                      *)
LEMMA FitsLevels ==
  Fits = [d \in 0..MaxNesting |-> FitsOver(Below(Fits, d), d)]
<1> DEFINE Upto(f, n) == f = [d \in 0..n |-> FitsOver(Below(f, d), d)]
           S == {n \in 0..MaxNesting : \E f : Upto(f, n)}
<1>1. 0 \in S
  <2>1. Upto([d \in 0..0 |-> FitsOver(<<>>, d)], 0)
    BY DEF Below
  <2> HIDE DEF Upto
  <2> QED BY <2>1
<1>2. ASSUME NEW n \in 1..MaxNesting, n - 1 \in S PROVE n \in S
  <2>1. PICK f : Upto(f, n - 1)
    BY <1>2
  <2> DEFINE g == [d \in 0..n |-> FitsOver(Below(f, d), d)]
  <2>2. ASSUME NEW d \in 0..n, d # 0 PROVE g[d - 1] = f[d - 1]
    <3>1. d - 1 \in 0..n - 1 /\ d - 1 \in 0..n
      BY <2>2
    <3> QED BY <2>1, <3>1
  <2> HIDE DEF Upto
  <2>3. g = [d \in 0..n |-> FitsOver(Below(g, d), d)]
    <3>1. ASSUME NEW d \in 0..n PROVE FitsOver(Below(f, d), d) = FitsOver(Below(g, d), d)
      <4>1. CASE d = 0
        BY <4>1 DEF Below
      <4>2. CASE d # 0
        <5> HIDE DEF g
        <5> QED BY <2>2, <4>2 DEF Below
      <4> QED BY <4>1, <4>2
    <3> QED BY <3>1
  <2>4. Upto(g, n)
    BY <2>3 DEF Upto
  <2> HIDE DEF g
  <2> QED BY <2>4
<1>3. MaxNesting \in S
  <2> HIDE DEF S
  <2> QED BY <1>1, <1>2, LevelInduction
<1>4. PICK f : Upto(f, MaxNesting)
  BY <1>3
<1>5. Upto(CHOOSE f1 : Upto(f1, MaxNesting), MaxNesting)
  <2> HIDE DEF Upto
  <2> QED BY <1>4
<1> QED BY <1>5 DEF Fits

-----------------------------------------------------------------------------
(* Sorting *)

(* before gives the members before each member in a strict total order.    *)
TotalOrder(S, before) ==
  /\ before \in [S -> SUBSET S]
  /\ \A x \in S : x \notin before[x]
  /\ \A x, y \in S : x = y \/ x \in before[y] \/ y \in before[x]
  /\ \A x, y \in S : x \in before[y] => before[x] \subseteq before[y]

(* r lists S in that order, each member once.                              *)
Lists(r, S, before) ==
  /\ r \in [1..Cardinality(S) -> S]
  /\ \A i, j \in 1..Cardinality(S) : i < j => r[i] \in before[r[j]]
  /\ \A x \in S : \E k \in 1..Cardinality(S) : r[k] = x
  /\ \A k \in 1..Cardinality(S) : Cardinality(before[r[k]]) = k - 1

LEMMA FirstNumbers ==
  ASSUME NEW n \in Nat
  PROVE  IsFiniteSet(1..n) /\ Cardinality(1..n) = n
BY FS_Interval

(* Ranked lists each member of a finite, totally ordered set once, in      *)
(* order.                                                                  *)
LEMMA RankedLists ==
  ASSUME NEW S, IsFiniteSet(S), NEW before, TotalOrder(S, before)
  PROVE  Lists(Ranked(before), S, before)
<1> DEFINE n == Cardinality(S)
           rank == [x \in S |-> Cardinality(before[x]) + 1]
           r == Ranked(before)
<1>1. n \in Nat
  BY FS_CardinalityType
<1>2. ASSUME NEW x \in S PROVE IsFiniteSet(before[x]) /\ Cardinality(before[x]) \in 0..n - 1
  <2>1. before[x] \in SUBSET (S \ {x})
    BY DEF TotalOrder
  <2>2. IsFiniteSet(S \ {x}) /\ Cardinality(S \ {x}) = n - 1
    BY FS_RemoveElement
  <2>3. IsFiniteSet(before[x]) /\ Cardinality(before[x]) <= n - 1
    BY <2>1, <2>2, FS_Subset
  <2>4. Cardinality(before[x]) \in Nat
    BY <2>3, FS_CardinalityType
  <2> HIDE DEF n
  <2> QED BY <1>1, <2>3, <2>4
<1>3. ASSUME NEW x \in S, NEW y \in S, x \in before[y] PROVE rank[x] < rank[y]
  <2>1. before[x] \in SUBSET before[y] /\ before[x] # before[y]
    BY <1>3 DEF TotalOrder
  <2>2. Cardinality(before[x]) <= Cardinality(before[y]) /\ Cardinality(before[x]) # Cardinality(before[y])
    BY <1>2, <2>1, FS_Subset
  <2>3. Cardinality(before[x]) \in Nat /\ Cardinality(before[y]) \in Nat
    BY <1>2
  <2> QED BY <2>2, <2>3
<1>4. rank \in [S -> 1..n]
  <2>1. ASSUME NEW x \in S PROVE Cardinality(before[x]) + 1 \in 1..n
    <3> HIDE DEF n
    <3> QED BY <1>1, <1>2
  <2> QED BY <2>1
<1>5. \A x, y \in S : rank[x] = rank[y] => x = y
  <2>1. \A x \in S : rank[x] \in Nat
    BY <1>1, <1>4
  <2> HIDE DEF rank
  <2> SUFFICES ASSUME NEW x \in S, NEW y \in S, rank[x] = rank[y], x # y PROVE FALSE
    OBVIOUS
  <2>2. x \in before[y] \/ y \in before[x]
    BY DEF TotalOrder
  <2> QED BY <1>3, <2>1, <2>2
<1>6. \A k \in 1..n : \E x \in S : rank[x] = k
  <2>1. IsFiniteSet(1..n) /\ Cardinality(1..n) = n
    BY <1>1, FirstNumbers
  <2>2. rank \in Injection(S, 1..n)
    BY <1>4, <1>5 DEF Injection, IsInjective
  <2>3. rank \in Surjection(S, 1..n)
    <3> HIDE DEF rank
    <3> QED BY <2>1, <2>2, FS_Injection
  <2> QED BY <2>3 DEF Surjection
<1>7. DOMAIN before = S
  BY DEF TotalOrder
<1>8. ASSUME NEW k \in 1..n
      PROVE  r[k] \in S /\ rank[r[k]] = k /\ Cardinality(before[r[k]]) = k - 1
  <2>1. PICK x \in S : rank[x] = k
    BY <1>6
  <2>2. Cardinality(before[x]) = k - 1
    BY <1>1, <1>2, <2>1
  <2>3. r[k] = CHOOSE y \in S : Cardinality(before[y]) = k - 1
    BY <1>7 DEF Ranked
  <2>4. r[k] \in S /\ Cardinality(before[r[k]]) = k - 1
    <3> HIDE DEF r
    <3> QED BY <2>2, <2>3
  <2> HIDE DEF r, n
  <2> QED BY <1>1, <2>4
<1>9. r \in [1..n -> S]
  BY <1>7, <1>8 DEF Ranked
<1> HIDE DEF rank, r, n
<1>10. \A i, j \in 1..n : i < j => r[i] \in before[r[j]]
  <2> SUFFICES ASSUME NEW i \in 1..n, NEW j \in 1..n, i < j, r[i] \notin before[r[j]] PROVE FALSE
    OBVIOUS
  <2>1. r[i] \in S /\ r[j] \in S /\ rank[r[i]] = i /\ rank[r[j]] = j
    BY <1>8
  <2>2. r[i] = r[j] \/ r[j] \in before[r[i]]
    BY <2>1 DEF TotalOrder
  <2>3. ~(j < i) /\ i # j
    BY <1>1
  <2> QED BY <1>3, <2>1, <2>2, <2>3
<1>11. \A x \in S : \E k \in 1..n : r[k] = x
  BY <1>4, <1>5, <1>8
<1> QED BY <1>8, <1>9, <1>10, <1>11 DEF Lists, n, r

(* The order sort_by_key puts the positions of ps in.                      *)
KeyOrder(ps) ==
  [j \in DOMAIN ps |-> {i \in DOMAIN ps :
     ps[i][1] < ps[j][1] \/ (ps[i][1] = ps[j][1] /\ i < j)}]
Places(ps) == Ranked(KeyOrder(ps))

(* sort_by_key permutes, leaves the keys in order, and does nothing when   *)
(* they are in order.                                                      *)
IsSort(qs, ps, T) ==
  /\ qs \in Seq(Nat \X T) /\ Len(qs) = Len(ps)
  /\ Places(ps) \in [1..Len(ps) -> 1..Len(ps)]
  /\ \A i, j \in 1..Len(ps) : i < j => Places(ps)[i] # Places(ps)[j]
  /\ \A i \in 1..Len(ps) : \E k \in 1..Len(ps) : Places(ps)[k] = i
  /\ qs = [k \in 1..Len(ps) |-> ps[Places(ps)[k]]]
  /\ InOrder(qs)
  /\ InOrder(ps) => qs = ps

(* sort_by_key gives the same entries in order, and leaves ordered ones    *)
(* alone.                                                                  *)
LEMMA SortSorts ==
  ASSUME NEW T, NEW ps \in Seq(Nat \X T)
  PROVE  IsSort(SortedByKey(ps), ps, T)
<1> DEFINE n == Len(ps)
           S == 1..n
           before == KeyOrder(ps)
           r == Places(ps)
           qs == SortedByKey(ps)
<1>1. n \in Nat /\ DOMAIN ps = S /\ \A i \in S : ps[i] \in Nat \X T /\ ps[i][1] \in Nat
  OBVIOUS
<1>2. IsFiniteSet(S) /\ Cardinality(S) = n
  <2> HIDE DEF n
  <2> QED BY <1>1, FirstNumbers
<1>3. ASSUME NEW i \in S, NEW j \in S
      PROVE  i \in before[j] <=> ps[i][1] < ps[j][1] \/ (ps[i][1] = ps[j][1] /\ i < j)
  BY <1>1 DEF KeyOrder
<1>4. before \in [S -> SUBSET S]
  BY <1>1 DEF KeyOrder
<1> HIDE DEF S, before, n
<1>5. S \subseteq Nat
  BY <1>1 DEF S
<1>6. \A x \in S : x \notin before[x]
  BY <1>1, <1>3, <1>5
<1>7. \A x, y \in S : x = y \/ x \in before[y] \/ y \in before[x]
  <2> SUFFICES ASSUME NEW x \in S, NEW y \in S
               PROVE  x = y \/ x \in before[y] \/ y \in before[x]
    OBVIOUS
  <2>1. ps[x][1] \in Nat /\ ps[y][1] \in Nat /\ x \in Nat /\ y \in Nat
    BY <1>1, <1>5
  <2>2. x = y \/ (ps[x][1] < ps[y][1] \/ (ps[x][1] = ps[y][1] /\ x < y))
          \/ (ps[y][1] < ps[x][1] \/ (ps[y][1] = ps[x][1] /\ y < x))
    BY <2>1
  <2> QED BY <1>3, <2>2
<1>8. \A x, y \in S : x \in before[y] => before[x] \subseteq before[y]
  <2> SUFFICES ASSUME NEW x \in S, NEW y \in S, NEW z \in S, x \in before[y], z \in before[x]
               PROVE  z \in before[y]
    BY <1>4
  <2>1. /\ ps[x][1] \in Nat /\ ps[y][1] \in Nat /\ ps[z][1] \in Nat
        /\ x \in Nat /\ y \in Nat /\ z \in Nat
    BY <1>1, <1>5
  <2>2. /\ ps[x][1] < ps[y][1] \/ (ps[x][1] = ps[y][1] /\ x < y)
        /\ ps[z][1] < ps[x][1] \/ (ps[z][1] = ps[x][1] /\ z < x)
    BY <1>3
  <2>3. ps[z][1] < ps[y][1] \/ (ps[z][1] = ps[y][1] /\ z < y)
    BY <2>1, <2>2
  <2> QED BY <1>3, <2>3
<1>9. TotalOrder(S, before)
  BY <1>4, <1>6, <1>7, <1>8 DEF TotalOrder
<1>10. Lists(r, S, before)
  BY <1>2, <1>9, RankedLists DEF Places, before
<1>11. /\ r \in [S -> S]
       /\ \A i, j \in S : i < j => r[i] \in before[r[j]]
       /\ \A x \in S : \E k \in S : r[k] = x
       /\ \A k \in S : Cardinality(before[r[k]]) = k - 1
  BY <1>2, <1>10 DEF Lists, S
<1>12. \A i, j \in S : i < j => r[i] # r[j]
  BY <1>6, <1>11
<1>13. qs = [k \in S |-> ps[r[k]]]
  BY <1>1 DEF SortedByKey, Places, KeyOrder
<1> HIDE DEF r, qs
<1>14. \A k \in S : qs[k] \in Nat \X T /\ qs[k] = ps[r[k]]
  BY <1>1, <1>11, <1>13
<1>15. qs \in Seq(Nat \X T) /\ Len(qs) = n /\ DOMAIN qs = S
  BY <1>1, <1>13, <1>14 DEF S
<1>16. InOrder(qs)
  <2> SUFFICES ASSUME NEW j \in S, NEW k \in S, j < k PROVE qs[j][1] <= qs[k][1]
    BY <1>15 DEF InOrder
  <2>1. r[j] \in S /\ r[k] \in S /\ r[j] \in before[r[k]]
    BY <1>11
  <2>2. ps[r[j]][1] \in Nat /\ ps[r[k]][1] \in Nat
    BY <1>1, <2>1
  <2>3. ps[r[j]][1] < ps[r[k]][1] \/ ps[r[j]][1] = ps[r[k]][1]
    BY <1>3, <2>1
  <2>4. ps[r[j]][1] <= ps[r[k]][1]
    BY <2>2, <2>3
  <2> QED BY <1>14, <2>4
<1>17. ASSUME InOrder(ps) PROVE qs = ps
  <2>1. \A i, j \in S : i < j => i \in before[j]
    <3> SUFFICES ASSUME NEW i \in S, NEW j \in S, i < j PROVE i \in before[j]
      OBVIOUS
    <3>1. ps[i][1] <= ps[j][1] /\ ps[i][1] \in Nat /\ ps[j][1] \in Nat
      BY <1>1, <1>17 DEF InOrder
    <3>2. ps[i][1] < ps[j][1] \/ ps[i][1] = ps[j][1]
      BY <3>1
    <3> QED BY <1>3, <3>2
  <2>2. \A i, j \in S : i \in before[j] => i < j
    <3> SUFFICES ASSUME NEW i \in S, NEW j \in S, i \in before[j], ~(i < j) PROVE FALSE
      OBVIOUS
    <3>1. i = j \/ j < i
      BY <1>5
    <3>2. i \in before[i]
      BY <1>8, <2>1, <3>1
    <3> QED BY <1>6, <3>2
  <2>3. \A j \in S : Cardinality(before[j]) = j - 1
    <3> SUFFICES ASSUME NEW j \in S PROVE Cardinality(before[j]) = j - 1
      OBVIOUS
    <3>1. before[j] = {i \in S : i < j}
      BY <1>4, <2>1, <2>2
    <3>2. {i \in S : i < j} = 1..j - 1 /\ j - 1 \in Nat
      BY <1>1 DEF S
    <3>3. Cardinality(1..j - 1) = j - 1
      BY <3>2, FirstNumbers
    <3> QED BY <3>1, <3>2, <3>3
  <2>4. \A k \in S : r[k] = k
    <3> SUFFICES ASSUME NEW k \in S PROVE r[k] = k
      OBVIOUS
    <3>1. r[k] \in S /\ r[k] - 1 = k - 1
      BY <1>11, <2>3
    <3>2. \A a, b \in Nat : a - 1 = b - 1 => a = b
      OBVIOUS
    <3>3. r[k] \in Nat /\ k \in Nat
      BY <1>5, <3>1
    <3> QED BY <3>1, <3>2, <3>3
  <2> QED BY <1>1, <1>13, <2>4
<1> QED BY <1>11, <1>12, <1>13, <1>15, <1>16, <1>17 DEF IsSort, S, n, r, qs

-----------------------------------------------------------------------------
(* Types of the encoder and the decoder *)

(* What holds of a level when it holds of the one below holds of all.      *)
LEMMA Levelwise ==
  ASSUME NEW S, \A d \in 0..MaxNesting : (d = 0 \/ d - 1 \in S) => d \in S
  PROVE  \A d \in 0..MaxNesting : d \in S
<1>1. 0 \in S /\ \A d \in 1..MaxNesting : d - 1 \in S => d \in S
  OBVIOUS
<1> QED BY <1>1, LevelInduction

ValuesBelow(d) == IF d = 0 THEN {} ELSE Value[d - 1]
ItemsBelow(d) == IF d = 0 THEN {} ELSE ItemTree[d - 1]

(* All of them at one level, as they are cited from here on.               *)
LEMMA AtLevel ==
  ASSUME NEW d \in 0..MaxNesting
  PROVE  /\ Value[d] = ValueOver(ValuesBelow(d))
         /\ ItemTree[d] = ItemOver(ItemsBelow(d))
         /\ encode_value[d] = Encoder(Below(encode_value, d), d)
         /\ decode_any_value_depth[d] = ValueReader(Below(decode_any_value_depth, d), d)
         /\ Fits[d] = FitsOver(Below(Fits, d), d)
         /\ Canonical[d] = CanonicalOver(IF d = 0 THEN {} ELSE Canonical[d - 1])
         /\ Sorted[d] = SortedOver(IF d = 0 THEN {} ELSE Sorted[d - 1])
<1>1. Value[d] = ValueOver(ValuesBelow(d))
  BY ValueLevels DEF ValuesBelow
<1>2. ItemTree[d] = ItemOver(ItemsBelow(d))
  BY ItemLevels DEF ItemsBelow
<1>3. encode_value[d] = Encoder(Below(encode_value, d), d)
  BY EncoderLevels
<1>4. decode_any_value_depth[d] = ValueReader(Below(decode_any_value_depth, d), d)
  BY ReaderLevels
<1>5. Fits[d] = FitsOver(Below(Fits, d), d)
  BY FitsLevels
<1>6. Canonical[d] = CanonicalOver(IF d = 0 THEN {} ELSE Canonical[d - 1])
  BY CanonicalLevels
<1>7. Sorted[d] = SortedOver(IF d = 0 THEN {} ELSE Sorted[d - 1])
  BY SortedLevels
<1> QED BY <1>1, <1>2, <1>3, <1>4, <1>5, <1>6, <1>7

(* What a value over S can be.                                             *)
LEMMA ValueShape ==
  ASSUME NEW S, NEW v \in ValueOver(S)
  PROVE  /\ v = <<Type(v), Content(v)>>
         /\ \/ Type(v) = "uint" /\ Content(v) \in Nat
            \/ Type(v) = "bstr" /\ Content(v) \in Bytes
            \/ Type(v) = "map" /\ Content(v) \in Seq(Nat \X S)
            \/ Type(v) = "array" /\ Content(v) \in Seq(S)
<1>1. CASE v \in {"uint"} \X Nat
  BY <1>1 DEF Type, Content
<1>2. CASE v \in {"bstr"} \X Bytes
  BY <1>2 DEF Type, Content
<1>3. CASE v \in {"map"} \X Seq(Nat \X S)
  <2> DEFINE Q == Seq(Nat \X S)
  <2>1. v \in {"map"} \X Q
    BY <1>3
  <2> HIDE DEF Q
  <2>2. v = <<Type(v), Content(v)>> /\ Type(v) = "map" /\ Content(v) \in Q
    BY <2>1 DEF Type, Content
  <2> QED BY <2>2 DEF Q
<1>4. CASE v \in {"array"} \X Seq(S)
  <2> DEFINE Q == Seq(S)
  <2>1. v \in {"array"} \X Q
    BY <1>4
  <2> HIDE DEF Q
  <2>2. v = <<Type(v), Content(v)>> /\ Type(v) = "array" /\ Content(v) \in Q
    BY <2>1 DEF Type, Content
  <2> QED BY <2>2 DEF Q
<1> QED BY <1>1, <1>2, <1>3, <1>4 DEF ValueOver

(* What an item over S can be; only the first three kinds are ever decoded.*)
LEMMA ItemShape ==
  ASSUME NEW S, NEW i \in ItemOver(S)
  PROVE  \/ Type(i) = "uint" /\ Content(i) \in Nat
         \/ Type(i) = "bstr" /\ Content(i) \in Bytes
         \/ Type(i) = "map" /\ Content(i) \in Seq(S \X S)
         \/ Type(i) \in {"array", "text", "simple", "other"}
<1>1. CASE i \in {"uint"} \X Nat \X Widths
  BY <1>1 DEF Type, Content
<1>2. CASE i \in {"bstr"} \X Bytes \X Widths
  BY <1>2 DEF Type, Content
<1>3. CASE i \in {"map"} \X Seq(S \X S) \X Widths
  <2> DEFINE Q == Seq(S \X S)
  <2>1. i \in {"map"} \X Q \X Widths
    BY <1>3
  <2> HIDE DEF Q
  <2>2. Type(i) = "map" /\ Content(i) \in Q
    BY <2>1 DEF Type, Content
  <2> QED BY <2>2 DEF Q
<1>4. CASE i \in {"array"} \X Seq(S) \X Widths
  <2> DEFINE Q == Seq(S)
  <2>1. i \in {"array"} \X Q \X Widths
    BY <1>4
  <2> HIDE DEF Q
  <2> QED BY <2>1 DEF Type
<1>5. CASE i \in {Text, Simple, Other}
  BY <1>5 DEF Type, Text, Simple, Other
<1> QED BY <1>1, <1>2, <1>3, <1>4, <1>5 DEF ItemOver

(* Short heads make items of any level.                                    *)
LEMMA ShortItems ==
  ASSUME NEW S
  PROVE  /\ \A n \in Nat : Short(Uint(n)) \in ItemOver(S)
         /\ \A b \in Bytes : Short(Bstr(b)) \in ItemOver(S)
         /\ \A ps \in Seq(S \X S) : Short(Map(ps)) \in ItemOver(S)
         /\ \A s \in Seq(S) : Short(Array(s)) \in ItemOver(S)
<1> USE DEF Short, Item, Type, Content, Widths
<1>1. \A n \in Nat : Short(Uint(n)) \in {"uint"} \X Nat \X Widths
  BY DEF Uint
<1>2. \A b \in Bytes : Short(Bstr(b)) \in {"bstr"} \X Bytes \X Widths
  BY DEF Bstr
<1>3. \A ps \in Seq(S \X S) : Short(Map(ps)) \in {"map"} \X Seq(S \X S) \X Widths
  <2> DEFINE Q == Seq(S \X S)
  <2> HIDE DEF Q
  <2>1. \A ps \in Q : Short(Map(ps)) \in {"map"} \X Q \X Widths
    BY DEF Map
  <2> QED BY <2>1 DEF Q
<1>4. \A s \in Seq(S) : Short(Array(s)) \in {"array"} \X Seq(S) \X Widths
  <2> DEFINE Q == Seq(S)
  <2> HIDE DEF Q
  <2>1. \A s \in Q : Short(Array(s)) \in {"array"} \X Q \X Widths
    BY DEF Array
  <2> QED BY <2>1 DEF Q
<1> HIDE DEF Short, Item, Type, Content, Widths
<1> QED BY <1>1, <1>2, <1>3, <1>4 DEF ItemOver

(* The entries of a map, encoded by a function from V to S.                *)
LEMMA EntriesEncoded ==
  ASSUME NEW S, NEW V, NEW inner, NEW ps \in Seq(Nat \X V),
         \A v \in V : inner[v] \in S /\ \A n \in Nat : Short(Uint(n)) \in S
  PROVE  encode_entries(inner, ps) \in ItemOver(S)
<1> DEFINE es == [j \in DOMAIN ps |-> <<Short(Uint(ps[j][1])), inner[ps[j][2]]>>]
<1>1. DOMAIN ps = 1..Len(ps) /\ Len(ps) \in Nat
      /\ \A j \in DOMAIN ps : ps[j][1] \in Nat /\ ps[j][2] \in V
  OBVIOUS
<1>2. ASSUME NEW j \in DOMAIN ps PROVE es[j] \in S \X S
  BY <1>1
<1>3. es \in Seq(S \X S)
  BY <1>1, <1>2
<1> HIDE DEF es
<1>4. Short(Map(es)) \in ItemOver(S)
  BY <1>3, ShortItems
<1> QED BY <1>4 DEF encode_entries, es

(* The three ways in which a level of encode_value encodes.                *)
LEMMA EncodeCases ==
  ASSUME NEW d \in 0..MaxNesting, NEW v \in Value[d]
  PROVE  /\ Type(v) \in {"uint", "bstr"} => encode_value[d][v] = Short(v)
         /\ Type(v) = "map" => encode_value[d][v] =
              encode_entries(Below(encode_value, d), SortedByKey(Content(v)))
         /\ Type(v) = "array" => encode_value[d][v] =
              Short(Array([j \in DOMAIN Content(v) |-> Below(encode_value, d)[Content(v)[j]]]))
<1> DEFINE inner == Below(encode_value, d)
<1>1. encode_value[d] = Encoder(inner, d)
  BY AtLevel
<1> HIDE DEF inner
<1>2. Type(v) \in {"uint", "bstr"} => encode_value[d][v] = Short(v)
  BY <1>1 DEF Encoder
<1>3. Type(v) = "map" => encode_value[d][v] = encode_entries(inner, SortedByKey(Content(v)))
  BY <1>1 DEF Encoder
<1>4. Type(v) = "array" => encode_value[d][v] =
        Short(Array([j \in DOMAIN Content(v) |-> inner[Content(v)[j]]]))
  BY <1>1 DEF Encoder
<1> QED BY <1>2, <1>3, <1>4 DEF inner

(* Every value is encoded as CBOR that nests no deeper than it does.       *)
LEMMA EncoderTyped ==
  \A d \in 0..MaxNesting : \A v \in Value[d] : encode_value[d][v] \in ItemTree[d]
<1> DEFINE T == {d \in 0..MaxNesting : \A v \in Value[d] : encode_value[d][v] \in ItemTree[d]}
<1>1. ASSUME NEW d \in 0..MaxNesting, d = 0 \/ d - 1 \in T PROVE d \in T
  <2> DEFINE S == ItemsBelow(d)
             V == ValuesBelow(d)
             inner == Below(encode_value, d)
  <2>1. \A v \in V : inner[v] \in S
    BY <1>1 DEF ItemsBelow, ValuesBelow, Below
  <2>2. ASSUME NEW v \in V, NEW n \in Nat PROVE Short(Uint(n)) \in S
    <3>1. d # 0 /\ d - 1 \in 0..MaxNesting
      BY <2>2 DEF ValuesBelow
    <3>2. S = ItemOver(ItemsBelow(d - 1))
      BY <3>1, AtLevel DEF ItemsBelow
    <3> QED BY <3>2, ShortItems
  <2>3. Value[d] = ValueOver(V) /\ ItemTree[d] = ItemOver(S)
    BY AtLevel
  <2> SUFFICES ASSUME NEW v \in Value[d] PROVE encode_value[d][v] \in ItemTree[d]
    OBVIOUS
  <2> HIDE DEF S, V
  <2>4. v = <<Type(v), Content(v)>>
    BY <2>3, ValueShape
  <2>5. CASE Type(v) = "uint" /\ Content(v) \in Nat
    <3>1. v = Uint(Content(v)) /\ encode_value[d][v] = Short(v)
      BY <2>4, <2>5, EncodeCases DEF Uint
    <3> QED BY <2>3, <2>5, <3>1, ShortItems
  <2>6. CASE Type(v) = "bstr" /\ Content(v) \in Bytes
    <3>1. v = Bstr(Content(v)) /\ encode_value[d][v] = Short(v)
      BY <2>4, <2>6, EncodeCases DEF Bstr
    <3> QED BY <2>3, <2>6, <3>1, ShortItems
  <2>7. CASE Type(v) = "map" /\ Content(v) \in Seq(Nat \X V)
    <3>1. encode_value[d][v] = encode_entries(inner, SortedByKey(Content(v)))
      BY <2>7, EncodeCases
    <3>2. SortedByKey(Content(v)) \in Seq(Nat \X V)
      BY <2>7, SortSorts DEF IsSort
    <3> HIDE DEF inner
    <3>3. encode_entries(inner, SortedByKey(Content(v))) \in ItemOver(S)
      BY <2>1, <2>2, <3>2, EntriesEncoded
    <3> QED BY <2>3, <3>1, <3>3
  <2>8. CASE Type(v) = "array" /\ Content(v) \in Seq(V)
    <3> DEFINE s == [j \in DOMAIN Content(v) |-> inner[Content(v)[j]]]
    <3>1. encode_value[d][v] = Short(Array(s))
      BY <2>8, EncodeCases
    <3> HIDE DEF inner
    <3>2. s \in Seq(S)
      BY <2>1, <2>8
    <3> HIDE DEF s
    <3> QED BY <2>3, <3>1, <3>2, ShortItems
  <2> QED BY <2>3, <2>5, <2>6, <2>7, <2>8, ValueShape
<1>2. \A d \in 0..MaxNesting : d \in T
  <2> HIDE DEF T
  <2> QED BY <1>1, Levelwise
<1> QED BY <1>2

-----------------------------------------------------------------------------
(* What the decoder gives back *)

(* A value is its type and its content, and never the error.               *)
LEMMA NotError ==
  /\ \A n : Uint(n) # Error /\ Type(Uint(n)) = "uint" /\ Content(Uint(n)) = n
  /\ \A b : Bstr(b) # Error /\ Type(Bstr(b)) = "bstr" /\ Content(Bstr(b)) = b
  /\ \A ps : Map(ps) # Error /\ Type(Map(ps)) = "map" /\ Content(Map(ps)) = ps
  /\ Type(Error) = "error"
<1>1. Type(Error) = "error"
  BY DEF Error, Type
<1>2. \A n : Type(Uint(n)) = "uint" /\ Content(Uint(n)) = n
  BY DEF Uint, Type, Content
<1>3. \A b : Type(Bstr(b)) = "bstr" /\ Content(Bstr(b)) = b
  BY DEF Bstr, Type, Content
<1>4. \A ps : Type(Map(ps)) = "map" /\ Content(Map(ps)) = ps
  BY DEF Map, Type, Content
<1> QED BY <1>1, <1>2, <1>3, <1>4

(* What the head readers give back when they do not fail.                  *)
LEMMA HeadsRead ==
  ASSUME NEW S, NEW i \in ItemOver(S)
  PROVE  /\ decode_uint(i) # Error => decode_uint(i) = Uint(Content(i)) /\ Content(i) \in Nat
         /\ decode_bstr(i) # Error => decode_bstr(i) = Bstr(Content(i)) /\ Content(i) \in Bytes
         /\ map_items(i) # Error =>
              Type(i) = "map" /\ Content(i) \in Seq(S \X S) /\ Len(Content(i)) <= MaxEntries
<1> DEFINE Q == Seq(S \X S)
<1>1. \/ Type(i) = "uint" /\ Content(i) \in Nat
      \/ Type(i) = "bstr" /\ Content(i) \in Bytes
      \/ Type(i) = "map" /\ Content(i) \in Q
      \/ Type(i) \in {"array", "text", "simple", "other"}
  BY ItemShape
<1> HIDE DEF Q
<1>2. decode_uint(i) # Error => decode_uint(i) = Uint(Content(i)) /\ Type(i) = "uint"
  BY DEF decode_uint, decode_head, Uint
<1>3. decode_bstr(i) # Error => decode_bstr(i) = Bstr(Content(i)) /\ Type(i) = "bstr"
  BY DEF decode_bstr, decode_head, Bstr
<1>4. map_items(i) # Error => Type(i) = "map" /\ Len(Content(i)) <= MaxEntries
  <2>1. Content(<<"map", Content(i)>>) = Content(i)
    BY DEF Content
  <2> QED BY <2>1 DEF map_items, decode_head, bounded_usize
<1>5. Type(i) = "map" => Content(i) \in Q
  BY <1>1
<1> QED BY <1>1, <1>2, <1>3, <1>4, <1>5 DEF Q

(* inner reads the items in S as values in V, at each depth within fits;   *)
(* some of the items are numbers.                                          *)
ReadsTo(inner, S, V, fits) ==
  /\ \A c \in S : decode_uint(c) # Error => Content(decode_uint(c)) \in Nat
  /\ \A c \in S, e \in Nat : inner[c][e] # Error => inner[c][e] \in fits[e] \cap V

(* A map that is read has read entries, few enough and not too deep.       *)
LEMMA MapRead ==
  ASSUME NEW S, NEW V, NEW inner, NEW fits, NEW i \in ItemOver(S), NEW depth \in Nat,
         ReadsTo(inner, S, V, fits),
         decode_map_value_depth(inner, i, depth) # Error
  PROVE  LET m == decode_map_value_depth(inner, i, depth)
         IN  m = Map(Content(m)) /\ Content(m) \in Seq(Nat \X V) /\ MapFits(fits, m, depth)
<1> DEFINE ps == Content(i)
           key(j) == decode_uint(ps[j][1])
           val(j) == inner[ps[j][2]][depth + 1]
           us == [j \in DOMAIN ps |-> <<Content(key(j)), val(j)>>]
           m == decode_map_value_depth(inner, i, depth)
<1>1. depth <= MaxDepth /\ map_items(i) # Error
  BY DEF decode_map_value_depth
<1>2. Type(i) = "map" /\ ps \in Seq(S \X S) /\ Len(ps) <= MaxEntries
  BY <1>1, HeadsRead
<1>3. DOMAIN ps = 1..Len(ps) /\ Len(ps) \in Nat /\ \A j \in DOMAIN ps : ps[j][1] \in S /\ ps[j][2] \in S
  BY <1>2
<1>4. (\A j \in DOMAIN ps : key(j) # Error /\ val(j) # Error) /\ m = Map(us)
  BY <1>1 DEF decode_map_value_depth
<1> HIDE DEF ps
<1>5. ASSUME NEW j \in DOMAIN ps
      PROVE  Content(key(j)) \in Nat /\ val(j) \in fits[depth + 1] /\ val(j) \in V
  <2>1. depth + 1 \in Nat
    OBVIOUS
  <2> QED BY <1>3, <1>4, <2>1 DEF ReadsTo
<1> HIDE DEF key, val
<1>6. us \in Seq(Nat \X V) /\ Len(us) = Len(ps) /\ DOMAIN us = DOMAIN ps
  BY <1>3, <1>5
<1>7. \A j \in DOMAIN us : us[j][2] \in fits[depth + 1]
  BY <1>5
<1> HIDE DEF us, m
<1>8. Content(m) = us
  BY <1>4, NotError
<1>9. MapFits(fits, m, depth)
  BY <1>1, <1>2, <1>6, <1>7, <1>8 DEF MapFits
<1> QED BY <1>4, <1>6, <1>8, <1>9 DEF m

(* What it means for a value to fit at a level and a depth.                *)
LEMMA FitsMember ==
  ASSUME NEW d \in 0..MaxNesting, NEW depth \in Nat
  PROVE  \A v : v \in Fits[d][depth] <=>
           /\ v \in Value[d] /\ depth <= MaxDepth /\ Type(v) # "array"
           /\ Type(v) = "map" => MapFits(Below(Fits, d), v, depth + 1)
<1>1. Fits[d] = FitsOver(Below(Fits, d), d)
  BY AtLevel
<1> QED BY <1>1 DEF FitsOver

(* decode_any_value_depth by the type of the item.                         *)
LEMMA ReadCases ==
  ASSUME NEW d \in 0..MaxNesting, NEW i \in ItemTree[d], NEW depth \in Nat
  PROVE  LET v == decode_any_value_depth[d][i][depth]
         IN /\ depth > MaxDepth => v = Error
            /\ ~(depth > MaxDepth) =>
                 /\ Type(i) = "uint" => v = decode_uint(i)
                 /\ Type(i) = "bstr" => v = decode_bstr(i)
                 /\ Type(i) = "map" =>
                      v = decode_map_value_depth(Below(decode_any_value_depth, d), i, depth + 1)
                 /\ Type(i) \notin {"uint", "bstr", "map"} => v = Error
<1> DEFINE inner == Below(decode_any_value_depth, d)
<1>1. decode_any_value_depth[d] = ValueReader(inner, d)
  BY AtLevel
<1> HIDE DEF inner
<1>2. decode_any_value_depth[d][i][depth] =
        IF depth > MaxDepth THEN Error
        ELSE CASE Type(i) = "uint" -> decode_uint(i)
               [] Type(i) = "bstr" -> decode_bstr(i)
               [] Type(i) = "map"  -> decode_map_value_depth(inner, i, depth + 1)
               [] OTHER            -> Error
  BY <1>1 DEF ValueReader
<1> QED BY <1>2 DEF inner

(* Items of the level below have heads that are read as numbers.           *)
LEMMA KeysBelow ==
  ASSUME NEW d \in 0..MaxNesting
  PROVE  \A c \in ItemsBelow(d) : decode_uint(c) # Error => Content(decode_uint(c)) \in Nat
<1> SUFFICES ASSUME NEW c \in ItemsBelow(d), decode_uint(c) # Error
             PROVE  Content(decode_uint(c)) \in Nat
  OBVIOUS
<1>1. d - 1 \in 0..MaxNesting /\ c \in ItemTree[d - 1]
  BY DEF ItemsBelow
<1>2. c \in ItemOver(ItemsBelow(d - 1))
  BY <1>1, AtLevel
<1>3. decode_uint(c) = Uint(Content(c)) /\ Content(c) \in Nat
  BY <1>2, HeadsRead
<1>4. Content(Uint(Content(c))) = Content(c)
  BY NotError
<1> QED BY <1>3, <1>4

ReadTyped(d) ==
  \A i \in ItemTree[d], depth \in Nat :
    decode_any_value_depth[d][i][depth] # Error =>
      decode_any_value_depth[d][i][depth] \in Fits[d][depth]

(* What is typed one level down can be handed to a map's decoder as inner. *)
LEMMA BelowTyped ==
  ASSUME NEW d \in 0..MaxNesting, d = 0 \/ ReadTyped(d - 1)
  PROVE  ReadsTo(Below(decode_any_value_depth, d), ItemsBelow(d), ValuesBelow(d), Below(Fits, d))
<1>1. ASSUME NEW c \in ItemsBelow(d), NEW e \in Nat, Below(decode_any_value_depth, d)[c][e] # Error
      PROVE  Below(decode_any_value_depth, d)[c][e] \in Below(Fits, d)[e] \cap ValuesBelow(d)
  <2>1. d # 0 /\ d - 1 \in 0..MaxNesting /\ ReadTyped(d - 1)
    BY DEF ItemsBelow
  <2>2. \A f \in Nat : Fits[d - 1][f] \subseteq Value[d - 1]
    BY <2>1, FitsMember
  <2> QED BY <1>1, <2>1, <2>2 DEF ReadTyped, ItemsBelow, ValuesBelow, Below
<1> QED BY <1>1, KeysBelow DEF ReadsTo

(* Numbers, byte strings and maps are values, whatever the level below has.*)
LEMMA ScalarsAndMaps ==
  ASSUME NEW S
  PROVE  /\ \A n \in Nat : Uint(n) \in ValueOver(S)
         /\ \A b \in Bytes : Bstr(b) \in ValueOver(S)
         /\ \A ps \in Seq(Nat \X S) : Map(ps) \in ValueOver(S)
<1>1. \A ps \in Seq(Nat \X S) : Map(ps) \in {"map"} \X Seq(Nat \X S)
  <2> DEFINE Q == Seq(Nat \X S)
  <2> HIDE DEF Q
  <2>1. \A ps \in Q : Map(ps) \in {"map"} \X Q
    BY DEF Map
  <2> QED BY <2>1 DEF Q
<1>2. (\A n \in Nat : Uint(n) \in {"uint"} \X Nat) /\ \A b \in Bytes : Bstr(b) \in {"bstr"} \X Bytes
  BY DEF Uint, Bstr
<1> QED BY <1>1, <1>2 DEF ValueOver

(* At every level and depth, what is decoded fits the limits it was decoded*)
(* under.                                                                  *)
LEMMA ReaderTyped ==
  \A d \in 0..MaxNesting : ReadTyped(d)
<1> DEFINE T == {d \in 0..MaxNesting : ReadTyped(d)}
<1>1. ASSUME NEW d \in 0..MaxNesting, d = 0 \/ d - 1 \in T PROVE d \in T
  <2> DEFINE S == ItemsBelow(d)
             V == ValuesBelow(d)
             inner == Below(decode_any_value_depth, d)
             fits == Below(Fits, d)
  <2>1. ReadsTo(inner, S, V, fits)
    BY <1>1, BelowTyped
  <2>3. Value[d] = ValueOver(V) /\ ItemTree[d] = ItemOver(S)
    BY AtLevel
  <2> SUFFICES ASSUME NEW i \in ItemTree[d], NEW depth \in Nat,
                      decode_any_value_depth[d][i][depth] # Error
               PROVE  decode_any_value_depth[d][i][depth] \in Fits[d][depth]
    BY DEF ReadTyped
  <2> DEFINE v == decode_any_value_depth[d][i][depth]
  <2>4. /\ ~(depth > MaxDepth) /\ depth <= MaxDepth
        /\ Type(i) \in {"uint", "bstr", "map"}
        /\ Type(i) = "uint" => v = decode_uint(i)
        /\ Type(i) = "bstr" => v = decode_bstr(i)
        /\ Type(i) = "map" => v = decode_map_value_depth(inner, i, depth + 1)
    BY ReadCases
  <2> HIDE DEF S, V, inner, fits, v
  <2>5. \/ v = Uint(Content(i)) /\ Content(i) \in Nat
        \/ v = Bstr(Content(i)) /\ Content(i) \in Bytes
        \/ v = Map(Content(v)) /\ Content(v) \in Seq(Nat \X V) /\ MapFits(fits, v, depth + 1)
    <3>1. CASE Type(i) = "uint"
      BY <2>3, <2>4, <3>1, HeadsRead DEF v
    <3>2. CASE Type(i) = "bstr"
      BY <2>3, <2>4, <3>2, HeadsRead DEF v
    <3>3. CASE Type(i) = "map"
      <4> DEFINE e == depth + 1
      <4>1. v = decode_map_value_depth(inner, i, e)
        BY <2>4, <3>3
      <4>2. decode_map_value_depth(inner, i, e) # Error
        BY <4>1 DEF v
      <4>3. e \in Nat /\ i \in ItemOver(S)
        BY <2>3
      <4> HIDE DEF e
      <4>4. LET m == decode_map_value_depth(inner, i, e)
            IN  m = Map(Content(m)) /\ Content(m) \in Seq(Nat \X V) /\ MapFits(fits, m, e)
        BY <2>1, <4>2, <4>3, MapRead
      <4> QED BY <4>1, <4>4 DEF e
    <3> QED BY <2>4, <3>1, <3>2, <3>3
  <2>6. v \in Value[d]
    BY <2>3, <2>5, ScalarsAndMaps
  <2>7. Type(v) # "array" /\ (Type(v) = "map" => MapFits(fits, v, depth + 1))
    BY <2>5, NotError
  <2> QED BY <2>4, <2>6, <2>7, FitsMember DEF v, fits
<1>2. \A d \in 0..MaxNesting : d \in T
  <2> HIDE DEF T
  <2> QED BY <1>1, Levelwise
<1> QED BY <1>2

-----------------------------------------------------------------------------
(* What is decoded is encoded canonically *)

(* The content of a map value, sorted: its entries are entries of the map. *)
LEMMA SortedEntries ==
  ASSUME NEW T, NEW ps \in Seq(Nat \X T)
  PROVE  /\ SortedByKey(ps) \in Seq(Nat \X T) /\ Len(SortedByKey(ps)) = Len(ps)
         /\ InOrder(SortedByKey(ps)) /\ (InOrder(ps) => SortedByKey(ps) = ps)
         /\ \A j \in 1..Len(ps) : \E i \in 1..Len(ps) : SortedByKey(ps)[j] = ps[i]
<1>1. IsSort(SortedByKey(ps), ps, T)
  BY SortSorts
<1> QED BY <1>1 DEF IsSort

(* Ordered entries with canonical values are encoded canonically.          *)
LEMMA EntriesCanonical ==
  ASSUME NEW T, NEW C, NEW inner, NEW qs \in Seq(Nat \X T), InOrder(qs),
         \A j \in DOMAIN qs : inner[qs[j][2]] \in C
  PROVE  encode_entries(inner, qs) \in CanonicalOver(C)
<1> DEFINE Number == {"uint"} \X Nat \X {"short"}
           es == [j \in DOMAIN qs |-> <<Short(Uint(qs[j][1])), inner[qs[j][2]]>>]
           Ordered == {ps \in Seq(Number \X C) : \A j, k \in DOMAIN ps :
                         j < k => Content(ps[j][1]) <= Content(ps[k][1])}
<1>1. DOMAIN qs = 1..Len(qs) /\ Len(qs) \in Nat /\ \A j \in DOMAIN qs : qs[j][1] \in Nat
  OBVIOUS
<1>2. ASSUME NEW n \in Nat PROVE Short(Uint(n)) \in Number /\ Content(Short(Uint(n))) = n
  BY DEF Short, Item, Uint, Type, Content
<1> HIDE DEF Number
<1>3. ASSUME NEW j \in DOMAIN qs
      PROVE  es[j] \in Number \X C /\ Content(es[j][1]) = qs[j][1]
  BY <1>1, <1>2
<1>4. es \in Seq(Number \X C) /\ DOMAIN es = DOMAIN qs
  BY <1>1, <1>3
<1>5. \A j, k \in DOMAIN es : j < k => Content(es[j][1]) <= Content(es[k][1])
  BY <1>3, <1>4 DEF InOrder
<1>6. es \in Ordered
  BY <1>4, <1>5
<1> HIDE DEF es, Ordered
<1>7. Short(Map(es)) \in {"map"} \X Ordered \X {"short"}
  BY <1>6 DEF Short, Item, Map, Type, Content
<1>8. CanonicalOver(C) = Number \cup ({"bstr"} \X Bytes \X {"short"}) \cup ({"map"} \X Ordered \X {"short"})
  BY DEF CanonicalOver, Ordered, Number
<1>9. encode_entries(inner, qs) = Short(Map(es))
  BY DEF encode_entries, es
<1> QED BY <1>7, <1>8, <1>9

CanonicalAt(d) ==
  \A depth \in Nat : \A v \in Fits[d][depth] : encode_value[d][v] \in Canonical[d]

(* Numbers and byte strings are encoded canonically.                       *)
LEMMA ScalarCanonical ==
  ASSUME NEW d \in 0..MaxNesting, NEW v \in Value[d], Type(v) \in {"uint", "bstr"}
  PROVE  encode_value[d][v] \in Canonical[d]
<1> DEFINE C == IF d = 0 THEN {} ELSE Canonical[d - 1]
<1>1. Canonical[d] = CanonicalOver(C) /\ Value[d] = ValueOver(ValuesBelow(d))
  BY AtLevel
<1> HIDE DEF C
<1>2. encode_value[d][v] = Short(v)
  BY EncodeCases
<1>3. \/ Type(v) = "uint" /\ Content(v) \in Nat
      \/ Type(v) = "bstr" /\ Content(v) \in Bytes
  BY <1>1, ValueShape
<1>4. \/ Short(v) \in {"uint"} \X Nat \X {"short"}
      \/ Short(v) \in {"bstr"} \X Bytes \X {"short"}
  BY <1>3 DEF Short, Item
<1> QED BY <1>1, <1>2, <1>4 DEF CanonicalOver

(* So are maps, given the values one level down.                           *)
LEMMA MapCanonical ==
  ASSUME NEW d \in 0..MaxNesting, d = 0 \/ CanonicalAt(d - 1), NEW depth \in Nat,
         NEW v \in Value[d], Type(v) = "map", MapFits(Below(Fits, d), v, depth)
  PROVE  encode_value[d][v] \in Canonical[d]
<1> DEFINE C == IF d = 0 THEN {} ELSE Canonical[d - 1]
           V == ValuesBelow(d)
           inner == Below(encode_value, d)
           ps == Content(v)
           qs == SortedByKey(ps)
<1>1. Canonical[d] = CanonicalOver(C) /\ Value[d] = ValueOver(V)
  BY AtLevel
<1>2. encode_value[d][v] = encode_entries(inner, qs)
  BY EncodeCases
<1>3. \A w \in V : w \in Below(Fits, d)[depth + 1] => inner[w] \in C
  <2>1. depth + 1 \in Nat
    OBVIOUS
  <2> QED BY <2>1 DEF CanonicalAt, ValuesBelow, Below
<1> HIDE DEF C, V, inner
<1>4. ps \in Seq(Nat \X V)
  BY <1>1, ValueShape
<1> HIDE DEF ps
<1>5. DOMAIN ps = 1..Len(ps) /\ \A i \in DOMAIN ps : ps[i][2] \in V
  BY <1>4
<1>6. /\ qs \in Seq(Nat \X V) /\ Len(qs) = Len(ps) /\ InOrder(qs)
      /\ \A j \in 1..Len(ps) : \E i \in 1..Len(ps) : qs[j] = ps[i]
  BY <1>4, SortedEntries
<1> HIDE DEF qs
<1>7. \A j \in DOMAIN qs : inner[qs[j][2]] \in C
  <2>1. \A i \in DOMAIN ps : ps[i][2] \in Below(Fits, d)[depth + 1]
    BY DEF MapFits, ps
  <2> SUFFICES ASSUME NEW j \in DOMAIN qs PROVE inner[qs[j][2]] \in C
    OBVIOUS
  <2>2. DOMAIN qs = 1..Len(ps)
    BY <1>6
  <2>3. PICK i \in DOMAIN ps : qs[j] = ps[i]
    BY <1>5, <1>6, <2>2
  <2>4. ps[i][2] \in V /\ ps[i][2] \in Below(Fits, d)[depth + 1]
    BY <1>5, <2>1
  <2> QED BY <1>3, <2>3, <2>4
<1>8. encode_entries(inner, qs) \in CanonicalOver(C)
  BY <1>6, <1>7, EntriesCanonical
<1> QED BY <1>1, <1>2, <1>8

(* So is everything that the decoder can give back: arrays, which it       *)
(* refuses, are what would not be.                                         *)
LEMMA FitsCanonical ==
  \A d \in 0..MaxNesting : CanonicalAt(d)
<1> DEFINE T == {d \in 0..MaxNesting : CanonicalAt(d)}
<1>1. ASSUME NEW d \in 0..MaxNesting, d = 0 \/ d - 1 \in T PROVE d \in T
  <2> SUFFICES ASSUME NEW depth \in Nat, NEW v \in Fits[d][depth]
               PROVE  encode_value[d][v] \in Canonical[d]
    BY DEF CanonicalAt
  <2>1. /\ v \in Value[d] /\ Type(v) # "array"
        /\ Type(v) = "map" => MapFits(Below(Fits, d), v, depth + 1)
    BY FitsMember
  <2>2. Value[d] = ValueOver(ValuesBelow(d))
    BY AtLevel
  <2>3. Type(v) \in {"uint", "bstr", "map"}
    BY <2>1, <2>2, ValueShape
  <2>4. CASE Type(v) \in {"uint", "bstr"}
    BY <2>1, <2>4, ScalarCanonical
  <2>5. CASE Type(v) = "map"
    <3>1. depth + 1 \in Nat /\ (d = 0 \/ CanonicalAt(d - 1))
      BY <1>1
    <3> DEFINE e == depth + 1
    <3>2. MapFits(Below(Fits, d), v, e) /\ e \in Nat
      BY <2>1, <2>5, <3>1
    <3> HIDE DEF e
    <3> QED BY <2>1, <2>5, <3>1, <3>2, MapCanonical
  <2> QED BY <2>3, <2>4, <2>5
<1>2. \A d \in 0..MaxNesting : d \in T
  <2> HIDE DEF T
  <2> QED BY <1>1, Levelwise
<1> QED BY <1>2

-----------------------------------------------------------------------------
(* What the decoder makes of what the encoder wrote *)

(* dec reads what enc wrote of a value that fits, as one encoded the same. *)
ReadsBack(enc, dec, fits, V, e) ==
  \A w \in V : w \in fits[e] =>
    dec[enc[w]][e] # Error /\ dec[enc[w]][e] \in V /\ enc[dec[enc[w]][e]] = enc[w]

(* The entries of a map, when they have been written and read.             *)
Reread(enc, dec, qs, e) ==
  [j \in 1..Len(qs) |-> <<qs[j][1], dec[enc[qs[j][2]]][e]>>]

(* Short heads are read as what they were written for.                     *)
LEMMA ShortRead ==
  /\ \A n : decode_uint(Short(Uint(n))) = Uint(n)
  /\ \A b : decode_bstr(Short(Bstr(b))) = Bstr(b)
  /\ \A es : Len(es) <= MaxEntries =>
       map_items(Short(Map(es))) # Error /\ Content(Short(Map(es))) = es
<1>1. ASSUME NEW n PROVE decode_uint(Short(Uint(n))) = Uint(n)
  BY DEF decode_uint, decode_head, check_shortest_encoding, Short, Item, Uint, Type, Content
<1>2. ASSUME NEW b PROVE decode_bstr(Short(Bstr(b))) = Bstr(b)
  BY DEF decode_bstr, decode_head, check_shortest_encoding, Short, Item, Bstr, Type, Content
<1>3. ASSUME NEW es, Len(es) <= MaxEntries
      PROVE  map_items(Short(Map(es))) # Error /\ Content(Short(Map(es))) = es
  <2>1. Type(Short(Map(es))) = "map" /\ Content(Short(Map(es))) = es /\ Short(Map(es))[3] = "short"
    BY DEF Short, Item, Map, Type, Content
  <2>2. decode_head(Short(Map(es)), "map") = Map(es)
    BY <2>1 DEF decode_head, check_shortest_encoding, Map
  <2>3. Map(es) # Error /\ Content(Map(es)) = es
    BY NotError
  <2> QED BY <1>3, <2>1, <2>2, <2>3 DEF map_items, bounded_usize
<1> QED BY <1>1, <1>2, <1>3

(* Sorted, encoded and decoded, the entries of a map that fits are a map in*)
(* order with the same encoding.                                           *)
LEMMA EntriesReread ==
  ASSUME NEW V, NEW enc, NEW dec, NEW fits, NEW depth \in Nat, NEW ps \in Seq(Nat \X V),
         MapFits(fits, Map(ps), depth), ReadsBack(enc, dec, fits, V, depth + 1)
  PROVE  LET qs == SortedByKey(ps)
             us == Reread(enc, dec, qs, depth + 1)
         IN  /\ decode_map_value_depth(dec, encode_entries(enc, qs), depth) = Map(us)
             /\ us \in Seq(Nat \X V) /\ Len(us) = Len(ps)
             /\ encode_entries(enc, SortedByKey(us)) = encode_entries(enc, qs)
<1> DEFINE e == depth + 1
           qs == SortedByKey(ps)
           us == Reread(enc, dec, qs, e)
           es == [j \in DOMAIN qs |-> <<Short(Uint(qs[j][1])), enc[qs[j][2]]>>]
           i == Short(Map(es))
<1>1. /\ qs \in Seq(Nat \X V) /\ Len(qs) = Len(ps) /\ InOrder(qs)
      /\ \A j \in 1..Len(ps) : \E k \in 1..Len(ps) : qs[j] = ps[k]
  BY SortedEntries
<1>2. DOMAIN ps = 1..Len(ps) /\ Len(ps) \in Nat /\ \A k \in DOMAIN ps : ps[k][2] \in V
  OBVIOUS
<1>3. /\ depth <= MaxDepth /\ Len(ps) <= MaxEntries
      /\ \A k \in DOMAIN ps : ps[k][2] \in fits[e]
  <2>1. Content(Map(ps)) = ps
    BY NotError
  <2> QED BY <2>1 DEF MapFits
<1> HIDE DEF qs, e
<1>4. DOMAIN qs = 1..Len(qs) /\ Len(qs) \in Nat /\ \A j \in DOMAIN qs : qs[j][1] \in Nat /\ qs[j][2] \in V
  BY <1>1
<1>5. ASSUME NEW j \in DOMAIN qs
      PROVE  dec[enc[qs[j][2]]][e] # Error /\ dec[enc[qs[j][2]]][e] \in V
             /\ enc[dec[enc[qs[j][2]]][e]] = enc[qs[j][2]]
  <2>1. PICK k \in DOMAIN ps : qs[j] = ps[k]
    BY <1>1, <1>2, <1>4
  <2>2. ps[k][2] \in V /\ ps[k][2] \in fits[e]
    BY <1>2, <1>3
  <2>3. ReadsBack(enc, dec, fits, V, e)
    BY DEF e
  <2> QED BY <2>1, <2>2, <2>3 DEF ReadsBack
<1>6. encode_entries(enc, qs) = i
  BY DEF encode_entries
<1>7. DOMAIN es = DOMAIN qs /\ Len(es) = Len(qs)
  BY <1>4
<1>8. ASSUME NEW j \in DOMAIN es
      PROVE  es[j][1] = Short(Uint(qs[j][1])) /\ es[j][2] = enc[qs[j][2]]
  BY <1>7
<1>9. DOMAIN us = DOMAIN qs /\ Len(us) = Len(qs)
      /\ \A j \in DOMAIN qs : us[j] = <<qs[j][1], dec[enc[qs[j][2]]][e]>>
  BY <1>4 DEF Reread
<1> HIDE DEF es
<1>10. map_items(i) # Error /\ Content(i) = es
  BY <1>1, <1>3, <1>7, ShortRead
<1> HIDE DEF i
<1>11. decode_map_value_depth(dec, i, depth) = Map(us)
  <2> DEFINE keys == [j \in DOMAIN es |-> decode_uint(es[j][1])]
             vals == [j \in DOMAIN es |-> dec[es[j][2]][e]]
  <2>1. ~(depth > MaxDepth)
    BY <1>3
  <2>2. decode_map_value_depth(dec, i, depth) =
          IF \E j \in DOMAIN es : Error \in {keys[j], vals[j]} THEN Error
          ELSE Map([j \in DOMAIN es |-> <<Content(keys[j]), vals[j]>>])
    BY <1>10, <2>1 DEF decode_map_value_depth, e
  <2>3. ASSUME NEW j \in DOMAIN es
        PROVE  /\ keys[j] # Error /\ Content(keys[j]) = qs[j][1]
               /\ vals[j] # Error /\ vals[j] = dec[enc[qs[j][2]]][e]
    <3>1. decode_uint(es[j][1]) = Uint(qs[j][1])
      BY <1>8, ShortRead
    <3>2. Uint(qs[j][1]) # Error /\ Content(Uint(qs[j][1])) = qs[j][1]
      BY NotError
    <3> QED BY <1>5, <1>7, <1>8, <3>1, <3>2
  <2> HIDE DEF keys, vals
  <2>4. [j \in DOMAIN es |-> <<Content(keys[j]), vals[j]>>] = us
    <3>1. \A j \in DOMAIN es : <<Content(keys[j]), vals[j]>> = us[j]
      BY <1>7, <1>9, <2>3
    <3>2. us = [j \in DOMAIN es |-> us[j]]
      BY <1>4, <1>7, <1>9 DEF Reread
    <3> QED BY <3>1, <3>2
  <2> QED BY <2>2, <2>3, <2>4
<1> HIDE DEF us
<1>12. ASSUME NEW j \in DOMAIN qs
       PROVE  us[j] \in Nat \X V /\ us[j][1] = qs[j][1] /\ enc[us[j][2]] = enc[qs[j][2]]
  <2> DEFINE a == qs[j][1]
             b == dec[enc[qs[j][2]]][e]
  <2>1. us[j] = <<a, b>> /\ a \in Nat /\ b \in V /\ enc[b] = enc[qs[j][2]]
    BY <1>4, <1>5, <1>9
  <2> HIDE DEF b
  <2>2. us[j][1] = a /\ us[j][2] = b
    BY <2>1
  <2> QED BY <2>1, <2>2
<1>13. us \in Seq(Nat \X V) /\ Len(us) = Len(ps)
  <2>1. us = [j \in 1..Len(qs) |-> us[j]]
    BY DEF us, Reread
  <2> QED BY <1>1, <1>4, <1>9, <1>12, <2>1
<1>14. InOrder(us)
  BY <1>1, <1>9, <1>12 DEF InOrder
<1>15. SortedByKey(us) = us
  BY <1>13, <1>14, SortedEntries
<1>16. encode_entries(enc, us) = encode_entries(enc, qs)
  BY <1>9, <1>12 DEF encode_entries
<1> QED BY <1>6, <1>11, <1>13, <1>15, <1>16 DEF us, qs, e

ReadBackAt(d) ==
  \A depth \in Nat : \A v \in Fits[d][depth] :
    LET u == decode_any_value_depth[d][encode_value[d][v]][depth]
    IN u # Error /\ u \in Value[d] /\ encode_value[d][u] = encode_value[d][v]
       /\ (v \in Sorted[d] => u = v)

(* Numbers and byte strings are read back as they were.                    *)
LEMMA ScalarReadBack ==
  ASSUME NEW d \in 0..MaxNesting, NEW depth \in Nat, depth <= MaxDepth,
         NEW v \in Value[d], Type(v) \in {"uint", "bstr"}
  PROVE  decode_any_value_depth[d][encode_value[d][v]][depth] = v /\ v # Error
<1>1. Value[d] = ValueOver(ValuesBelow(d))
  BY AtLevel
<1>2. v = Uint(Content(v)) \/ v = Bstr(Content(v))
  BY <1>1, ValueShape DEF Uint, Bstr
<1>3. encode_value[d][v] = Short(v) /\ Short(v) \in ItemTree[d]
  BY EncodeCases, EncoderTyped
<1>4. Type(Short(v)) = Type(v) /\ ~(depth > MaxDepth)
  BY DEF Short, Item, Type
<1>5. CASE Type(v) = "uint"
  <2>1. v = Uint(Content(v))
    BY <1>2, <1>5, NotError
  <2>2. decode_any_value_depth[d][Short(v)][depth] = decode_uint(Short(v))
    BY <1>3, <1>4, <1>5, ReadCases
  <2>3. decode_uint(Short(v)) = v
    BY <2>1, ShortRead
  <2> QED BY <1>3, <2>1, <2>2, <2>3, NotError
<1>6. CASE Type(v) = "bstr"
  <2>1. v = Bstr(Content(v))
    BY <1>2, <1>6, NotError
  <2>2. decode_any_value_depth[d][Short(v)][depth] = decode_bstr(Short(v))
    BY <1>3, <1>4, <1>6, ReadCases
  <2>3. decode_bstr(Short(v)) = v
    BY <2>1, ShortRead
  <2> QED BY <1>3, <2>1, <2>2, <2>3, NotError
<1> QED BY <1>5, <1>6

(* The values in an ordered map are themselves in order.                   *)
LEMMA SortedMap ==
  ASSUME NEW d \in 0..MaxNesting, NEW v \in Sorted[d], Type(v) = "map"
  PROVE  /\ InOrder(Content(v))
         /\ \A j \in DOMAIN Content(v) : d # 0 /\ Content(v)[j][2] \in Sorted[d - 1]
<1> DEFINE C == IF d = 0 THEN {} ELSE Sorted[d - 1]
           Q == {ps \in Seq(Nat \X C) : InOrder(ps)}
<1>1. Sorted[d] = SortedOver(C)
  BY AtLevel
<1> HIDE DEF C
<1>2. SortedOver(C) = ({"uint"} \X Nat) \cup ({"bstr"} \X Bytes) \cup ({"map"} \X Q)
  BY DEF SortedOver
<1> HIDE DEF Q
<1>3. Content(v) \in Q
  BY <1>1, <1>2 DEF Type, Content
<1>4. Content(v) \in Seq(Nat \X C) /\ InOrder(Content(v))
  BY <1>3 DEF Q
<1>5. \A j \in DOMAIN Content(v) : Content(v)[j][2] \in C
  BY <1>4
<1> QED BY <1>4, <1>5 DEF C

(* A map that fits is read back as one with the same encoding, and as      *)
(* itself when it is in order throughout.                                  *)
LEMMA MapReadBack ==
  ASSUME NEW d \in 0..MaxNesting, d = 0 \/ ReadBackAt(d - 1), NEW depth \in Nat,
         NEW v \in Value[d], Type(v) = "map", MapFits(Below(Fits, d), v, depth)
  PROVE  LET m == decode_map_value_depth(Below(decode_any_value_depth, d), encode_value[d][v], depth)
         IN  /\ m # Error /\ m \in Value[d] /\ Type(m) = "map"
             /\ encode_value[d][m] = encode_value[d][v]
             /\ Len(Content(m)) = Len(Content(v))
             /\ v \in Sorted[d] => m = v
<1> DEFINE V == ValuesBelow(d)
           enc == Below(encode_value, d)
           dec == Below(decode_any_value_depth, d)
           fits == Below(Fits, d)
           ps == Content(v)
           qs == SortedByKey(ps)
           us == Reread(enc, dec, qs, depth + 1)
           m == decode_map_value_depth(dec, encode_value[d][v], depth)
<1>1. Value[d] = ValueOver(V)
  BY AtLevel
<1>2. v = Map(ps) /\ ps \in Seq(Nat \X V)
  BY <1>1, ValueShape DEF Map
<1>3. ReadsBack(enc, dec, fits, V, depth + 1)
  <2>1. depth + 1 \in Nat
    OBVIOUS
  <2> SUFFICES ASSUME NEW w \in V, w \in fits[depth + 1]
               PROVE  /\ dec[enc[w]][depth + 1] # Error /\ dec[enc[w]][depth + 1] \in V
                      /\ enc[dec[enc[w]][depth + 1]] = enc[w]
    BY DEF ReadsBack
  <2>2. d # 0 /\ ReadBackAt(d - 1)
    BY DEF ValuesBelow
  <2> QED BY <2>1, <2>2 DEF ReadBackAt, ValuesBelow, Below
<1>4. encode_value[d][v] = encode_entries(enc, qs)
  BY EncodeCases
<1>5. MapFits(fits, Map(ps), depth)
  BY <1>2
<1>6. v \in Sorted[d] => InOrder(ps) /\ \A j \in DOMAIN ps : dec[enc[ps[j][2]]][depth + 1] = ps[j][2]
  <2> SUFFICES ASSUME v \in Sorted[d], NEW j \in DOMAIN ps
               PROVE  dec[enc[ps[j][2]]][depth + 1] = ps[j][2]
    BY SortedMap
  <2>1. d # 0 /\ ps[j][2] \in Sorted[d - 1]
    BY SortedMap
  <2>2. ps[j][2] \in Fits[d - 1][depth + 1] /\ depth + 1 \in Nat
    BY <2>1 DEF MapFits, Below
  <2>3. ReadBackAt(d - 1)
    BY <2>1
  <2> QED BY <2>1, <2>2, <2>3 DEF ReadBackAt, Below
<1> HIDE DEF V, enc, dec, fits, ps
<1>7. /\ decode_map_value_depth(dec, encode_entries(enc, qs), depth) = Map(us)
      /\ us \in Seq(Nat \X V) /\ Len(us) = Len(ps)
      /\ encode_entries(enc, SortedByKey(us)) = encode_entries(enc, qs)
  BY <1>2, <1>3, <1>5, EntriesReread
<1>8. v \in Sorted[d] => us = ps
  <2> SUFFICES ASSUME v \in Sorted[d] PROVE us = ps
    OBVIOUS
  <2>1. qs = ps
    BY <1>2, <1>6, SortedEntries
  <2>2. ps = [j \in 1..Len(ps) |-> <<ps[j][1], ps[j][2]>>] /\ DOMAIN ps = 1..Len(ps)
    BY <1>2
  <2>3. us = [j \in 1..Len(ps) |-> <<ps[j][1], dec[enc[ps[j][2]]][depth + 1]>>]
    BY <2>1 DEF Reread
  <2>4. \A j \in 1..Len(ps) : dec[enc[ps[j][2]]][depth + 1] = ps[j][2]
    BY <1>6, <2>2
  <2> QED BY <2>2, <2>3, <2>4
<1> HIDE DEF us
<1>9. m = Map(us)
  BY <1>4, <1>7
<1>10. m # Error /\ Type(m) = "map" /\ Content(m) = us
  BY <1>9, NotError
<1>11. m \in Value[d]
  BY <1>1, <1>7, <1>9, ScalarsAndMaps
<1> HIDE DEF m
<1>12. encode_value[d][m] = encode_entries(enc, SortedByKey(us))
  BY <1>10, <1>11, EncodeCases DEF enc
<1> QED BY <1>2, <1>4, <1>7, <1>8, <1>9, <1>10, <1>11, <1>12 DEF m, dec, ps

(* The same for every value that fits, at every level.                     *)
LEMMA FitsReadBack ==
  \A d \in 0..MaxNesting : ReadBackAt(d)
<1> DEFINE T == {d \in 0..MaxNesting : ReadBackAt(d)}
<1>1. ASSUME NEW d \in 0..MaxNesting, d = 0 \/ d - 1 \in T PROVE d \in T
  <2> SUFFICES ASSUME NEW depth \in Nat, NEW v \in Fits[d][depth]
               PROVE  LET u == decode_any_value_depth[d][encode_value[d][v]][depth]
                      IN u # Error /\ u \in Value[d] /\ encode_value[d][u] = encode_value[d][v]
                         /\ (v \in Sorted[d] => u = v)
    BY DEF ReadBackAt
  <2>1. /\ v \in Value[d] /\ depth <= MaxDepth /\ Type(v) # "array"
        /\ Type(v) = "map" => MapFits(Below(Fits, d), v, depth + 1)
    BY FitsMember
  <2>2. Value[d] = ValueOver(ValuesBelow(d))
    BY AtLevel
  <2>3. Type(v) \in {"uint", "bstr", "map"}
    BY <2>1, <2>2, ValueShape
  <2>4. CASE Type(v) \in {"uint", "bstr"}
    BY <2>1, <2>4, ScalarReadBack
  <2>5. CASE Type(v) = "map"
    <3> DEFINE e == depth + 1
               i == encode_value[d][v]
               m == decode_map_value_depth(Below(decode_any_value_depth, d), i, e)
    <3>1. e \in Nat /\ MapFits(Below(Fits, d), v, e) /\ (d = 0 \/ ReadBackAt(d - 1))
      BY <1>1, <2>1, <2>5
    <3>2. i \in ItemTree[d] /\ Type(i) = "map"
      <4>1. i = encode_entries(Below(encode_value, d), SortedByKey(Content(v)))
        BY <2>1, <2>5, EncodeCases
      <4>2. Type(i) = "map"
        BY <4>1 DEF encode_entries, Short, Item, Map, Type
      <4> QED BY <2>1, <4>2, EncoderTyped
    <3>3. decode_any_value_depth[d][i][depth] = m
      <4>1. ~(depth > MaxDepth)
        BY <2>1
      <4> QED BY <3>2, <4>1, ReadCases
    <3> HIDE DEF e
    <3>4. /\ m # Error /\ m \in Value[d]
          /\ encode_value[d][m] = encode_value[d][v]
          /\ v \in Sorted[d] => m = v
      BY <2>1, <2>5, <3>1, MapReadBack
    <3> HIDE DEF m
    <3> QED BY <3>3, <3>4
  <2> QED BY <2>3, <2>4, <2>5
<1>2. \A d \in 0..MaxNesting : d \in T
  <2> HIDE DEF T
  <2> QED BY <1>1, Levelwise
<1> QED BY <1>2

-----------------------------------------------------------------------------
(* The fields of a payload *)

LEMMA FieldTypes ==
  /\ \A k \in {1, 3, 5, 6, 8} : FieldType(k) = "hash"
  /\ FieldType(2) = "predicate" /\ FieldType(4) = "uint"
  /\ FieldType(7) = "map" /\ FieldType(10) = "bstr"
BY DEF FieldType

(* The values of each field.                                               *)
LEMMA FieldValues ==
  /\ \A k \in {1, 3, 5, 6, 8} : FieldValue(k) = {Bstr(Hash32)}
  /\ FieldValue(2) = {"uint"} \X Predicates
  /\ FieldValue(4) = {"uint"} \X Nat
  /\ FieldValue(10) = {"bstr"} \X Bytes
  /\ FieldValue(7) = {v \in Value[MaxNesting] : Type(v) = "map"}
BY FieldTypes DEF FieldValue

(* Every field's value is a value; only the extension map is a map.        *)
LEMMA FieldInLevel ==
  ASSUME NEW k \in Fields, NEW v \in FieldValue(k)
  PROVE  v \in Value[MaxNesting] /\ (k # 7 => Type(v) \in {"uint", "bstr"})
         /\ (k = 7 => Type(v) = "map")
<1>1. MaxNesting \in 0..MaxNesting
  OBVIOUS
<1>2. Value[MaxNesting] = ValueOver(ValuesBelow(MaxNesting))
  BY <1>1, AtLevel
<1>3. CASE k \in {1, 3, 5, 6, 8}
  <2>1. v = Bstr(Hash32) /\ Hash32 \in Bytes
    BY <1>3, FieldValues
  <2>2. v \in Value[MaxNesting]
    BY <1>2, <2>1, ScalarsAndMaps
  <2>3. Type(v) = "bstr"
    BY <2>1, NotError
  <2>4. k # 7
    BY <1>3
  <2> QED BY <2>2, <2>3, <2>4
<1>4. CASE k \in {2, 4}
  <2>0. v \in {"uint"} \X Nat
    BY <1>4, FieldValues DEF Predicates
  <2>1. v = Uint(v[2]) /\ v[2] \in Nat
    BY <2>0 DEF Uint
  <2>2. v \in Value[MaxNesting]
    BY <1>2, <2>1, ScalarsAndMaps
  <2>3. Type(v) = "uint"
    BY <2>1, NotError
  <2>4. k # 7
    BY <1>4
  <2> QED BY <2>2, <2>3, <2>4
<1>5. CASE k = 10
  <2>0. v \in {"bstr"} \X Bytes
    BY <1>5, FieldValues
  <2>1. v = Bstr(v[2]) /\ v[2] \in Bytes
    BY <2>0 DEF Bstr
  <2>2. v \in Value[MaxNesting]
    BY <1>2, <2>1, ScalarsAndMaps
  <2>3. Type(v) = "bstr"
    BY <2>1, NotError
  <2>4. k # 7
    BY <1>5
  <2> QED BY <2>2, <2>3, <2>4
<1>6. CASE k = 7
  BY <1>6, FieldValues
<1> QED BY <1>3, <1>4, <1>5, <1>6 DEF Fields

(* decode_field by key.                                                    *)
LEMMA DecodeFieldCases ==
  ASSUME NEW i
  PROVE  /\ \A k \in {1, 3, 5, 6, 8} : decode_field(k, i) =
              IF decode_bstr(i) = Bstr(Hash32) THEN Bstr(Hash32) ELSE Error
         /\ decode_field(2, i) = IF ValidPredicate(decode_uint(i)) THEN decode_uint(i) ELSE Error
         /\ decode_field(4, i) = decode_uint(i)
         /\ decode_field(10, i) = decode_bstr(i)
         /\ decode_field(7, i) =
              decode_map_value_depth(Below(decode_any_value_depth, MaxNesting), i, 0)
BY FieldTypes DEF decode_field

ExtensionFits(v) == MapFits(Below(Fits, MaxNesting), v, 0)

(* What is read under a key is a value of that field, and fits when it is  *)
(* the extension map.                                                      *)
LEMMA FieldRead ==
  ASSUME NEW k \in Fields, NEW i \in ItemTree[MaxNesting], decode_field(k, i) # Error
  PROVE  decode_field(k, i) \in FieldValue(k) /\ (k = 7 => ExtensionFits(decode_field(k, i)))
<1> DEFINE N == MaxNesting
           S == ItemsBelow(N)
           V == ValuesBelow(N)
           inner == Below(decode_any_value_depth, N)
           fits == Below(Fits, N)
           v == decode_field(k, i)
<1>1. N \in 0..MaxNesting /\ (N = 0 \/ N - 1 \in 0..MaxNesting)
  OBVIOUS
<1>2. ItemTree[N] = ItemOver(S) /\ Value[N] = ValueOver(V)
  BY <1>1, AtLevel
<1>3. i \in ItemOver(S)
  BY <1>2
<1>4. /\ decode_uint(i) # Error => decode_uint(i) = Uint(Content(i)) /\ Content(i) \in Nat
      /\ decode_bstr(i) # Error => decode_bstr(i) = Bstr(Content(i)) /\ Content(i) \in Bytes
  BY <1>3, HeadsRead
<1>5. CASE k \in {1, 3, 5, 6, 8}
  BY <1>5, DecodeFieldCases, FieldValues
<1>6. CASE k = 2
  <2>1. v = decode_uint(i) /\ v # Error /\ ValidPredicate(v)
    BY <1>6, DecodeFieldCases
  <2>2. v = Uint(Content(i)) /\ Content(v) \in Predicates
    BY <1>4, <2>1 DEF ValidPredicate
  <2>3. v \in {"uint"} \X Predicates
    BY <2>2, NotError DEF Uint
  <2> QED BY <1>6, <2>3, FieldValues
<1>7. CASE k = 4
  <2>1. v = Uint(Content(i)) /\ Content(i) \in Nat
    BY <1>4, <1>7, DecodeFieldCases
  <2>2. v \in {"uint"} \X Nat
    BY <2>1 DEF Uint
  <2> QED BY <1>7, <2>2, FieldValues
<1>8. CASE k = 10
  <2>1. v = Bstr(Content(i)) /\ Content(i) \in Bytes
    BY <1>4, <1>8, DecodeFieldCases
  <2>2. v \in {"bstr"} \X Bytes
    BY <2>1 DEF Bstr
  <2> QED BY <1>8, <2>2, FieldValues
<1>9. CASE k = 7
  <2>1. ReadsTo(inner, S, V, fits)
    BY <1>1, BelowTyped, ReaderTyped
  <2>2. v = decode_map_value_depth(inner, i, 0)
    BY <1>9, DecodeFieldCases
  <2>3. decode_map_value_depth(inner, i, 0) # Error
    BY <2>2
  <2> HIDE DEF inner, fits, S, V
  <2>4. LET m == decode_map_value_depth(inner, i, 0)
        IN  m = Map(Content(m)) /\ Content(m) \in Seq(Nat \X V) /\ MapFits(fits, m, 0)
    BY <1>3, <2>1, <2>3, MapRead
  <2>5. v \in Value[N] /\ Type(v) = "map"
    BY <1>2, <2>2, <2>4, ScalarsAndMaps, NotError
  <2> QED BY <1>9, <2>2, <2>4, <2>5, FieldValues DEF ExtensionFits, fits
<1> QED BY <1>5, <1>6, <1>7, <1>8, <1>9 DEF Fields

(* What the decoder makes of a field that the encoder wrote.               *)
LEMMA FieldReadBack ==
  ASSUME NEW k \in Fields, NEW v \in FieldValue(k), k = 7 => ExtensionFits(v)
  PROVE  LET u == decode_field(k, encode_value[MaxNesting][v])
         IN  /\ u # Error /\ u \in FieldValue(k)
             /\ encode_value[MaxNesting][u] = encode_value[MaxNesting][v]
             /\ k # 7 => u = v
             /\ k = 7 => /\ Len(Content(u)) = Len(Content(v))
                         /\ v \in Sorted[MaxNesting] => u = v
<1> DEFINE N == MaxNesting
           i == encode_value[N][v]
           u == decode_field(k, i)
<1>1. N \in 0..MaxNesting /\ (N = 0 \/ N - 1 \in 0..MaxNesting)
  OBVIOUS
<1>2. v \in Value[N] /\ (k # 7 => Type(v) \in {"uint", "bstr"}) /\ (k = 7 => Type(v) = "map")
  BY FieldInLevel
<1>3. i \in ItemTree[N]
  BY <1>1, <1>2, EncoderTyped
<1>4. k # 7 => i = Short(v)
  BY <1>1, <1>2, EncodeCases
<1>5. CASE k # 7
  <2>1. u = v /\ u # Error
    <3>1. CASE k \in {1, 3, 5, 6, 8}
      <4>1. v = Bstr(Hash32)
        BY <3>1, FieldValues
      <4>2. decode_bstr(i) = Bstr(Hash32)
        BY <1>4, <1>5, <4>1, ShortRead
      <4> QED BY <3>1, <4>1, <4>2, DecodeFieldCases, NotError
    <3>2. CASE k \in {2, 4}
      <4>1. v = Uint(v[2]) /\ (k = 2 => v[2] \in Predicates)
        BY <3>2, FieldValues DEF Uint
      <4>2. decode_uint(i) = v /\ v # Error /\ Content(v) = v[2]
        BY <1>4, <1>5, <4>1, ShortRead, NotError DEF Content
      <4> QED BY <3>2, <4>1, <4>2, DecodeFieldCases DEF ValidPredicate
    <3>3. CASE k = 10
      <4>1. v = Bstr(v[2])
        BY <3>3, FieldValues DEF Bstr
      <4>2. decode_bstr(i) = v /\ v # Error
        BY <1>4, <1>5, <4>1, ShortRead, NotError
      <4> QED BY <3>3, <4>2, DecodeFieldCases
    <3> QED BY <1>5, <3>1, <3>2, <3>3 DEF Fields
  <2> QED BY <1>5, <2>1
<1>6. CASE k = 7
  <2> DEFINE m == decode_map_value_depth(Below(decode_any_value_depth, N), i, 0)
  <2>1. N = 0 \/ ReadBackAt(N - 1)
    BY <1>1, FitsReadBack
  <2>2. MapFits(Below(Fits, N), v, 0)
    BY <1>6 DEF ExtensionFits
  <2>3. /\ m # Error /\ m \in Value[N] /\ Type(m) = "map"
        /\ encode_value[N][m] = encode_value[N][v]
        /\ Len(Content(m)) = Len(Content(v))
        /\ v \in Sorted[N] => m = v
    BY <1>1, <1>2, <1>6, <2>1, <2>2, MapReadBack
  <2>4. u = m
    BY <1>6, DecodeFieldCases
  <2> HIDE DEF m
  <2>5. m \in FieldValue(k)
    BY <1>6, <2>3, FieldValues
  <2> QED BY <1>6, <2>3, <2>4, <2>5
<1> QED BY <1>5, <1>6

-----------------------------------------------------------------------------
(* The entries of a payload *)

PushedKeys(f) == {k \in DOMAIN f : ~(k = 7 /\ f[k] = Map(<<>>))}
PushBefore(K) == [k \in K |-> {j \in K : j # 7 /\ (k = 7 \/ j < k)}]
PushList(K) == Ranked(PushBefore(K))

(* The fields are pushed each once, in the order of the code.              *)
LEMMA PushLists ==
  ASSUME NEW K, K \subseteq Fields
  PROVE  /\ IsFiniteSet(K) /\ Lists(PushList(K), K, PushBefore(K))
         /\ \A x \in K : x \notin PushBefore(K)[x]
<1>1. K \in SUBSET (0..10) /\ K \subseteq Nat
  BY DEF Fields
<1>2. IsFiniteSet(0..10)
  <2>1. 0 \in Int /\ 10 \in Int
    OBVIOUS
  <2> QED BY <2>1, FS_Interval
<1>3. IsFiniteSet(K)
  BY <1>1, <1>2, FS_Subset
<1>4. TotalOrder(K, PushBefore(K))
  <2>1. PushBefore(K) \in [K -> SUBSET K]
    BY DEF PushBefore
  <2>2. \A x, y \in K : x \in PushBefore(K)[y] <=> x # 7 /\ (y = 7 \/ x < y)
    BY DEF PushBefore
  <2>3. \A x \in K : x \notin PushBefore(K)[x]
    BY <1>1, <2>2
  <2>4. \A x, y \in K : x = y \/ x \in PushBefore(K)[y] \/ y \in PushBefore(K)[x]
    <3>1. \A x, y \in Nat : x = y \/ (x # 7 /\ (y = 7 \/ x < y)) \/ (y # 7 /\ (x = 7 \/ y < x))
      OBVIOUS
    <3> QED BY <1>1, <2>2, <3>1
  <2>5. \A x, y \in K : x \in PushBefore(K)[y] => PushBefore(K)[x] \subseteq PushBefore(K)[y]
    <3> SUFFICES ASSUME NEW x \in K, NEW y \in K, NEW z \in K,
                        x \in PushBefore(K)[y], z \in PushBefore(K)[x]
                 PROVE  z \in PushBefore(K)[y]
      BY <2>1
    <3>1. \A a, b, c \in Nat : a # 7 /\ (b = 7 \/ a < b) /\ c # 7 /\ (a = 7 \/ c < a)
            => c # 7 /\ (b = 7 \/ c < b)
      OBVIOUS
    <3>2. x \in Nat /\ y \in Nat /\ z \in Nat
      BY <1>1
    <3> QED BY <2>2, <3>1, <3>2
  <2> QED BY <2>1, <2>3, <2>4, <2>5 DEF TotalOrder
<1>5. \A x \in K : x \notin PushBefore(K)[x]
  BY <1>4 DEF TotalOrder
<1> QED BY <1>3, <1>4, <1>5, RankedLists DEF PushList

(* Where sort_by_key takes the entries from depends on the keys alone.     *)
PushPlaces(K) ==
  Ranked([j \in 1..Cardinality(K) |-> {i \in 1..Cardinality(K) :
     PushList(K)[i] < PushList(K)[j] \/ (PushList(K)[i] = PushList(K)[j] /\ i < j)}])
KeyList(K) == [k \in 1..Cardinality(K) |-> PushList(K)[PushPlaces(K)[k]]]

(* The keys in strictly ascending order.                                   *)
ListsKeys(ks, K) ==
  /\ ks \in [1..Cardinality(K) -> K]
  /\ \A i, j \in 1..Cardinality(K) : i < j => ks[i] < ks[j]
  /\ \A k \in K : \E j \in 1..Cardinality(K) : ks[j] = k

(* Sorting brings the extension map to its place: the entries go by        *)
(* ascending key.                                                          *)
LEMMA EntriesByKey ==
  ASSUME NEW f, NEW T, DOMAIN f \subseteq Fields, \A k \in DOMAIN f : f[k] \in T
  PROVE  LET K == PushedKeys(f)
             ks == KeyList(K)
         IN  /\ IsFiniteSet(K) /\ Cardinality(K) \in Nat /\ ListsKeys(ks, K)
             /\ Entries(f) = [k \in 1..Cardinality(K) |-> <<ks[k], f[ks[k]]>>]
<1> DEFINE K == PushedKeys(f)
           n == Cardinality(K)
           r == PushList(K)
           ps == Pushed(f)
           pl == PushPlaces(K)
           ks == KeyList(K)
<1>1. K \subseteq Fields /\ K \subseteq DOMAIN f /\ Fields \subseteq Nat
  BY DEF PushedKeys, Fields
<1>2. /\ IsFiniteSet(K) /\ n \in Nat /\ r \in [1..n -> K]
      /\ \A i, j \in 1..n : i < j => r[i] \in PushBefore(K)[r[j]]
      /\ \A x \in K : \E k \in 1..n : r[k] = x
  <2>1. IsFiniteSet(K) /\ Lists(r, K, PushBefore(K))
    BY <1>1, PushLists
  <2>2. n \in Nat
    BY <2>1, FS_CardinalityType
  <2> QED BY <2>1, <2>2 DEF Lists
<1>3. \A i, j \in 1..n : i < j => r[i] # r[j]
  <2>1. \A x \in K : x \notin PushBefore(K)[x]
    BY <1>1, PushLists
  <2> HIDE DEF K, n, r
  <2> QED BY <1>2, <2>1
<1>4. ps = [i \in 1..n |-> <<r[i], f[r[i]]>>]
  BY DEF Pushed, PushedKeys, PushBefore, PushList
<1>5. KeyList(K) = [k \in 1..n |-> r[pl[k]]]
  BY DEF KeyList
<1>6. pl = Ranked([j \in 1..n |-> {i \in 1..n : r[i] < r[j] \/ (r[i] = r[j] /\ i < j)}])
  BY DEF PushPlaces
<1> HIDE DEF K, n, r, ps, pl, ks
<1>7. ASSUME NEW i \in 1..n PROVE ps[i] \in Nat \X T /\ ps[i][1] = r[i] /\ ps[i][2] = f[r[i]]
  <2>1. r[i] \in Nat /\ f[r[i]] \in T
    BY <1>1, <1>2
  <2> QED BY <1>4, <2>1
<1>8. ps \in Seq(Nat \X T) /\ Len(ps) = n /\ DOMAIN ps = 1..n
  BY <1>2, <1>4, <1>7
<1>9. KeyOrder(ps) = [j \in 1..n |-> {i \in 1..n : r[i] < r[j] \/ (r[i] = r[j] /\ i < j)}]
  BY <1>7, <1>8 DEF KeyOrder
<1>10. Places(ps) = pl
  BY <1>6, <1>9 DEF Places
<1>11. /\ pl \in [1..n -> 1..n]
       /\ \A i, j \in 1..n : i < j => pl[i] # pl[j]
       /\ \A i \in 1..n : \E k \in 1..n : pl[k] = i
       /\ SortedByKey(ps) = [k \in 1..n |-> ps[pl[k]]]
       /\ InOrder(SortedByKey(ps))
  <2>1. IsSort(SortedByKey(ps), ps, T)
    BY <1>8, SortSorts
  <2> QED BY <1>8, <1>10, <2>1 DEF IsSort
<1>12. ks \in [1..n -> K]
  BY <1>2, <1>5, <1>11 DEF ks, K
<1>13. \A k \in 1..n : ks[k] = r[pl[k]]
  BY <1>5 DEF ks, K
<1>14. \A i, j \in 1..n : i < j => ks[i] < ks[j]
  <2> SUFFICES ASSUME NEW i \in 1..n, NEW j \in 1..n, i < j PROVE ks[i] < ks[j]
    OBVIOUS
  <2>1. pl[i] \in 1..n /\ pl[j] \in 1..n /\ pl[i] # pl[j]
    BY <1>11
  <2>2. pl[i] < pl[j] \/ pl[j] < pl[i]
    BY <1>2, <2>1
  <2>3. ks[i] # ks[j]
    BY <1>3, <1>13, <2>1, <2>2
  <2>4. ps[pl[i]][1] <= ps[pl[j]][1]
    <3>1. DOMAIN SortedByKey(ps) = 1..n
          /\ SortedByKey(ps)[i] = ps[pl[i]] /\ SortedByKey(ps)[j] = ps[pl[j]]
      BY <1>11
    <3>2. InOrder(SortedByKey(ps))
      BY <1>11
    <3> QED BY <3>1, <3>2 DEF InOrder
  <2>5. ks[i] <= ks[j]
    BY <1>7, <1>13, <2>1, <2>4
  <2>6. ks[i] \in Nat /\ ks[j] \in Nat
    BY <1>1, <1>12
  <2> QED BY <2>3, <2>5, <2>6
<1>15. \A k \in K : \E j \in 1..n : ks[j] = k
  <2> SUFFICES ASSUME NEW k \in K PROVE \E j \in 1..n : ks[j] = k
    OBVIOUS
  <2>1. PICK i \in 1..n : r[i] = k
    BY <1>2
  <2>2. PICK j \in 1..n : pl[j] = i
    BY <1>11
  <2> QED BY <1>13, <2>1, <2>2
<1>16. Entries(f) = [k \in 1..n |-> <<ks[k], f[ks[k]]>>]
  <2>1. Entries(f) = [k \in 1..n |-> ps[pl[k]]]
    BY <1>11 DEF Entries, ps
  <2>2. \A k \in 1..n : ps[pl[k]] = <<ks[k], f[ks[k]]>>
    BY <1>4, <1>11, <1>13
  <2> QED BY <2>1, <2>2
<1> QED BY <1>2, <1>12, <1>14, <1>15, <1>16 DEF ListsKeys, K, n, ks

-----------------------------------------------------------------------------
(* Payloads *)

(* A payload within the decoder's limits.                                  *)
PayloadFits(p) ==
  /\ IsPayload(p)
  /\ Cardinality(DOMAIN Content(p)) <= MaxEntries
  /\ 7 \in DOMAIN Content(p) => ExtensionFits(Content(p)[7])

(* What follows from IsPayload; the required fields are always pushed.     *)
LEMMA PayloadShape ==
  ASSUME NEW p, IsPayload(p)
  PROVE  LET f == Content(p)
             K == PushedKeys(f)
         IN  /\ p = <<"payload", f>> /\ p # Error
             /\ f = [k \in DOMAIN f |-> f[k]]
             /\ {1, 2} \subseteq K /\ K \subseteq DOMAIN f /\ DOMAIN f \subseteq Fields
             /\ \A k \in DOMAIN f : f[k] \in FieldValue(k) /\ f[k] \in Value[MaxNesting]
             /\ IsFiniteSet(DOMAIN f)
<1> DEFINE f == Content(p)
<1>1. /\ p = <<"payload", f>> /\ f = [k \in DOMAIN f |-> f[k]]
      /\ {1, 2} \subseteq DOMAIN f /\ DOMAIN f \subseteq Fields
      /\ \A k \in DOMAIN f : f[k] \in FieldValue(k)
  BY DEF IsPayload
<1> HIDE DEF f
<1>2. p # Error
  BY <1>1 DEF Error
<1>3. {1, 2} \subseteq PushedKeys(f) /\ PushedKeys(f) \subseteq DOMAIN f
  BY <1>1 DEF PushedKeys
<1>4. \A k \in DOMAIN f : f[k] \in Value[MaxNesting]
  BY <1>1, FieldInLevel
<1>5. IsFiniteSet(DOMAIN f)
  BY <1>1, PushLists
<1> QED BY <1>1, <1>2, <1>3, <1>4, <1>5 DEF f

(* The encoding of a payload: the fields by their keys.                    *)
FieldItems(f) ==
  LET ks == KeyList(PushedKeys(f))
  IN [j \in 1..Cardinality(PushedKeys(f)) |->
        <<Short(Uint(ks[j])), encode_value[MaxNesting][f[ks[j]]]>>]

(* The encoding of a payload is a map of its pushed fields by ascending    *)
(* key.                                                                    *)
LEMMA EncodedPayload ==
  ASSUME NEW p, IsPayload(p)
  PROVE  encode_payload(p) = Short(Map(FieldItems(Content(p))))
<1> DEFINE f == Content(p)
           K == PushedKeys(f)
           n == Cardinality(K)
           ks == KeyList(K)
           es == Entries(f)
           enc == encode_value[MaxNesting]
<1>1. es = [k \in 1..n |-> <<ks[k], f[ks[k]]>>]
  <2>1. DOMAIN f \subseteq Fields /\ \A k \in DOMAIN f : f[k] \in Value[MaxNesting]
    BY PayloadShape
  <2> HIDE DEF f
  <2> QED BY <2>1, EntriesByKey
<1>2. encode_payload(p) = encode_entries(enc, es)
  BY DEF encode_payload
<1> HIDE DEF f, K, n, ks, es, enc
<1>3. [j \in DOMAIN es |-> <<Short(Uint(es[j][1])), enc[es[j][2]]>>]
        = [j \in 1..n |-> <<Short(Uint(ks[j])), enc[f[ks[j]]]>>]
  BY <1>1
<1> QED BY <1>2, <1>3 DEF encode_entries, FieldItems, f, K, n, ks, enc

(* It is CBOR that a decoder may be given.                                 *)
LEMMA EncodedTyped ==
  ASSUME NEW p, IsPayload(p)
  PROVE  encode_payload(p) \in PayloadItem
<1> DEFINE f == Content(p)
           V == Value[MaxNesting]
           S == ItemTree[MaxNesting]
           es == Entries(f)
           enc == encode_value[MaxNesting]
           K == PushedKeys(f)
           ks == KeyList(K)
<1>1. MaxNesting \in 0..MaxNesting
  OBVIOUS
<1>2. \A v \in V : enc[v] \in S
  BY <1>1, EncoderTyped
<1>3. \A n \in Nat : Short(Uint(n)) \in S
  BY <1>1, AtLevel, ShortItems
<1>4. es \in Seq(Nat \X V)
  <2>1. DOMAIN f \subseteq Fields /\ K \subseteq DOMAIN f /\ \A k \in DOMAIN f : f[k] \in V
    BY PayloadShape
  <2> HIDE DEF f, V, K, ks
  <2>2. /\ Cardinality(K) \in Nat /\ ListsKeys(ks, K)
        /\ es = [k \in 1..Cardinality(K) |-> <<ks[k], f[ks[k]]>>]
    BY <2>1, EntriesByKey DEF K, ks
  <2>3. \A k \in 1..Cardinality(K) : ks[k] \in Nat /\ f[ks[k]] \in V
    <3>1. \A k \in 1..Cardinality(K) : ks[k] \in K
      BY <2>2 DEF ListsKeys
    <3>2. K \subseteq Nat
      BY <2>1 DEF Fields
    <3> QED BY <2>1, <3>1, <3>2
  <2> HIDE DEF es
  <2> QED BY <2>2, <2>3
<1> HIDE DEF es, enc, V, S
<1>5. encode_entries(enc, es) \in ItemOver(S)
  BY <1>2, <1>3, <1>4, EntriesEncoded
<1> QED BY <1>5 DEF encode_payload, PayloadItem, es, enc, S

(* The value of a field within the limits is encoded canonically.          *)
LEMMA FieldCanonical ==
  ASSUME NEW k \in Fields, NEW v \in FieldValue(k), k = 7 => ExtensionFits(v)
  PROVE  encode_value[MaxNesting][v] \in Canonical[MaxNesting]
<1> DEFINE N == MaxNesting
<1>1. N \in 0..MaxNesting /\ (N = 0 \/ N - 1 \in 0..MaxNesting)
  OBVIOUS
<1>2. v \in Value[N] /\ (k # 7 => Type(v) \in {"uint", "bstr"}) /\ (k = 7 => Type(v) = "map")
  BY FieldInLevel
<1>3. CASE k # 7
  BY <1>1, <1>2, <1>3, ScalarCanonical
<1>4. CASE k = 7
  <2>1. N = 0 \/ CanonicalAt(N - 1)
    BY <1>1, FitsCanonical
  <2>2. MapFits(Below(Fits, N), v, 0)
    BY <1>4 DEF ExtensionFits
  <2> QED BY <1>1, <1>2, <1>4, <2>1, <2>2, MapCanonical
<1> QED BY <1>3, <1>4

(* So is a whole payload within the limits.                                *)
LEMMA EncodedCanonical ==
  ASSUME NEW p, PayloadFits(p)
  PROVE  encode_payload(p) \in CanonicalOver(Canonical[MaxNesting])
<1> DEFINE f == Content(p)
           V == Value[MaxNesting]
           C == Canonical[MaxNesting]
           K == PushedKeys(f)
           n == Cardinality(K)
           ks == KeyList(K)
           es == Entries(f)
           enc == encode_value[MaxNesting]
<1>1. IsPayload(p) /\ (7 \in DOMAIN f => ExtensionFits(f[7]))
  BY DEF PayloadFits
<1>2. /\ DOMAIN f \subseteq Fields /\ K \subseteq DOMAIN f
      /\ \A k \in DOMAIN f : f[k] \in FieldValue(k) /\ f[k] \in V
  BY <1>1, PayloadShape
<1>3. \A k \in DOMAIN f : enc[f[k]] \in C
  BY <1>1, <1>2, FieldCanonical
<1> HIDE DEF f, V, C, K, ks, enc
<1>4. /\ n \in Nat /\ ListsKeys(ks, K)
      /\ es = [k \in 1..n |-> <<ks[k], f[ks[k]]>>]
  BY <1>2, EntriesByKey DEF K, ks
<1> HIDE DEF n, es
<1>5. \A j \in 1..n : ks[j] \in K /\ ks[j] \in Nat /\ f[ks[j]] \in V
  BY <1>2, <1>4 DEF ListsKeys, Fields, n
<1>6. \A j \in 1..n : es[j] = <<ks[j], f[ks[j]]>> /\ es[j][1] = ks[j] /\ es[j][2] = f[ks[j]]
  BY <1>4
<1>7. es \in Seq(Nat \X V) /\ DOMAIN es = 1..n
  BY <1>4, <1>5
<1>8. InOrder(es)
  <2>1. \A i, j \in 1..n : i < j => ks[i] < ks[j]
    BY <1>4 DEF ListsKeys, n
  <2>2. \A a, b \in Nat : a < b => a <= b
    OBVIOUS
  <2> QED BY <1>5, <1>6, <1>7, <2>1, <2>2 DEF InOrder
<1>9. \A j \in DOMAIN es : enc[es[j][2]] \in C
  BY <1>2, <1>3, <1>5, <1>6, <1>7
<1>10. encode_entries(enc, es) \in CanonicalOver(C)
  BY <1>7, <1>8, <1>9, EntriesCanonical
<1> QED BY <1>10 DEF encode_payload, es, enc, C, f

-----------------------------------------------------------------------------
(* decode_payload *)

(* The fields read from the entries ps of a payload.                       *)
EntryKey(ps) == [j \in DOMAIN ps |-> Content(decode_uint(ps[j][1]))]
EntryRead(ps, j) ==
  IF EntryKey(ps)[j] \in Fields THEN decode_field(EntryKey(ps)[j], ps[j][2])
  ELSE IF EntryKey(ps)[j] >= 100 /\ ps[j][2] \in skip_value_depth[MaxNesting][0]
  THEN ps[j][2]
  ELSE Error
Present(ps) == {EntryKey(ps)[j] : j \in DOMAIN ps} \cap Fields
EntriesRead(ps) ==
  /\ \A j \in DOMAIN ps : decode_uint(ps[j][1]) # Error
  /\ Ascending(EntryKey(ps))
  /\ \A j \in DOMAIN ps : EntryRead(ps, j) # Error
  /\ {1, 2} \subseteq Present(ps)
PayloadOf(ps) ==
  <<"payload", [k \in Present(ps) |->
                  EntryRead(ps, CHOOSE j \in DOMAIN ps : EntryKey(ps)[j] = k)]>>

(* decode_payload is PayloadOf of the entries, or the error.               *)
LEMMA DecodePayload ==
  ASSUME NEW i
  PROVE  decode_payload(i) =
           IF map_items(i) # Error /\ EntriesRead(Content(i)) THEN PayloadOf(Content(i)) ELSE Error
<1> DEFINE ps == Content(i)
           heads == [j \in DOMAIN ps |-> decode_uint(ps[j][1])]
           key == [j \in DOMAIN ps |-> Content(heads[j])]
           Read(j) == IF key[j] \in Fields THEN decode_field(key[j], ps[j][2])
                      ELSE IF key[j] >= 100 /\ ps[j][2] \in skip_value_depth[MaxNesting][0]
                      THEN ps[j][2]
                      ELSE Error
           present == {key[j] : j \in DOMAIN ps} \cap Fields
           result == <<"payload", [k \in present |-> Read(CHOOSE j \in DOMAIN ps : key[j] = k)]>>
           fails == \/ \E j \in DOMAIN ps : heads[j] = Error
                    \/ ~Ascending(key)
                    \/ \E j \in DOMAIN ps : Read(j) = Error
                    \/ ~({1, 2} \subseteq present)
<1>1. decode_payload(i) = IF map_items(i) = Error THEN Error ELSE IF fails THEN Error ELSE result
  BY DEF decode_payload
<1>2. key = EntryKey(ps)
  BY DEF EntryKey
<1>3. \A j : Read(j) = EntryRead(ps, j)
  BY <1>2 DEF EntryRead
<1>4. present = Present(ps)
  BY <1>2 DEF Present
<1>5. fails <=> ~EntriesRead(ps)
  <2>1. (\E j \in DOMAIN ps : heads[j] = Error) <=> ~(\A j \in DOMAIN ps : decode_uint(ps[j][1]) # Error)
    OBVIOUS
  <2> HIDE DEF ps, heads, key, Read, present
  <2> QED BY <1>2, <1>3, <1>4, <2>1 DEF EntriesRead
<1>6. result = PayloadOf(ps)
  <2> HIDE DEF ps, heads, key, Read, present
  <2> QED BY <1>2, <1>3, <1>4 DEF PayloadOf
<1> HIDE DEF ps, fails, result
<1> QED BY <1>1, <1>5, <1>6 DEF ps

(* Whatever is decoded is a payload within the limits.                     *)
LEMMA DecodedFits ==
  ASSUME NEW i \in PayloadItem, decode_payload(i) # Error
  PROVE  PayloadFits(decode_payload(i))
<1> DEFINE ps == Content(i)
           S == ItemTree[MaxNesting]
           p == decode_payload(i)
           f == [k \in Present(ps) |-> EntryRead(ps, CHOOSE j \in DOMAIN ps : EntryKey(ps)[j] = k)]
<1>1. map_items(i) # Error /\ EntriesRead(ps) /\ p = PayloadOf(ps)
  BY DecodePayload
<1>2. ps \in Seq(S \X S) /\ Len(ps) <= MaxEntries
  BY <1>1, HeadsRead DEF PayloadItem
<1>3. p = <<"payload", f>> /\ Content(p) = f
  BY <1>1 DEF PayloadOf, Content
<1> HIDE DEF ps, S, p
<1>4. DOMAIN ps = 1..Len(ps) /\ Len(ps) \in Nat /\ \A j \in DOMAIN ps : ps[j][2] \in S
  BY <1>2
<1>5. ASSUME NEW k \in Present(ps)
      PROVE  k \in Fields /\ f[k] \in FieldValue(k) /\ (k = 7 => ExtensionFits(f[k]))
  <2> DEFINE j == CHOOSE j \in DOMAIN ps : EntryKey(ps)[j] = k
  <2>1. k \in Fields /\ \E j1 \in DOMAIN ps : EntryKey(ps)[j1] = k
    BY DEF Present
  <2>2. j \in DOMAIN ps /\ EntryKey(ps)[j] = k
    BY <2>1
  <2>3. f[k] = EntryRead(ps, j)
    OBVIOUS
  <2> HIDE DEF j, f
  <2>4. EntryRead(ps, j) = decode_field(k, ps[j][2]) /\ EntryRead(ps, j) # Error
    BY <1>1, <2>1, <2>2 DEF EntryRead, EntriesRead
  <2>5. ps[j][2] \in ItemTree[MaxNesting]
    BY <1>4, <2>2 DEF S
  <2> QED BY <2>1, <2>3, <2>4, <2>5, FieldRead
<1>6. DOMAIN f = Present(ps)
  OBVIOUS
<1>7. f = [k \in DOMAIN f |-> f[k]]
  OBVIOUS
<1> HIDE DEF f
<1>8. IsPayload(p)
  <2>1. {1, 2} \subseteq Present(ps) /\ Present(ps) \subseteq Fields
    BY <1>1 DEF EntriesRead, Present
  <2> QED BY <1>3, <1>5, <1>6, <1>7, <2>1 DEF IsPayload
<1>9. Cardinality(DOMAIN f) <= MaxEntries
  <2> DEFINE D == DOMAIN ps
             R == {EntryKey(ps)[j] : j \in D}
  <2>1. IsFiniteSet(D) /\ Cardinality(D) = Len(ps)
    BY <1>4, FirstNumbers
  <2>2. [j \in D |-> EntryKey(ps)[j]] \in Surjection(D, R)
    BY DEF Surjection
  <2> HIDE DEF D
  <2>3. IsFiniteSet(R) /\ Cardinality(R) <= Len(ps)
    <3> HIDE DEF R
    <3> QED BY <2>1, <2>2, FS_Surjection
  <2>4. Present(ps) \in SUBSET R
    BY DEF Present, D
  <2> HIDE DEF R
  <2>5. IsFiniteSet(Present(ps)) /\ Cardinality(Present(ps)) <= Cardinality(R)
    BY <2>3, <2>4, FS_Subset
  <2>6. Cardinality(Present(ps)) \in Nat /\ Cardinality(R) \in Nat
    BY <2>3, <2>5, FS_CardinalityType
  <2>7. \A a, b, c \in Nat : a <= b /\ b <= c /\ c <= MaxEntries => a <= MaxEntries
    OBVIOUS
  <2>8. Cardinality(Present(ps)) <= MaxEntries
    BY <1>2, <1>4, <2>3, <2>5, <2>6, <2>7
  <2> QED BY <1>6, <2>8
<1>10. 7 \in DOMAIN f => ExtensionFits(f[7])
  BY <1>5, <1>6
<1> QED BY <1>3, <1>8, <1>9, <1>10 DEF PayloadFits, p

(* A payload within the limits is decoded from its encoding as one that    *)
(* has the same encoding, and as itself when its extension map is in order *)
(* and not empty.                                                          *)
LEMMA PayloadReadBack ==
  ASSUME NEW p, PayloadFits(p)
  PROVE  LET q == decode_payload(encode_payload(p))
             f == Content(p)
         IN  /\ q # Error /\ encode_payload(q) = encode_payload(p)
             /\ (7 \in DOMAIN f => f[7] # Map(<<>>) /\ f[7] \in Sorted[MaxNesting]) => q = p
<1> DEFINE f == Content(p)
           K == PushedKeys(f)
           n == Cardinality(K)
           ks == KeyList(K)
           enc == encode_value[MaxNesting]
           ps == FieldItems(f)
           i == encode_payload(p)
           g == [k \in K |-> decode_field(k, enc[f[k]])]
           q == <<"payload", g>>
<1>1. IsPayload(p) /\ (7 \in DOMAIN f => ExtensionFits(f[7])) /\ Cardinality(DOMAIN f) <= MaxEntries
  BY DEF PayloadFits
<1>2. /\ p = <<"payload", f>> /\ f = [k \in DOMAIN f |-> f[k]]
      /\ {1, 2} \subseteq K /\ K \subseteq DOMAIN f /\ DOMAIN f \subseteq Fields
      /\ \A k \in DOMAIN f : f[k] \in FieldValue(k) /\ f[k] \in Value[MaxNesting]
      /\ IsFiniteSet(DOMAIN f)
  BY <1>1, PayloadShape
<1>3. i = Short(Map(ps))
  BY <1>1, EncodedPayload
<1>4. K = {k \in DOMAIN f : ~(k = 7 /\ f[k] = Map(<<>>))}
  BY DEF PushedKeys
<1>5. ps = [j \in 1..n |-> <<Short(Uint(ks[j])), enc[f[ks[j]]]>>]
  BY DEF FieldItems
<1>6. n \in Nat /\ ListsKeys(ks, K)
  <2>1. DOMAIN f \subseteq Fields /\ \A k \in DOMAIN f : f[k] \in Value[MaxNesting]
    BY <1>2
  <2> HIDE DEF f, n
  <2> QED BY <2>1, EntriesByKey DEF n
<1>7. /\ ks \in [1..n -> K]
      /\ \A j, k \in 1..n : j < k => ks[j] < ks[k]
      /\ \A k \in K : \E j \in 1..n : ks[j] = k
  BY <1>6 DEF ListsKeys
<1>8. n <= MaxEntries
  <2>1. K \in SUBSET DOMAIN f
    BY <1>2
  <2>2. Cardinality(K) <= Cardinality(DOMAIN f)
    BY <1>2, <2>1, FS_Subset
  <2>3. Cardinality(DOMAIN f) \in Nat
    BY <1>2, FS_CardinalityType
  <2> HIDE DEF K, f
  <2> QED BY <1>1, <1>6, <2>2, <2>3
<1>9. ASSUME NEW k \in K
      PROVE  /\ k \in Fields /\ g[k] # Error /\ g[k] \in FieldValue(k) /\ enc[g[k]] = enc[f[k]]
             /\ k # 7 => g[k] = f[k]
             /\ k = 7 => /\ Len(Content(g[k])) = Len(Content(f[k]))
                         /\ f[k] \in Sorted[MaxNesting] => g[k] = f[k]
  <2>1. k \in Fields /\ f[k] \in FieldValue(k) /\ (k = 7 => ExtensionFits(f[k]))
    BY <1>1, <1>2
  <2>2. g[k] = decode_field(k, enc[f[k]])
    OBVIOUS
  <2> HIDE DEF f, K, g
  <2> QED BY <2>1, <2>2, FieldReadBack
<1>10. DOMAIN g = K /\ g = [k \in DOMAIN g |-> g[k]] /\ Content(q) = g
  BY DEF Content
<1> HIDE DEF f, K, ks, enc, ps, g, i
<1>11. K \subseteq Fields /\ Fields \subseteq Nat /\ \A k \in Fields : k > 0
  BY <1>2 DEF Fields
<1>12. Len(ps) = n /\ DOMAIN ps = 1..n
       /\ \A j \in 1..n : ps[j][1] = Short(Uint(ks[j])) /\ ps[j][2] = enc[f[ks[j]]]
  BY <1>5, <1>6
<1>13. map_items(i) # Error /\ Content(i) = ps
  BY <1>3, <1>8, <1>12, ShortRead
<1>14. ASSUME NEW j \in 1..n
       PROVE  decode_uint(ps[j][1]) # Error /\ EntryKey(ps)[j] = ks[j]
  <2>1. decode_uint(ps[j][1]) = Uint(ks[j])
    BY <1>12, ShortRead
  <2> QED BY <1>12, <2>1, NotError DEF EntryKey
<1>15. EntryKey(ps) = [j \in 1..n |-> ks[j]]
  BY <1>12, <1>14 DEF EntryKey
<1>16. Present(ps) = K
  <2>1. {EntryKey(ps)[j] : j \in 1..n} = K
    BY <1>7, <1>14
  <2> QED BY <1>11, <1>12, <2>1 DEF Present
<1>17. ASSUME NEW j \in 1..n
       PROVE  EntryRead(ps, j) = g[ks[j]] /\ EntryRead(ps, j) # Error
  <2>1. ks[j] \in K /\ ks[j] \in Fields
    BY <1>7, <1>11
  <2>2. EntryRead(ps, j) = decode_field(ks[j], enc[f[ks[j]]])
    BY <1>12, <1>14, <2>1 DEF EntryRead
  <2>3. g[ks[j]] = decode_field(ks[j], enc[f[ks[j]]])
    BY <2>1 DEF g
  <2> QED BY <1>9, <2>1, <2>2, <2>3
<1>18. Ascending(EntryKey(ps))
  <2> SUFFICES ASSUME NEW j \in 1..n
               PROVE  EntryKey(ps)[j] > IF j = 1 THEN 0 ELSE EntryKey(ps)[j - 1]
    BY <1>15 DEF Ascending
  <2>1. EntryKey(ps)[j] = ks[j] /\ ks[j] > 0 /\ ks[j] \in Nat
    BY <1>7, <1>11, <1>14
  <2>2. CASE j = 1
    BY <2>1, <2>2
  <2>3. CASE j # 1
    <3>1. j - 1 \in 1..n /\ j - 1 < j
      BY <1>6, <2>3
    <3>2. ks[j - 1] < ks[j] /\ ks[j - 1] \in Nat /\ EntryKey(ps)[j - 1] = ks[j - 1]
      BY <1>7, <1>11, <1>14, <3>1
    <3> QED BY <2>1, <2>3, <3>2
  <2> QED BY <2>2, <2>3
<1>19. decode_payload(i) = q
  <2>1. EntriesRead(ps)
    BY <1>2, <1>12, <1>14, <1>16, <1>17, <1>18 DEF EntriesRead
  <2>2. decode_payload(i) = PayloadOf(ps)
    BY <1>13, <2>1, DecodePayload
  <2>3. ASSUME NEW k \in K
        PROVE  EntryRead(ps, CHOOSE j \in DOMAIN ps : EntryKey(ps)[j] = k) = g[k]
    <3> DEFINE j == CHOOSE j \in DOMAIN ps : EntryKey(ps)[j] = k
    <3>1. \E j1 \in DOMAIN ps : EntryKey(ps)[j1] = k
      BY <1>7, <1>12, <1>14
    <3>2. j \in DOMAIN ps /\ EntryKey(ps)[j] = k
      BY <3>1
    <3> HIDE DEF j
    <3>3. EntryRead(ps, j) = g[ks[j]] /\ ks[j] = k
      BY <1>12, <1>14, <1>17, <3>2
    <3> QED BY <3>3 DEF j
  <2>4. [k \in K |-> EntryRead(ps, CHOOSE j \in DOMAIN ps : EntryKey(ps)[j] = k)] = g
    BY <1>10, <2>3
  <2> QED BY <1>16, <2>2, <2>4 DEF PayloadOf
<1>20. q # Error
  BY DEF Error
<1>21. encode_payload(q) = i
  <2>1. IsPayload(q)
    <3>1. q = <<"payload", g>>
      OBVIOUS
    <3> QED BY <1>2, <1>9, <1>10, <1>11, <3>1 DEF IsPayload
  <2>2. PushedKeys(g) = K
    <3>1. ASSUME NEW k \in K, k = 7 PROVE g[k] # Map(<<>>)
      <4>1. Len(Content(g[k])) = Len(Content(f[k])) /\ f[k] \in FieldValue(7)
        BY <1>2, <1>9, <3>1
      <4>2. f[k] \in Value[MaxNesting] /\ Type(f[k]) = "map" /\ f[k] # Map(<<>>)
        BY <1>4, <3>1, <4>1, FieldValues
      <4>3. MaxNesting \in 0..MaxNesting
        OBVIOUS
      <4>4. f[k] \in ValueOver(ValuesBelow(MaxNesting))
        BY <4>2, <4>3, AtLevel
      <4>5. f[k] = Map(Content(f[k])) /\ Content(f[k]) \in Seq(Nat \X ValuesBelow(MaxNesting))
        BY <4>2, <4>4, ValueShape DEF Map
      <4>6. Content(f[k]) # <<>>
        BY <4>2, <4>5
      <4>7. Len(Content(f[k])) # 0
        BY <4>5, <4>6
      <4>8. Content(Map(<<>>)) = <<>> /\ Len(<<>>) = 0
        BY NotError
      <4> QED BY <4>1, <4>7, <4>8
    <3> QED BY <1>10, <3>1 DEF PushedKeys
  <2>3. FieldItems(g) = ps
    <3>1. FieldItems(g) = [j \in 1..n |-> <<Short(Uint(ks[j])), enc[g[ks[j]]]>>]
      BY <2>2 DEF FieldItems, ks, enc
    <3>2. \A j \in 1..n : enc[g[ks[j]]] = enc[f[ks[j]]]
      BY <1>7, <1>9
    <3> QED BY <1>5, <3>1, <3>2
  <2> HIDE DEF q
  <2>4. encode_payload(q) = Short(Map(FieldItems(Content(q))))
    BY <2>1, EncodedPayload
  <2> QED BY <1>3, <1>10, <2>3, <2>4
<1>22. ASSUME 7 \in DOMAIN f => f[7] # Map(<<>>) /\ f[7] \in Sorted[MaxNesting] PROVE q = p
  <2>1. K = DOMAIN f
    BY <1>4, <1>22
  <2>2. \A k \in K : g[k] = f[k]
    BY <1>9, <1>22, <2>1
  <2>3. g = f
    BY <1>2, <1>10, <2>1, <2>2
  <2> QED BY <1>2, <2>3
<1> HIDE DEF q
<1> QED BY <1>19, <1>20, <1>21, <1>22 DEF i, f

-----------------------------------------------------------------------------
(* The way of a payload *)

(* What is sent with a payload is its encoding, and the verdict is that of *)
(* the re-encoding test.                                                   *)
CodecInv ==
  /\ stage \in {"built", "handed", "sent", "refused", "judged"}
  /\ payload # Error => IsPayload(payload)
  /\ stage = "handed" => payload = Error /\ wire \in PayloadItem
  /\ stage = "built" => payload # Error
  /\ stage \in {"sent", "judged"} =>
       wire \in PayloadItem /\ (payload # Error => wire = encode_payload(payload))
  /\ stage # "judged" => read = Error /\ accepted = FALSE
  /\ stage = "judged" => accepted = is_strictly_deterministic(wire) /\ read = decode_payload(wire)

(* It holds at first, of what a signer may build and a caller hand over.   *)
LEMMA CodecInit ==
  Init => CodecInv
<1> SUFFICES ASSUME Init PROVE CodecInv
  OBVIOUS
<1>1. \A p \in Payloads : IsPayload(p) /\ p # Error
  BY CodecAssumption, PayloadShape
<1>2. Wires \subseteq PayloadItem
  BY CodecAssumption
<1> QED BY <1>1, <1>2 DEF Init, CodecInv

(* Every step keeps it: an imported payload is one because the decoder made*)
(* it.                                                                     *)
LEMMA CodecNext ==
  CodecInv /\ [Next]_vars => CodecInv'
<1> SUFFICES ASSUME CodecInv, [Next]_vars PROVE CodecInv'
  OBVIOUS
<1>1. CASE Import
  <2>1. wire \in PayloadItem /\ payload' = decode_payload(wire)
    BY <1>1 DEF Import, CodecInv
  <2>2. payload' # Error => IsPayload(payload')
    BY <2>1, DecodedFits DEF PayloadFits
  <2> QED BY <1>1, <2>1, <2>2 DEF Import, CodecInv
<1>2. CASE Sign
  <2>1. payload # Error /\ IsPayload(payload) /\ encode_payload(payload) \in PayloadItem
    BY <1>2, EncodedTyped DEF Sign, CodecInv
  <2> QED BY <1>2, <2>1 DEF Sign, CodecInv
<1>3. CASE Forward
  BY <1>3 DEF Forward, CodecInv
<1>4. CASE Verify
  BY <1>4 DEF Verify, CodecInv
<1>5. CASE UNCHANGED vars
  BY <1>5 DEF vars, CodecInv
<1> QED BY <1>1, <1>2, <1>3, <1>4, <1>5 DEF Next

(* It is kept on the whole way, by signers, the bindings and the verifier. *)
THEOREM CodecInductive ==
  Spec => []CodecInv
BY CodecInit, CodecNext, PTL DEF Spec

(* The variables keep their types: what the verifier reads is a payload.   *)
THEOREM CodecTypeCorrect ==
  Spec => []TypeOK
<1>1. CodecInv => TypeOK
  <2> SUFFICES ASSUME CodecInv PROVE TypeOK
    OBVIOUS
  <2>1. accepted \in BOOLEAN
    BY DEF CodecInv, is_strictly_deterministic
  <2>2. ASSUME read # Error
        PROVE  /\ {1, 2} \subseteq DOMAIN Content(read) /\ DOMAIN Content(read) \subseteq Fields
               /\ \A k \in DOMAIN Content(read) : FieldType(k) = "hash" => Content(read)[k] = Bstr(Hash32)
               /\ Content(Content(read)[2]) \in Predicates
    <3>1. wire \in PayloadItem /\ read = decode_payload(wire)
      BY <2>2 DEF CodecInv
    <3>2. IsPayload(read)
      BY <2>2, <3>1, DecodedFits DEF PayloadFits
    <3>3. /\ {1, 2} \subseteq DOMAIN Content(read) /\ DOMAIN Content(read) \subseteq Fields
          /\ \A k \in DOMAIN Content(read) : Content(read)[k] \in FieldValue(k)
      BY <3>2 DEF IsPayload
    <3>4. \A k \in DOMAIN Content(read) : FieldType(k) = "hash" => Content(read)[k] = Bstr(Hash32)
      BY <3>3 DEF FieldValue
    <3>5. Content(read)[2] \in {"uint"} \X Predicates
      BY <3>3, FieldValues
    <3>6. Content(Content(read)[2]) \in Predicates
      BY <3>5 DEF Content
    <3> QED BY <3>3, <3>4, <3>6
  <2> QED BY <2>1, <2>2 DEF CodecInv, TypeOK
<1> QED BY <1>1, CodecInductive, PTL

(* Whatever the verifier takes for deterministic CBOR is canonical at      *)
(* every depth.                                                            *)
THEOREM AcceptsOnlyCanonical ==
  Spec => []AcceptedIsCanonical
<1>1. CodecInv => AcceptedIsCanonical
  <2> SUFFICES ASSUME CodecInv, Judged, accepted
               PROVE  wire \in CanonicalOver(Canonical[MaxNesting])
    BY DEF AcceptedIsCanonical
  <2>1. /\ wire \in PayloadItem /\ decode_payload(wire) # Error
        /\ encode_payload(decode_payload(wire)) = wire
    BY DEF CodecInv, Judged, is_strictly_deterministic
  <2>2. PayloadFits(decode_payload(wire))
    BY <2>1, DecodedFits
  <2>3. encode_payload(decode_payload(wire)) \in CanonicalOver(Canonical[MaxNesting])
    BY <2>2, EncodedCanonical
  <2> QED BY <2>1, <2>3
<1> QED BY <1>1, CodecInductive, PTL

(* What a signer may build within the decoder's limits is accepted and     *)
(* read back as it was.                                                    *)
THEOREM ReadsBackWhatWasSigned ==
  Spec => []SignedIsReadBack
<1>1. CodecInv => SignedIsReadBack
  <2> SUFFICES ASSUME CodecInv, Judged, payload # Error, Readable(payload)
               PROVE  accepted /\ read = payload
    BY DEF SignedIsReadBack
  <2>1. /\ IsPayload(payload) /\ wire = encode_payload(payload)
        /\ accepted = is_strictly_deterministic(wire) /\ read = decode_payload(wire)
    BY DEF CodecInv, Judged
  <2>2. PayloadFits(payload)
    BY <2>1 DEF PayloadFits, Readable, ExtensionFits
  <2>3. 7 \in DOMAIN Content(payload) =>
          Content(payload)[7] # Map(<<>>) /\ Content(payload)[7] \in Sorted[MaxNesting]
    BY DEF Readable
  <2>4. decode_payload(encode_payload(payload)) = payload
    BY <2>2, <2>3, PayloadReadBack
  <2> QED BY <2>1, <2>4 DEF is_strictly_deterministic
<1> QED BY <1>1, CodecInductive, PTL

(* What a caller hands over and the bindings decode, nulls and text under  *)
(* unknown keys included, is signed as something that verifies, and is     *)
(* read as something that is encoded the same.                             *)
THEOREM VerifiesWhatWasImported ==
  Spec => []ImportedVerifies
<1>1. CodecInv => ImportedVerifies
  <2> SUFFICES ASSUME CodecInv, Judged, payload # Error, NEW w \in Wires, payload = decode_payload(w)
               PROVE  accepted /\ encode_payload(read) = wire
    BY DEF ImportedVerifies
  <2>1. /\ wire = encode_payload(payload)
        /\ accepted = is_strictly_deterministic(wire) /\ read = decode_payload(wire)
    BY DEF CodecInv, Judged
  <2>2. w \in PayloadItem
    BY CodecAssumption
  <2>3. PayloadFits(payload)
    BY <2>2, DecodedFits
  <2>4. /\ decode_payload(wire) # Error
        /\ encode_payload(decode_payload(wire)) = wire
    BY <2>1, <2>3, PayloadReadBack
  <2> QED BY <2>1, <2>4 DEF is_strictly_deterministic
<1> QED BY <1>1, CodecInductive, PTL

=============================================================================
