---------------------------- MODULE MerkleTree ----------------------------
(* Merkle trees of a transparency log: the walk up an audit path that      *)
(* ct.rs computes, and the tree whose paths it verifies.                  *)
(* A hash is the term it was computed from, so SHA-256 is collision free   *)
(* and its 0x00 / 0x01 prefixes are the tags "leaf" and "node".            *)
EXTENDS Naturals, Sequences

Leaf(h) == <<"leaf", h>>
Node(left, right) == <<"node", left, right>>
Pad == <<"pad">>     \* the 32 zero bytes of a padding leaf

(* compute_root: the siblings are folded onto the leaf from the bottom,    *)
(* each on the side told by the next bit of the index.                     *)
Climb(acc, sibling) ==
  [node |-> IF acc.idx % 2 = 0 THEN Node(acc.node, sibling) ELSE Node(sibling, acc.node),
   idx |-> acc.idx \div 2]

compute_root(proof, h) ==
  LET at[k \in 0..Len(proof.siblings)] ==
        IF k = 0 THEN [node |-> Leaf(h), idx |-> proof.leaf_index]
        ELSE Climb(at[k - 1], proof.siblings[k])
  IN at[Len(proof.siblings)].node

(* Powers of two, and the least one that has room for n: the height of a   *)
(* padded tree of n leaves.                                                *)
Pow[d \in Nat] == IF d = 0 THEN 1 ELSE 2 * Pow[d - 1]
Height(n) == CHOOSE d \in 0..n : Pow[d] >= n /\ \A e \in 0..d - 1 : Pow[e] < n

(* The levels of the repository's own log, from the leaves up: the leaves  *)
(* are padded to a power of two, then hashed two by two.                   *)
Levels(leaves) ==
  LET level[d \in 0..Height(Len(leaves))] ==
        [i \in Nat |->
          IF d > 0 THEN Node(level[d - 1][2 * i], level[d - 1][2 * i + 1])
          ELSE IF i < Len(leaves) THEN Leaf(leaves[i + 1]) ELSE Pad]
  IN level

PaddedRoot(leaves) == IF leaves = <<>> THEN Pad ELSE Levels(leaves)[Height(Len(leaves))][0]

(* The position of a leaf's ancestor on each level.                        *)
Halvings(i) == LET half[k \in Nat] == IF k = 0 THEN i ELSE half[k - 1] \div 2 IN half
Sibling(i) == IF i % 2 = 0 THEN i + 1 ELSE i - 1

PaddedPath(leaves, i) ==
  [k \in 1..Height(Len(leaves)) |-> Levels(leaves)[k - 1][Sibling(Halvings(i)[k - 1])]]

=============================================================================
