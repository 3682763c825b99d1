----------------------------- MODULE MCCustody -----------------------------
(* Instance of Custody for TLC. Two composites share their ML-DSA half, and *)
(* one of them its Ed25519 half with an application's plain key.            *)
EXTENDS Custody, TLC

CONSTANTS e1, e2, m1, p1, p2

MCOwnKeys == {Ed(e1), MlDsa65(m1)}
MCGenerable == {Composite(e1, m1), Composite(e2, m1)}

(* A producer's header of one algorithm and two kids, which names whichever *)
(* key a reader takes it to.                                                *)
MCHeaders ==
  {[entries |-> <<AlgEntry(-39), KidEntry(KidOf(Composite(e1, m1))),
                  KidEntry(KidOf(Composite(e2, m1)))>>, whole |-> TRUE]}

Symmetry == Permutations({p1, p2})

=============================================================================
