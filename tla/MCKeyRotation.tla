--------------------------- MODULE MCKeyRotation ---------------------------
(* Instances of KeyRotation for TLC: the rotation statements in the store. *)
EXTENDS KeyRotation

CONSTANTS k1, k2, k3

(* Every answer for one key: none, a SUPERSEDES about it with any          *)
(* predecessor and signer, and one each of the wrong predicate and subject.*)
Answers(k, other) ==
  {None}
  \cup {[supersedes |-> TRUE, subject |-> k, object |-> o, signer |-> g] :
          o \in Keys \cup {None}, g \in {k2, k3}}
  \cup {[supersedes |-> FALSE, subject |-> k, object |-> other, signer |-> other],
        [supersedes |-> TRUE, subject |-> other, object |-> other, signer |-> other]}

Chains ==
  {[k \in Keys |-> IF k = k1 THEN a ELSE IF k = k2 THEN b ELSE c] :
     a \in Answers(k1, k2), b \in Answers(k2, k3),
     c \in {None, [supersedes |-> TRUE, subject |-> k3, object |-> k1, signer |-> k1]}}

=============================================================================
