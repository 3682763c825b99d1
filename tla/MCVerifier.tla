---------------------------- MODULE MCVerifier ----------------------------
(* Instances of Verifier for TLC: the pools each run starts from.          *)
EXTENDS Verifier, TLC, FiniteSetsExt

CONSTANTS k1, k2

MCKidHash == (k1 :> 101) @@ (k2 :> 102)

(* A plain statement signed by k1; the pools vary it.                      *)
Base ==
  [form |-> "ok", alg |-> "ed25519", kid |-> k1, signer |-> k1,
   predicate |-> "attests", subject |-> 10, object |-> None,
   timestamp |-> None, lineage |-> None, nonce |-> FALSE,
   anchor_hash |-> "none", recovery_policy |-> None, anchor |-> None]

----------------------------------------------------------------------------
(* Lineage: four statements, each a link of one chain or its root          *)

Plain(i) ==
  {[Base EXCEPT !.lineage = l, !.timestamp = t] : t \in {None, 1, 2}, l \in Opt({i - 1})}

Chunk(i) ==
  {[Base EXCEPT !.lineage = i - 1, !.predicate = "appends", !.object = 10,
                !.subject = v[1], !.timestamp = v[2], !.nonce = v[3]] :
     v \in {<<10, 1, FALSE>>, <<10, 1, TRUE>>, <<10, 2, FALSE>>, <<11, 2, FALSE>>}}

NonCanonical == {[Base EXCEPT !.form = "noncanonical"]}

LineagePools ==
  {<<a, b, c, d>> : a \in {x \in Plain(1) : x.lineage = None},
                    b \in Plain(2) \cup Chunk(2) \cup NonCanonical,
                    c \in Chunk(3) \cup {x \in Plain(3) : x.lineage # None},
                    d \in Chunk(4) \cup {x \in Plain(4) : x.lineage # None}}

----------------------------------------------------------------------------
(* Relations: 4 revokes or recovers 3, whose bytes may be unavailable or   *)
(* replaced by those of 1, a statement of another issuer                   *)

Policies == {None, [ok |-> FALSE, guardians |-> {}], [ok |-> TRUE, guardians |-> {102}]}

Objects ==
  {[Base EXCEPT !.timestamp = t, !.recovery_policy = p, !.form = f] :
     t \in {None, 1}, p \in Policies, f \in {"ok", "malformed", "undecodable"}}

Others == {[Base EXCEPT !.kid = k2, !.signer = k2, !.recovery_policy = p] :
             p \in {None, [ok |-> TRUE, guardians |-> {101}]}}

Relations ==
  {[Base EXCEPT !.predicate = "revokes", !.subject = s, !.object = o, !.kid = k,
                !.signer = k, !.timestamp = t] :
     s \in {3, 10}, o \in {None, 3}, k \in {k1, k2}, t \in {None, 1, 2}}
  \cup
  {[Base EXCEPT !.predicate = "recovers", !.subject = s, !.object = o,
                !.kid = k, !.signer = k] :
     s \in {101, 102}, o \in {None, 3}, k \in {k1, k2}}

RelationPools == {<<a, Base, b, c>> : a \in Others, b \in Objects, c \in Relations}

PipelinePools == LineagePools \cup RelationPools

----------------------------------------------------------------------------
(* Evidence: one statement with every kind of anchor, algorithm and form   *)

Anchors == {None} \cup [log : {1, 2}, signed : BOOLEAN, included : BOOLEAN, ts : {1, 2, 3}]

EvidencePools ==
  {<<[Base EXCEPT !.anchor = a, !.anchor_hash = h, !.timestamp = t]>> :
     a \in Anchors, h \in {"none", "match", "mismatch"}, t \in {None, 2}}
  \cup {<<[Base EXCEPT !.form = f, !.alg = g, !.kid = k]>> :
          f \in Form, g \in Algorithm, k \in {k1, k2}}

=============================================================================
