---------------------------- MODULE MCFrontEnds ----------------------------
(* Instance of FrontEnds for TLC: one statement of every kind about or      *)
(* after another, the files of which come and go.                           *)
EXTENDS FrontEnds, TLC

CONSTANTS k1, k2, c1   \* two keys, and the composite of the first and second

MCKidHash == (k1 :> 101) @@ (k2 :> 102) @@ (c1 :> 103)
MCCompositeOf == [p \in Keys \X Keys |-> IF p = <<k1, k2>> THEN c1 ELSE p[1]]

Base ==
  [form |-> "ok", alg |-> "ed25519", kid |-> k1, signer |-> k1,
   predicate |-> "attests", subject |-> 10, object |-> None,
   timestamp |-> None, lineage |-> None, nonce |-> FALSE,
   anchor_hash |-> "none", recovery_policy |-> None, anchor |-> None]

Revokes  == [Base EXCEPT !.predicate = "revokes", !.subject = 1, !.object = 1]
Recovers == [Base EXCEPT !.predicate = "recovers", !.subject = 101, !.object = 1]
Follows(t) == [Base EXCEPT !.lineage = 1, !.timestamp = t]
Anchored(t, h) ==
  [Base EXCEPT !.timestamp = 0, !.anchor_hash = h,
     !.anchor = [log |-> 1, signed |-> TRUE, included |-> TRUE, ts |-> t]]

Stamped   == [Base EXCEPT !.timestamp = 1]
Foreign   == [Base EXCEPT !.kid = k2, !.signer = k2]
Guarded(g) == [Base EXCEPT !.recovery_policy = [ok |-> TRUE, guardians |-> g]]

MCPools ==
  {<<Stamped, Follows(1)>>, <<Stamped, Follows(2)>>, <<Base, Revokes>>, <<Foreign, Revokes>>,
   <<Guarded({101}), Recovers>>, <<Guarded({102}), Recovers>>}
  \cup {<<Base, b>> : b \in
          {[Base EXCEPT !.alg = "composite", !.kid = c1, !.signer = c1],
           [Base EXCEPT !.alg = "mldsa65", !.kid = k2, !.signer = k2],
           [Base EXCEPT !.form = "noncanonical"],
           Anchored(0, "match"), Anchored(1, "match"), Anchored(1, "none")}}

MCArgs ==
  {[pubkey |-> p, mldsa |-> None, log |-> 1] : p \in {None, k1, NoPoint, BadLength}}
  \cup {[pubkey |-> k1, mldsa |-> k2, log |-> l] : l \in {None, BadLength}}
  \cup {[pubkey |-> k1, mldsa |-> BadLength, log |-> 1]}

=============================================================================
