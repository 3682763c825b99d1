------------------------- MODULE MCTransparencyLog -------------------------
(* Instances of TransparencyLog for TLC: what is submitted to the log.     *)
EXTENDS TransparencyLog, TLC

CONSTANTS c1, c2

(* Five entries make trees of every height up to three, full and not; one  *)
(* payload is logged twice, and one envelope is.                           *)
FiveEntries ==
  <<[of |-> c1, kind |-> "payload"], [of |-> c1, kind |-> "envelope"],
    [of |-> c2, kind |-> "payload"], [of |-> c1, kind |-> "payload"],
    [of |-> c2, kind |-> "envelope"]>>

StampOf == c1 :> 1 @@ c2 :> None

=============================================================================
