-------------------------- MODULE VerifyContract --------------------------
(* What a caller of verify_statement_with_warnings is promised, without    *)
(* the pipeline: the call ends, and it ends in success only for a          *)
(* statement whose whole content is acceptable, judged in one step against *)
(* the pool of statements and with no store in between.                    *)
EXTENDS Statements

CONSTANTS Pools, Targets, KnownKeys, TrustedLogs, MaxLineageDepth, MaxSthDelta

VARIABLES
  pool, target,
  outcome,   \* "idle", "running", "accepted" or "rejected"
  notes,     \* the warnings returned with an accepted statement
  known      \* statements the store listed as revoked when the call began

vars == <<pool, target, outcome, notes, known>>

Authentic(s) ==
  /\ s.form = "ok" /\ s.kid \in KnownKeys /\ s.signer = s.kid
  /\ ObjectRequired(s) => s.object # None

(* The edge from s to its parent keeps the subject of a chunk and order.   *)
Edge(s, parent) ==
  /\ parent.form \in {"ok", "badheader", "badalg"}
  /\ s.predicate = "appends" => s.subject = parent.subject
  /\ s.timestamp # None /\ parent.timestamp # None =>
       \/ parent.timestamp < s.timestamp
       \/ parent.timestamp = s.timestamp /\ s.nonce

(* From the target on, every statement up to a root, or to the loop's      *)
(* bound, is there and holds against the next.                             *)
LineageHolds ==
  \E n \in 0..MaxLineageDepth : \E line \in [0..n -> Stmts] :
    /\ line[0] = target
    /\ \A i \in 1..n : /\ line[i] = pool[line[i - 1]].lineage
                      /\ Edge(pool[line[i - 1]], pool[line[i]])
    /\ n = MaxLineageDepth \/ pool[line[n]].lineage = None

Evidence(s) ==
  IF s.anchor = None THEN s.anchor_hash = "none"
  ELSE /\ s.anchor_hash # "mismatch"
       /\ s.anchor.log \in TrustedLogs /\ s.anchor.signed /\ s.anchor.included
       /\ s.timestamp # None => s.timestamp <= s.anchor.ts

Acceptable ==
  /\ Authentic(pool[target]) /\ LineageHolds /\ Evidence(pool[target])
  /\ pool[target].predicate = "recovers" /\ pool[target].object # None =>
       KidHash[pool[target].kid] = pool[target].subject

(* The warnings an accepted statement may carry.                           *)
Notes(s) ==
  IF s.anchor = None THEN {{"TemporalEvidenceMissing"}}
  ELSE LET stale == IF s.timestamp # None /\ s.anchor.ts > s.timestamp + MaxSthDelta
                    THEN {"StaleSth"} ELSE {}
       IN {stale \cup {"RevocationStatusUnknown"}}
          \cup IF target \in known THEN {} ELSE {stale}

Init ==
  /\ pool \in Pools /\ target \in Targets
  /\ outcome = "idle" /\ notes = {} /\ known = {}

Begin ==
  /\ outcome = "idle"
  /\ outcome' \in {"running", "rejected"}
  /\ known' \in SUBSET Stmts
  /\ UNCHANGED <<pool, target, notes>>

Accept ==
  /\ outcome = "running" /\ Acceptable
  /\ outcome' = "accepted" /\ notes' \in Notes(pool[target])
  /\ UNCHANGED <<pool, target, known>>

Reject ==
  /\ outcome = "running" /\ outcome' = "rejected"
  /\ UNCHANGED <<pool, target, notes, known>>

Next == Begin \/ Accept \/ Reject

Spec == Init /\ [][Next]_vars /\ WF_vars(Accept \/ Reject)

=============================================================================
