------------------------------- MODULE Checks -------------------------------
(* The checks verify_statement_with_warnings makes between its store calls, *)
(* as functions of the statements at hand: each answers the error the call  *)
(* returns, or None. Verifier makes them against a store that moves, and    *)
(* FrontEnds against the stores of the command line and the bindings.       *)
EXTENDS Statements

Error == {"MalformedCose", "NonCanonicalEncoding", "Crypto", "InvalidSignature",
          "Payload", "BrokenLineage", "LineageSubjectMismatch",
          "TimestampMonotonicityViolation", "RevokeIssuerMismatch",
          "RecoveryPolicyViolation", "AnchorHashMismatch", "InvalidLogProof",
          "Revoked"}
ASSUME ErrorAssumption == None \notin Error

Warning == {"TemporalEvidenceMissing", "RevocationStatusUnknown", "StaleSth"}

(* A revocation cache: the time up to which it is complete, and two lists.  *)
Cache == [checkpoint : Opt(Nat), revoked : SUBSET Stmts, not_revoked : SUBSET Stmts]

----------------------------------------------------------------------------
(* Parsing the envelope, the payload and the protected header.             *)
ParseError(s) ==
  IF s.form \in {"malformed", "badheader"} THEN "MalformedCose"
  ELSE IF s.form \in {"undecodable", "noncanonical"} THEN "NonCanonicalEncoding"
  ELSE IF s.form = "badalg" THEN "Crypto"
  ELSE None

(* A signature that does not verify: ed25519-dalek's own error arrives as  *)
(* Crypto, the other two schemes name it.                                  *)
SignatureError(s) == IF s.alg = "ed25519" THEN "Crypto" ELSE "InvalidSignature"

(* A chunk is about the subject of the statement it is appended to.        *)
SubjectOfChild(cur, prev) == prev.predicate = "appends" => prev.subject = cur.subject
SubjectKept(cur, prev) == cur.predicate = "appends" => prev.subject = cur.subject

(* A child is later than its parent, or as late with a nonce; a missing    *)
(* timestamp on either side is not compared.                               *)
NonceIgnored(cur, prev) ==
  cur.timestamp # None /\ prev.timestamp # None => cur.timestamp >= prev.timestamp
TimestampsOrdered(cur, prev) ==
  cur.timestamp # None /\ prev.timestamp # None =>
    \/ cur.timestamp > prev.timestamp
    \/ cur.timestamp = prev.timestamp /\ cur.nonce

LinkError(cur, prev) ==
  IF prev.form \in {"malformed", "undecodable", "noncanonical"} THEN "BrokenLineage"
  ELSE IF ~SubjectKept(cur, prev) THEN "LineageSubjectMismatch"
  ELSE IF ~TimestampsOrdered(cur, prev) THEN "TimestampMonotonicityViolation"
  ELSE None

RevokesAnyIssuer(s, revoked) ==
  IF s.subject # s.object THEN "Payload"
  ELSE IF revoked.form = "malformed" THEN "MalformedCose" ELSE None

(* REVOKES: s revokes the statement whose bytes the store served.          *)
RevokesError(s, revoked) ==
  IF s.subject # s.object THEN "Payload"
  ELSE IF revoked.form = "malformed" THEN "MalformedCose"
  ELSE IF s.kid # revoked.kid THEN "RevokeIssuerMismatch"
  ELSE IF /\ s.timestamp # None /\ revoked.timestamp # None
          /\ revoked.form # "undecodable"
          /\ s.timestamp <= revoked.timestamp
    THEN "TimestampMonotonicityViolation"
  ELSE None

(* The recovery policy of the statement fetched for a RECOVERS, if its      *)
(* bytes decode that far.                                                   *)
PolicyOf(lost) ==
  IF lost.form \in {"malformed", "undecodable"} THEN None ELSE lost.recovery_policy

RecoversAnyPolicy(s, policy) ==
  IF KidHash[s.kid] # s.subject THEN "RecoveryPolicyViolation" ELSE None

(* RECOVERS: the issuer must be the guardian, and listed if the fetched     *)
(* target has a policy.                                                     *)
RecoversError(s, policy) ==
  IF \/ KidHash[s.kid] # s.subject
     \/ policy # None /\ (~policy.ok \/ s.subject \notin policy.guardians)
  THEN "RecoveryPolicyViolation" ELSE None

SthBeforeStatement(s, logs) ==
  IF s.anchor_hash = "mismatch" THEN "AnchorHashMismatch"
  ELSE IF \/ s.anchor = None /\ s.anchor_hash = "match"
          \/ /\ s.anchor # None
             /\ s.anchor.log \notin logs \/ ~s.anchor.signed \/ ~s.anchor.included
    THEN "InvalidLogProof"
  ELSE None

(* The anchor_hash commitment and verify_temporal_anchor up to its         *)
(* revocation query: trusted log, tree head signature, inclusion, time.    *)
AnchorError(s, logs) ==
  IF s.anchor_hash = "mismatch" THEN "AnchorHashMismatch"
  ELSE IF s.anchor = None
    THEN IF s.anchor_hash = "match" THEN "InvalidLogProof" ELSE None
  ELSE IF \/ s.anchor.log \notin logs \/ ~s.anchor.signed
          \/ ~s.anchor.included
          \/ s.timestamp # None /\ s.anchor.ts < s.timestamp
    THEN "InvalidLogProof"
  ELSE None

CheckpointIgnored(cache, h, after) ==
  IF cache.checkpoint = None THEN "unknown"
  ELSE IF h \in cache.revoked THEN "revoked"
  ELSE IF h \in cache.not_revoked THEN "clean"
  ELSE "unknown"

CheckpointFailsOpen(cache, h, after) ==
  IF cache.checkpoint = None THEN "unknown"
  ELSE IF after > cache.checkpoint THEN "clean"
  ELSE IF h \in cache.revoked THEN "revoked" ELSE "clean"

(* is_revoked_in_log of the stores built over a revocation cache: definite  *)
(* only up to the cache's checkpoint, and only for the hashes it lists.     *)
CacheStatus(cache, h, after) ==
  IF cache.checkpoint = None \/ after > cache.checkpoint THEN "unknown"
  ELSE IF h \in cache.revoked THEN "revoked"
  ELSE IF h \in cache.not_revoked THEN "clean"
  ELSE "unknown"

=============================================================================
