----------------------------- MODULE Verifier -----------------------------
(* verify_statement_with_warnings: one call of the verification pipeline   *)
(* against a TrustStore. The store is a trait object that may be a local   *)
(* cache or a remote node, so its answers may change between two of the    *)
(* calls the pipeline makes; every store call is one step of the pipeline. *)
EXTENDS Checks

CONSTANTS
  Pools,            \* the statement pools a behaviour may start from
  KnownKeys,        \* kids the store resolves (resolve_key and its siblings)
  TrustedLogs,      \* logs for which resolve_log_pubkey answers
  MaxLineageDepth,  \* MAX_LINEAGE_DEPTH
  MaxSthDelta,      \* MAX_STH_STALE_DELTA
  Targets,          \* statements the call may be made for
  Volatile,         \* bound: hashes whose served bytes may change
  Misfiled,         \* bound: statements served in place of another
  Revocable,        \* bound: statements that may be revoked in the log
  RevocableKeys,    \* bound: keys that may be revoked
  MaxTime,          \* bound: the latest time of the log and its caches
  Outages           \* bound: whether the store may go offline

ASSUME VerifierAssumption ==
  /\ KnownKeys \subseteq Keys /\ TrustedLogs \subseteq Nat
  /\ MaxLineageDepth \in Nat /\ MaxSthDelta \in Nat /\ MaxTime \in Nat
  /\ Targets \subseteq Stmts /\ Volatile \subseteq Stmts /\ Misfiled \subseteq Stmts
  /\ Revocable \subseteq Stmts /\ RevocableKeys \subseteq Keys
  /\ Outages \in BOOLEAN
ASSUME PoolsAssumption ==
  \A p \in Pools : p \in [Stmts -> Statement] /\ HashesPrecede(p)

VARIABLES
  pool,        \* content of every statement (never changes)
  target,      \* the statement passed to the call
  served,      \* what fetch_statement answers for each hash
  keyRevoked,  \* kids the store knows to be revoked
  now,         \* the time of the log
  revokedAt,   \* when the REVOKES of each statement was logged, if it was
  cache,       \* the store's revocation cache: checkpoint and two lists
  online,      \* whether the store can answer a status query
  pc,          \* the next step of the call
  err,         \* the error returned, None while running and on success
  path,        \* the statements walked so far, the current one last
  warnings,    \* VerificationWarnings
  atStart,     \* ghost: what the store knew when the call began
  unstable,    \* ghost: hashes not served with their own content at some time
  outage       \* ghost: the store was offline at some time during the call

store == <<served, keyRevoked, now, revokedAt, cache, online>>
call  == <<pc, err, path, warnings>>
ghost == <<atStart, unstable, outage>>
vars  == <<pool, target, store, call, ghost>>

T == pool[target]
logRevoked == {h \in Stmts : revokedAt[h] # None}
Accepted == pc = "done" /\ err = None

----------------------------------------------------------------------------
(* TrustStore answers *)

fetch_statement(h) == IF h \in Stmts THEN served[h] ELSE None

is_key_revoked(k) == online /\ k \in keyRevoked

(* What the store's revocation cache knows, unless it cannot answer.       *)
is_revoked_in_log(h, after) ==
  IF online THEN CacheStatus(cache, h, after) ELSE "unknown"

----------------------------------------------------------------------------
(* The checks that need the store's answers: the policy of the statement    *)
(* fetched for a RECOVERS (None if it is not at hand), the trusted logs.    *)
RecoversErrorAt(s, lost) ==
  RecoversError(s, IF lost = None THEN None ELSE PolicyOf(pool[lost]))
AnchorErrorOf(s) == AnchorError(s, TrustedLogs)

----------------------------------------------------------------------------
(* The pipeline *)

Init ==
  /\ pool \in Pools
  /\ target \in Targets
  /\ served \in [Stmts -> Opt(Stmts)]
  /\ \A h \in Stmts : served[h] \in {h} \cup (IF h \in Volatile THEN {None} ELSE {})
  /\ keyRevoked = {} /\ now = 0 /\ revokedAt = [h \in Stmts |-> None]
  /\ cache = [checkpoint |-> None, revoked |-> {}, not_revoked |-> {}]
  /\ online = TRUE
  /\ pc = "idle" /\ err = None /\ path = <<>> /\ warnings = {}
  /\ atStart = [keys |-> {}, stmts |-> {}] /\ unstable = {} /\ outage = FALSE

Fail(e) == pc' = "done" /\ err' = e /\ UNCHANGED <<path, warnings>>
Continue(label) == pc' = label /\ UNCHANGED <<err, path, warnings>>
FailOr(e, label) == IF e # None THEN Fail(e) ELSE Continue(label)

(* The call begins: parsing and header checks need no store.               *)
Start ==
  /\ pc = "idle"
  /\ FailOr(ParseError(T), "resolve")
  /\ atStart' = [keys |-> keyRevoked, stmts |-> cache.revoked]
  /\ unstable' = {h \in Stmts : served[h] # h}
  /\ outage' = ~online
  /\ UNCHANGED <<pool, target, store>>

Step(label) == pc = label /\ UNCHANGED <<pool, target, store, ghost>>

StatusSkipped ==
  /\ Step("resolve")
  /\ IF T.kid \notin KnownKeys THEN Fail("Crypto") ELSE Continue("signature")

(* The kid is resolved through the table of its algorithm; only an Ed25519 *)
(* kid has its revocation status looked up afterwards.                     *)
ResolveKey ==
  /\ Step("resolve")
  /\ IF T.kid \notin KnownKeys THEN Fail("Crypto")
     ELSE Continue(IF T.alg = "ed25519" THEN "keystatus" ELSE "signature")

CheckKeyStatus ==
  /\ Step("keystatus")
  /\ FailOr(IF is_key_revoked(T.kid) THEN "Crypto" ELSE None, "signature")

VerifySignature ==
  /\ Step("signature")
  /\ IF T.signer # T.kid THEN Fail(SignatureError(T))
     ELSE IF ObjectRequired(T) /\ T.object = None THEN Fail("Payload")
     ELSE pc' = "walk" /\ path' = <<target>> /\ UNCHANGED <<err, warnings>>

Current == path[Len(path)]

(* The loop runs for _depth in 0..MAX_LINEAGE_DEPTH.                       *)
OneFetchMore == Len(path) <= MaxLineageDepth + 1
WithinDepth == Len(path) <= MaxLineageDepth

(* The BLAKE3 of the fetched bytes is compared with the hash asked for.    *)
HashNotCompared(s, h) == TRUE
HashMatches(s, h) == s = h

(* One iteration of the lineage loop.                                      *)
WalkLineage ==
  /\ Step("walk")
  /\ pool[Current].lineage # None /\ WithinDepth
  /\ LET prev == fetch_statement(pool[Current].lineage)
         e == IF prev = None THEN "BrokenLineage"
              ELSE IF ~HashMatches(prev, pool[Current].lineage) THEN "BrokenLineage"
              ELSE LinkError(pool[Current], pool[prev])
     IN IF e # None THEN Fail(e)
        ELSE path' = Append(path, prev) /\ UNCHANGED <<pc, err, warnings>>

(* The loop ends at a statement without lineage, or at its bound.          *)
LineageDone ==
  /\ Step("walk")
  /\ pool[Current].lineage = None \/ ~WithinDepth
  /\ Continue("revokes")

RevokesAwaitsTarget ==
  /\ Step("revokes")
  /\ T.predicate = "revokes" => fetch_statement(T.object) # None
  /\ Continue("recovers")

CheckRevokes ==
  /\ Step("revokes")
  /\ LET revoked == fetch_statement(T.object)
     IN FailOr(IF T.predicate = "revokes" /\ T.object # None /\ revoked # None
               THEN RevokesError(T, pool[revoked]) ELSE None, "recovers")

CheckRecovers ==
  /\ Step("recovers")
  /\ FailOr(IF T.predicate = "recovers" /\ T.object # None
            THEN RecoversErrorAt(T, fetch_statement(T.object)) ELSE None, "anchor")

CheckAnchor ==
  /\ Step("anchor")
  /\ IF AnchorErrorOf(T) # None THEN Fail(AnchorErrorOf(T))
     ELSE /\ UNCHANGED <<err, path>>
          /\ IF T.anchor = None
             THEN /\ pc' = "done"
                  /\ warnings' = warnings \cup {"TemporalEvidenceMissing"}
             ELSE /\ pc' = "revocation"
                  /\ warnings' = warnings \cup
                       IF T.timestamp # None /\ T.anchor.ts - T.timestamp > MaxSthDelta
                       THEN {"StaleSth"} ELSE {}

CheckRevocation ==
  /\ Step("revocation")
  /\ LET status == is_revoked_in_log(target, T.anchor.ts)
     IN IF status = "revoked" THEN Fail("Revoked")
        ELSE /\ pc' = "done" /\ UNCHANGED <<err, path>>
             /\ warnings' = warnings \cup
                  IF status = "unknown" THEN {"RevocationStatusUnknown"} ELSE {}

Pipeline ==
  \/ Start \/ ResolveKey \/ CheckKeyStatus \/ VerifySignature
  \/ WalkLineage \/ LineageDone \/ CheckRevokes \/ CheckRecovers
  \/ CheckAnchor \/ CheckRevocation

----------------------------------------------------------------------------
(* The store's world, moving while the call is in flight                   *)

Running == pc \notin {"idle", "done"}
Env == pc # "done" /\ UNCHANGED <<pool, target, call, atStart>>

(* A statement appears in, or is evicted from, what the store can fetch,   *)
(* or the store answers with the bytes of another statement.               *)
ServeOther(h) ==
  /\ Env /\ h \in Volatile
  /\ \E s \in Opt({h} \cup Misfiled) :
       /\ s # served[h]
       /\ served' = [served EXCEPT ![h] = s]
       /\ unstable' = IF Running /\ s # h THEN unstable \cup {h} ELSE unstable
  /\ UNCHANGED <<keyRevoked, now, revokedAt, cache, online, outage>>

RevokeKey(k) ==
  /\ Env /\ k \in RevocableKeys \ keyRevoked
  /\ keyRevoked' = keyRevoked \cup {k}
  /\ UNCHANGED <<served, now, revokedAt, cache, online, unstable, outage>>

LogRevocation(h) ==
  /\ Env /\ h \in Revocable \ logRevoked
  /\ revokedAt' = [revokedAt EXCEPT ![h] = now]
  /\ UNCHANGED <<served, keyRevoked, now, cache, online, unstable, outage>>

Tick ==
  /\ Env /\ now < MaxTime
  /\ now' = now + 1
  /\ UNCHANGED <<served, keyRevoked, revokedAt, cache, online, unstable, outage>>

(* The cache is rebuilt from the log, its checkpoint the present time; it  *)
(* may or may not list the statements known not to be revoked. From then   *)
(* on it ages until it is rebuilt again, if it ever is.                    *)
RefreshCache ==
  /\ Env
  /\ \E known \in {{}, Stmts \ logRevoked} :
       cache' = [checkpoint |-> now, revoked |-> logRevoked, not_revoked |-> known]
  /\ UNCHANGED <<served, keyRevoked, now, revokedAt, online, unstable, outage>>

Connectivity ==
  /\ Env /\ Outages
  /\ online' = ~online
  /\ outage' = (outage \/ (Running /\ online))
  /\ UNCHANGED <<served, keyRevoked, now, revokedAt, cache, unstable>>

Environment ==
  \/ \E h \in Stmts : ServeOther(h) \/ LogRevocation(h)
  \/ \E k \in Keys : RevokeKey(k)
  \/ Tick \/ RefreshCache \/ Connectivity

Next == Pipeline \/ Environment

(* The call runs on the caller's thread and every store call returns, so   *)
(* each enabled step is eventually taken; nothing is assumed of the store. *)
Spec == Init /\ [][Next]_vars /\ WF_vars(Pipeline)

----------------------------------------------------------------------------
(* Properties *)

(* Every variable keeps its type; a walk has a first statement, and never  *)
(* grows past the bound of the lineage loop.                               *)
TypeOK ==
  /\ pool \in Pools /\ target \in Targets
  /\ served \in [Stmts -> Opt(Stmts)]
  /\ keyRevoked \subseteq Keys /\ now \in Nat /\ revokedAt \in [Stmts -> Opt(Nat)]
  /\ cache \in Cache /\ online \in BOOLEAN
  /\ pc \in {"idle", "resolve", "keystatus", "signature", "walk", "revokes",
             "recovers", "anchor", "revocation", "done"}
  /\ err \in Opt(Error) /\ warnings \subseteq Warning
  /\ path \in Seq(Stmts) /\ Len(path) <= MaxLineageDepth + 1
  /\ atStart \in [keys : SUBSET Keys, stmts : SUBSET Stmts]
  /\ unstable \subseteq Stmts /\ outage \in BOOLEAN

(* The statements walked are the ones the target commits to: each is the   *)
(* content whose hash the one before it names, whatever bytes the store    *)
(* answered with in between (lineage loop, hash comparison).               *)
LineageIsCommitted ==
  \A i \in 1..Len(path) - 1 : path[i + 1] = pool[path[i]].lineage

(* Along any fully time-stamped stretch of the walked lineage a descendant *)
(* is later than every ancestor in the stretch, or as late and then it     *)
(* carries a nonce (TimestampMonotonicityViolation, checked edge by edge). *)
StampedStretchMonotone ==
  \A i, j \in 1..Len(path) :
    /\ i < j
    /\ \A k \in i..j : pool[path[k]].timestamp # None
    => \/ pool[path[i]].timestamp > pool[path[j]].timestamp
       \/ /\ pool[path[i]].timestamp = pool[path[j]].timestamp
          /\ pool[path[i]].nonce

(* A run of APPENDS statements in the walked lineage, and the statement it *)
(* is appended to, are about one subject (LineageSubjectMismatch).         *)
AppendsOneSubject ==
  \A i, j \in 1..Len(path) :
    /\ i < j
    /\ \A k \in i..j - 1 : pool[path[k]].predicate = "appends"
    => pool[path[i]].subject = pool[path[j]].subject

(* A REVOKES whose target the store served faithfully for the whole call   *)
(* is accepted only from the target's issuer, about the target, and with a *)
(* later timestamp (RevokeIssuerMismatch and its siblings).                *)
RevokesAuthority ==
  Accepted /\ T.predicate = "revokes" /\ T.object \in Stmts \ unstable =>
    LET revoked == pool[T.object]
    IN /\ T.subject = T.object
       /\ T.signer = revoked.kid
       /\ T.timestamp # None /\ revoked.timestamp # None
            /\ revoked.form # "undecodable" => T.timestamp > revoked.timestamp

(* A RECOVERS of a statement with a recovery policy that was served        *)
(* faithfully for the whole call is accepted only from a listed guardian.  *)
RecoversByGuardian ==
  /\ Accepted /\ T.predicate = "recovers" /\ T.object \in Stmts \ unstable
  /\ pool[T.object].form \notin {"malformed", "undecodable"}
  /\ pool[T.object].recovery_policy # None
  => /\ pool[T.object].recovery_policy.ok
     /\ KidHash[T.signer] \in pool[T.object].recovery_policy.guardians

(* A statement under an Ed25519 key the store knew to be revoked when the  *)
(* call began is never accepted while the store stays reachable, whatever  *)
(* happens between resolving the key and checking its status.              *)
RevokedKeyRefused ==
  Accepted /\ T.alg = "ed25519" /\ T.kid \in atStart.keys => outage

(* An anchored statement the cache listed as revoked when the call began   *)
(* is accepted only with the warning that its status could not be known.   *)
RevokedAnchoredRefused ==
  Accepted /\ T.anchor # None /\ target \in atStart.stmts =>
    "RevocationStatusUnknown" \in warnings

(* A call that succeeds without a warning is the strong verdict: a trusted *)
(* log signed the tree head and includes the statement, the head is no     *)
(* earlier than the statement and not too late, and no REVOKES of it had   *)
(* been logged before the head, however long ago the cache that answered   *)
(* was built and whatever was logged, rebuilt or cut off during the call   *)
(* (verify_temporal_anchor asks is_revoked_in_log after the head's time).  *)
NoWarningMeansProven ==
  Accepted /\ warnings = {} =>
    /\ T.anchor # None /\ T.anchor.log \in TrustedLogs
    /\ T.anchor.signed /\ T.anchor.included
    /\ T.timestamp # None => T.anchor.ts \in T.timestamp..T.timestamp + MaxSthDelta
    /\ target \in logRevoked => revokedAt[target] >= T.anchor.ts

(* error.rs:99 and verax-core-ffi/src/lib.rs:72: a lineage longer than     *)
(* MAX_LINEAGE_DEPTH is reported as LineageDepthExceeded, so an accepted   *)
(* statement has its lineage walked to a root. Violated: the loop stops.   *)
LineageWalkedToRoot == Accepted => pool[path[Len(path)]].lineage = None

(* The pipeline implements the contract: step by step, against a store     *)
(* that moves, it accepts only what the one-step judgement would, with the *)
(* warnings that judgement allows, and it always answers.                  *)
Contract == INSTANCE VerifyContract WITH
  outcome <- CASE pc = "idle" -> "idle"
               [] Accepted -> "accepted"
               [] pc = "done" /\ err # None -> "rejected"
               [] OTHER -> "running",
  notes <- IF Accepted THEN warnings ELSE {},
  known <- atStart.stmts

ImplementsContract == Contract!Spec

=============================================================================
