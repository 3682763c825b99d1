-------------------------- MODULE VerifierProofs --------------------------
(* Proofs that the pipeline of Verifier keeps its type and its safety      *)
(* properties for every pool of statements, every store and every depth,   *)
(* and that it implements its contract.                                    *)
EXTENDS Verifier, TLAPS

(* What the actions that are neither the walk nor the signature check do   *)
(* to the walk: nothing.                                                   *)
OffPath ==
  \/ Start \/ ResolveKey \/ CheckKeyStatus \/ LineageDone \/ CheckRevokes
  \/ CheckRecovers \/ CheckAnchor \/ CheckRevocation \/ Environment

LEMMA OffPathKeepsPath ==
  ASSUME OffPath \/ UNCHANGED vars
  PROVE  UNCHANGED <<pool, target, path>>
BY DEF OffPath, Start, ResolveKey, CheckKeyStatus, LineageDone, CheckRevokes,
       CheckRecovers, CheckAnchor, CheckRevocation, Environment, ServeOther,
       LogRevocation, Tick, RevokeKey, RefreshCache, Connectivity, Env, Step, Fail,
       Continue, FailOr, vars, call

LEMMA NextSplits == [Next]_vars => VerifySignature \/ WalkLineage \/ OffPath \/ UNCHANGED vars
BY DEF Next, Pipeline, OffPath

LEMMA PoolTyped ==
  ASSUME pool \in Pools, NEW s \in Stmts
  PROVE  pool[s] \in Statement
BY PoolsAssumption

----------------------------------------------------------------------------
(* Every check answers None or one of the errors of the crate.             *)

LEMMA ErrorsTyped ==
  /\ \A s : ParseError(s) \in Opt(Error)
  /\ \A s, t : LinkError(s, t) \in Opt(Error)
  /\ \A s, t : RevokesError(s, t) \in Opt(Error)
  /\ \A s, t : RecoversErrorAt(s, t) \in Opt(Error)
  /\ \A s : AnchorErrorOf(s) \in Opt(Error)
<1>1. \A s : ParseError(s) \in Opt(Error)
  BY DEF ParseError, Opt, Error
<1>2. \A s, t : LinkError(s, t) \in Opt(Error)
  BY DEF LinkError, Opt, Error
<1>3. \A s, t : RevokesError(s, t) \in Opt(Error)
  BY DEF RevokesError, Opt, Error
<1>4. \A s, t : RecoversErrorAt(s, t) \in Opt(Error)
  BY DEF RecoversErrorAt, RecoversError, PolicyOf, Opt, Error
<1>5. \A s : AnchorErrorOf(s) \in Opt(Error)
  BY DEF AnchorErrorOf, AnchorError, Opt, Error
<1> QED BY <1>1, <1>2, <1>3, <1>4, <1>5

LEMMA FetchTyped ==
  ASSUME TypeOK, NEW h
  PROVE  fetch_statement(h) \in Opt(Stmts)
BY DEF TypeOK, fetch_statement, Opt

(* The part of TypeOK that the pipeline's steps touch.                     *)
CallOK ==
  /\ pc \in {"idle", "resolve", "keystatus", "signature", "walk", "revokes",
             "recovers", "anchor", "revocation", "done"}
  /\ err \in Opt(Error) /\ warnings \subseteq Warning
  /\ path \in Seq(Stmts) /\ Len(path) <= MaxLineageDepth + 1

LEMMA PipelineKeepsCallOK ==
  ASSUME TypeOK, Pipeline
  PROVE  CallOK'
<1> USE DEF CallOK, TypeOK, Opt
<1>1. CASE Start
  BY <1>1, ErrorsTyped DEF Start, FailOr, Fail, Continue
<1>2. CASE ResolveKey
  BY <1>2 DEF ResolveKey, Step, Fail, Continue, Error
<1>3. CASE CheckKeyStatus
  BY <1>3 DEF CheckKeyStatus, Step, FailOr, Fail, Continue, Error
<1>4. CASE VerifySignature
  <2>1. target \in Stmts
    BY VerifierAssumption
  <2>2. <<target>> \in Seq(Stmts) /\ Len(<<target>>) <= MaxLineageDepth + 1
    BY <2>1, VerifierAssumption
  <2> QED BY <1>4, <2>2 DEF VerifySignature, SignatureError, Step, Fail, Error
<1>5. CASE WalkLineage
  <2> DEFINE prev == fetch_statement(pool[Current].lineage)
  <2>1. prev \in Opt(Stmts)
    BY FetchTyped
  <2>2. CASE path' = Append(path, prev) /\ prev # None /\ UNCHANGED <<pc, err, warnings>>
    <3>1. prev \in Stmts /\ Len(path) <= MaxLineageDepth
      BY <1>5, <2>1, <2>2 DEF WalkLineage, WithinDepth
    <3>2. path' \in Seq(Stmts) /\ Len(path') = Len(path) + 1
      BY <2>2, <3>1
    <3> QED BY <2>2, <3>1, <3>2, VerifierAssumption
  <2>3. CASE \E e \in Opt(Error) : e # None /\ Fail(e)
    BY <2>3 DEF Fail
  <2>4. \/ path' = Append(path, prev) /\ prev # None /\ UNCHANGED <<pc, err, warnings>>
        \/ \E e \in Opt(Error) : e # None /\ Fail(e)
    <3>1. "BrokenLineage" \in Opt(Error) /\ "BrokenLineage" # None
      BY ErrorAssumption DEF Error
    <3> QED BY <1>5, <3>1, ErrorsTyped DEF WalkLineage
  <2> QED BY <2>2, <2>3, <2>4
<1>6. CASE LineageDone
  BY <1>6 DEF LineageDone, Step, Continue
<1>7. CASE CheckRevokes
  BY <1>7, ErrorsTyped DEF CheckRevokes, Step, FailOr, Fail, Continue
<1>8. CASE CheckRecovers
  BY <1>8, ErrorsTyped DEF CheckRecovers, Step, FailOr, Fail, Continue
<1>9. CASE CheckAnchor
  BY <1>9, ErrorsTyped DEF CheckAnchor, Step, Fail, Warning
<1>10. CASE CheckRevocation
  BY <1>10 DEF CheckRevocation, Step, Fail, Error, Warning
<1> QED BY <1>1, <1>2, <1>3, <1>4, <1>5, <1>6, <1>7, <1>8, <1>9, <1>10 DEF Pipeline

(* The part of TypeOK that belongs to the store and to the ghosts.         *)
StoreOK ==
  /\ served \in [Stmts -> Opt(Stmts)]
  /\ keyRevoked \subseteq Keys /\ now \in Nat /\ revokedAt \in [Stmts -> Opt(Nat)]
  /\ cache \in Cache /\ online \in BOOLEAN
  /\ atStart \in [keys : SUBSET Keys, stmts : SUBSET Stmts]
  /\ unstable \subseteq Stmts /\ outage \in BOOLEAN

LEMMA PipelineKeepsStoreOK ==
  ASSUME TypeOK, Pipeline
  PROVE  StoreOK' /\ UNCHANGED <<pool, target>>
<1> USE DEF StoreOK, TypeOK
<1>1. CASE Start
  <2>1. cache.revoked \subseteq Stmts
    BY DEF Cache
  <2> QED BY <1>1, <2>1 DEF Start, store
<1>2. ASSUME ~Start PROVE UNCHANGED <<pool, target, store, ghost>>
  BY <1>2 DEF Pipeline, ResolveKey, CheckKeyStatus, VerifySignature, WalkLineage,
     LineageDone, CheckRevokes, CheckRecovers, CheckAnchor, CheckRevocation, Step
<1> QED BY <1>1, <1>2 DEF store, ghost

LEMMA EnvironmentKeepsTypeOK ==
  ASSUME TypeOK, Environment
  PROVE  TypeOK'
<1> USE DEF TypeOK, Env, call
<1>1. ASSUME NEW h \in Stmts, ServeOther(h)
      PROVE  TypeOK'
  BY <1>1, VerifierAssumption DEF ServeOther, Opt
<1>2. ASSUME NEW h \in Stmts, LogRevocation(h)
      PROVE  TypeOK'
  BY <1>2 DEF LogRevocation, Opt
<1>3. ASSUME NEW k \in Keys, RevokeKey(k)
      PROVE  TypeOK'
  BY <1>3 DEF RevokeKey
<1>4. CASE RefreshCache
  <2>1. cache' \in Cache
    BY <1>4 DEF RefreshCache, Cache, Opt, logRevoked
  <2> QED BY <1>4, <2>1 DEF RefreshCache
<1>5. CASE Connectivity
  BY <1>5 DEF Connectivity
<1>6. CASE Tick
  BY <1>6 DEF Tick
<1> QED BY <1>1, <1>2, <1>3, <1>4, <1>5, <1>6 DEF Environment

(* Verifier.TypeOK is an invariant: every variable keeps its type and the  *)
(* lineage loop never fetches more than MAX_LINEAGE_DEPTH statements.      *)
THEOREM TypeCorrect == Spec => []TypeOK
<1>1. Init => TypeOK
  <2> SUFFICES ASSUME Init PROVE TypeOK
    OBVIOUS
  <2>1. path \in Seq(Stmts) /\ Len(path) <= MaxLineageDepth + 1
    BY VerifierAssumption DEF Init
  <2>2. cache \in Cache /\ atStart \in [keys : SUBSET Keys, stmts : SUBSET Stmts]
    BY DEF Init, Cache, Opt
  <2>3. served \in [Stmts -> Opt(Stmts)]
    BY DEF Init, Opt
  <2> QED BY <2>1, <2>2, <2>3 DEF Init, TypeOK, Opt
<1>2. TypeOK /\ [Next]_vars => TypeOK'
  <2> SUFFICES ASSUME TypeOK, [Next]_vars PROVE TypeOK'
    OBVIOUS
  <2>1. CASE Pipeline
    BY <2>1, PipelineKeepsCallOK, PipelineKeepsStoreOK DEF TypeOK, CallOK, StoreOK
  <2>2. CASE Environment
    BY <2>2, EnvironmentKeepsTypeOK
  <2>3. CASE UNCHANGED vars
    BY <2>3 DEF vars, store, call, ghost, TypeOK
  <2> QED BY <2>1, <2>2, <2>3 DEF Next
<1> QED BY <1>1, <1>2, PTL DEF Spec

----------------------------------------------------------------------------
(* The walk: what has been walked is committed to, ordered and about one   *)
(* subject, which a single edge check extends because the chain so far     *)
(* already relates its last statement to all before it.                    *)

PathInv ==
  /\ pc = "walk" => path # <<>>
  /\ LineageIsCommitted /\ StampedStretchMonotone /\ AppendsOneSubject

LEMMA WalkExtends ==
  ASSUME TypeOK, PathInv, WalkLineage, path' # path
  PROVE  /\ path # <<>>
         /\ \E prev \in Stmts :
              /\ path' = Append(path, prev)
              /\ prev = pool[Current].lineage
              /\ SubjectKept(pool[Current], pool[prev])
              /\ TimestampsOrdered(pool[Current], pool[prev])
         /\ UNCHANGED <<pool, pc>>
<1> DEFINE prev == fetch_statement(pool[Current].lineage)
<1>1. prev \in Opt(Stmts)
  BY FetchTyped
<1>2. prev # None /\ HashMatches(prev, pool[Current].lineage)
      /\ LinkError(pool[Current], pool[prev]) = None /\ path' = Append(path, prev)
      /\ UNCHANGED <<pool, pc>>
  BY ErrorAssumption DEF WalkLineage, Step, Fail, Error
<1>3. SubjectKept(pool[Current], pool[prev]) /\ TimestampsOrdered(pool[Current], pool[prev])
  BY <1>2, ErrorAssumption DEF LinkError, Error
<1>4. path # <<>>
  BY DEF PathInv, WalkLineage, Step
<1> QED BY <1>1, <1>2, <1>3, <1>4 DEF Opt, HashMatches

LEMMA TimestampTyped ==
  ASSUME TypeOK, NEW s \in Stmts
  PROVE  /\ pool[s].timestamp \in Nat \cup {None}
         /\ pool[s].nonce \in BOOLEAN
BY PoolTyped DEF TypeOK, Statement, Opt, Time

LEMMA WalkKeepsPathInv ==
  ASSUME TypeOK, PathInv, WalkLineage, path' # path
  PROVE  PathInv'
<1>1. PICK prev \in Stmts :
        /\ path' = Append(path, prev)
        /\ prev = pool[Current].lineage
        /\ SubjectKept(pool[Current], pool[prev])
        /\ TimestampsOrdered(pool[Current], pool[prev])
  BY WalkExtends
<1> DEFINE n == Len(path)
<1>2. /\ path \in Seq(Stmts) /\ n \in Nat /\ n > 0
      /\ path' \in Seq(Stmts) /\ Len(path') = n + 1
      /\ path'[n + 1] = prev /\ \A i \in 1..n : path'[i] = path[i] /\ path[i] \in Stmts
      /\ Current = path[n] /\ pool' = pool
  BY <1>1, WalkExtends DEF TypeOK, Current
<1> HIDE DEF n
<1>3. LineageIsCommitted'
  <2> SUFFICES ASSUME NEW i \in 1..n PROVE path'[i + 1] = pool[path'[i]].lineage
    BY <1>2 DEF LineageIsCommitted
  <2>1. CASE i = n
    BY <2>1, <1>1, <1>2
  <2>2. CASE i # n
    <3>1. i \in 1..n - 1 /\ i + 1 \in 1..n
      BY <2>2, <1>2
    <3>2. path[i + 1] = pool[path[i]].lineage
      BY <3>1 DEF PathInv, LineageIsCommitted, n
    <3> QED BY <3>1, <3>2, <1>2
  <2> QED BY <2>1, <2>2
<1>4. StampedStretchMonotone'
  <2> DEFINE ts(i) == pool[path'[i]].timestamp
  <2> SUFFICES ASSUME NEW i \in 1..n + 1, NEW j \in 1..n + 1, i < j,
                      \A k \in i..j : ts(k) # None
               PROVE  \/ ts(i) > ts(j)
                      \/ ts(i) = ts(j) /\ pool[path'[i]].nonce
    BY <1>2 DEF StampedStretchMonotone
  <2>1. \A k \in 1..n + 1 : ts(k) \in Nat \cup {None}
    BY <1>2, TimestampTyped
  <2>2. ASSUME NEW m \in 1..n, i < m, m <= j
        PROVE  ts(i) > ts(m) \/ (ts(i) = ts(m) /\ pool[path'[i]].nonce)
    <3>1. i \in 1..n /\ \A k \in i..m : k \in 1..n /\ k \in i..j
      BY <2>2, <1>2
    <3>2. \A k \in i..m : pool[path[k]].timestamp # None
      BY <3>1, <1>2
    <3> QED BY <2>2, <3>1, <3>2, <1>2 DEF PathInv, StampedStretchMonotone, n
  <2>3. CASE j <= n
    BY <2>2, <2>3, <1>2
  <2>4. CASE j = n + 1
    <3>1. n \in 1..n /\ n \in i..j /\ j \in i..j /\ i \in i..j /\ i <= n
      BY <2>4, <1>2
    <3>2. ts(n) \in Nat /\ ts(j) \in Nat /\ ts(i) \in Nat
      BY <3>1, <2>1, <2>4, <1>2
    <3>3. ts(n) > ts(j) \/ (ts(n) = ts(j) /\ pool[path'[n]].nonce)
      BY <3>1, <3>2, <2>4, <1>1, <1>2, NoneAssumption DEF TimestampsOrdered
    <3>4. CASE i = n
      BY <3>3, <3>4
    <3>5. CASE i < n
      <4>1. ts(i) > ts(n) \/ (ts(i) = ts(n) /\ pool[path'[i]].nonce)
        BY <2>2, <3>1, <3>5
      <4> HIDE DEF ts
      <4> QED BY <4>1, <3>2, <3>3
    <3> QED BY <3>1, <3>4, <3>5, <1>2
  <2> QED BY <2>3, <2>4, <1>2
<1>5. AppendsOneSubject'
  <2> SUFFICES ASSUME NEW i \in 1..n + 1, NEW j \in 1..n + 1, i < j,
                      \A k \in i..j - 1 : pool[path'[k]].predicate = "appends"
               PROVE  pool[path'[i]].subject = pool[path'[j]].subject
    BY <1>2 DEF AppendsOneSubject
  <2>1. ASSUME NEW m \in 1..n, i < m, m <= j
        PROVE  pool[path'[i]].subject = pool[path'[m]].subject
    <3>1. i \in 1..n /\ \A k \in i..m - 1 : k \in 1..n /\ k \in i..j - 1
      BY <2>1, <1>2
    <3>2. \A k \in i..m - 1 : pool[path[k]].predicate = "appends"
      BY <3>1, <1>2
    <3> QED BY <2>1, <3>1, <3>2, <1>2 DEF PathInv, AppendsOneSubject, n
  <2>2. CASE j <= n
    BY <2>1, <2>2, <1>2
  <2>3. CASE j = n + 1
    <3>1. n \in 1..n /\ n \in i..j - 1 /\ i <= n
      BY <2>3, <1>2
    <3>2. pool[path'[n]].subject = pool[path'[j]].subject
      BY <3>1, <2>3, <1>1, <1>2 DEF SubjectKept
    <3> QED BY <3>1, <3>2, <2>1, <2>3, <1>2
  <2> QED BY <2>2, <2>3, <1>2
<1>6. path' # <<>>
  BY <1>2
<1> QED BY <1>3, <1>4, <1>5, <1>6 DEF PathInv

LEMMA PathInvInductive == TypeOK /\ PathInv /\ [Next]_vars => PathInv'
<1> SUFFICES ASSUME TypeOK, PathInv, [Next]_vars PROVE PathInv'
  OBVIOUS
<1>1. CASE WalkLineage /\ path' # path
  BY <1>1, WalkKeepsPathInv
<1>2. CASE UNCHANGED <<pool, path>> /\ (pc' = "walk" => pc = "walk")
  BY <1>2 DEF PathInv, LineageIsCommitted, StampedStretchMonotone, AppendsOneSubject
<1>3. CASE VerifySignature /\ path' = <<target>> /\ pool' = pool
  BY <1>3 DEF PathInv, LineageIsCommitted, StampedStretchMonotone, AppendsOneSubject
<1>4. VerifySignature => \/ path' = <<target>> /\ pool' = pool
                         \/ UNCHANGED <<pool, path>> /\ (pc' = "walk" => pc = "walk")
  BY DEF VerifySignature, Step, Fail
<1>5. WalkLineage /\ path' = path => UNCHANGED <<pool, path>> /\ (pc' = "walk" => pc = "walk")
  BY DEF WalkLineage, Step, Fail
<1>6. OffPath \/ UNCHANGED vars => (pc' = "walk" => pc = "walk")
  BY DEF OffPath, Start, ResolveKey, CheckKeyStatus, LineageDone, CheckRevokes,
     CheckRecovers, CheckAnchor, CheckRevocation, Environment, ServeOther,
     LogRevocation, Tick, RevokeKey, RefreshCache, Connectivity, Env, Step, Fail,
     Continue, FailOr, vars, call
<1> QED BY <1>1, <1>2, <1>3, <1>4, <1>5, <1>6, NextSplits, OffPathKeepsPath

(* Verifier's three lineage properties, for lineages of any length.        *)
LEMMA LineageHolds ==
  Spec => [](LineageIsCommitted /\ StampedStretchMonotone /\ AppendsOneSubject)
<1>1. Init => PathInv
  BY DEF Init, PathInv, LineageIsCommitted, StampedStretchMonotone, AppendsOneSubject
<1>2. PathInv => LineageIsCommitted /\ StampedStretchMonotone /\ AppendsOneSubject
  BY DEF PathInv
<1> QED BY <1>1, <1>2, PathInvInductive, TypeCorrect, PTL DEF Spec

(* The walked statements are the ones the hashes commit to, whatever the   *)
(* store answers (lineage loop, hash comparison).                          *)
THEOREM LineageCommitted == Spec => []LineageIsCommitted
BY LineageHolds, PTL

(* Time order holds over every stamped stretch of the walk, although only  *)
(* neighbours are ever compared.                                           *)
THEOREM LineageOrdered == Spec => []StampedStretchMonotone
BY LineageHolds, PTL

(* Every run of APPENDS in the walk keeps one subject.                     *)
THEOREM LineageSubjects == Spec => []AppendsOneSubject
BY LineageHolds, PTL

----------------------------------------------------------------------------
(* The verdict: what the pipeline established at each step still holds at  *)
(* the end, although the store has moved since.                            *)

(* The cache is complete up to its checkpoint: a REVOKES it does not list   *)
(* was logged at that time or later.                                       *)
CacheComplete ==
  cache.checkpoint # None =>
    /\ cache.checkpoint <= now
    /\ \A h \in logRevoked \ cache.revoked : revokedAt[h] >= cache.checkpoint

(* What the ghosts and the log say of the store while the call runs.       *)
StoreInv ==
  /\ Running => \A h \in Stmts \ unstable : served[h] = h
  /\ Running /\ ~outage => online
  /\ atStart.keys \subseteq keyRevoked /\ atStart.stmts \subseteq cache.revoked
  /\ cache.revoked \subseteq logRevoked /\ CacheComplete

(* The call is past the steps that come before the labels of L.            *)
Past(L) == pc \in L \/ Accepted

RevokesHolds ==
  T.predicate = "revokes" /\ T.object \in Stmts \ unstable =>
    RevokesError(T, pool[T.object]) = None

RecoversHolds ==
  T.predicate = "recovers" /\ T.object \in Stmts \ unstable =>
    RecoversErrorAt(T, T.object) = None

(* No REVOKES of the target was logged before the given time.              *)
NotRevokedBefore(ts) == target \in logRevoked => revokedAt[target] >= ts

CallInv ==
  /\ Past({"signature", "walk", "revokes", "recovers", "anchor", "revocation"}) =>
       (T.alg = "ed25519" /\ T.kid \in atStart.keys => outage)
  /\ Past({"walk", "revokes", "recovers", "anchor", "revocation"}) => T.signer = T.kid
  /\ Past({"recovers", "anchor", "revocation"}) => RevokesHolds
  /\ Past({"anchor", "revocation"}) => RecoversHolds
  /\ Past({"revocation"}) =>
       /\ AnchorErrorOf(T) = None
       /\ T.anchor = None => "TemporalEvidenceMissing" \in warnings
       /\ /\ T.anchor # None /\ T.timestamp # None
          /\ T.anchor.ts - T.timestamp > MaxSthDelta
          => "StaleSth" \in warnings
  /\ pc = "revocation" => T.anchor # None
  /\ Accepted /\ T.anchor # None /\ target \in atStart.stmts =>
       "RevocationStatusUnknown" \in warnings
  /\ Accepted /\ T.anchor # None /\ "RevocationStatusUnknown" \notin warnings =>
       NotRevokedBefore(T.anchor.ts)

LEMMA StoreInvInductive == TypeOK /\ StoreInv /\ [Next]_vars => StoreInv'
<1> SUFFICES ASSUME TypeOK, StoreInv, [Next]_vars PROVE StoreInv'
  OBVIOUS
<1>0. cache.checkpoint # None => cache.checkpoint \in Nat /\ cache.checkpoint <= now
  BY DEF TypeOK, Cache, Opt, StoreInv, CacheComplete
<1>1. CASE Start
  <2>1. CacheComplete'
    BY <1>1 DEF StoreInv, CacheComplete, logRevoked, Start, store
  <2> QED BY <1>1, <2>1 DEF StoreInv, Running, Start, FailOr, Fail, Continue, store,
             TypeOK, logRevoked
<1>2. CASE (Pipeline /\ ~Start) \/ UNCHANGED vars
  <2>1. UNCHANGED <<store, ghost>> /\ (Running' => Running)
    BY <1>2 DEF Pipeline, ResolveKey, CheckKeyStatus, VerifySignature, WalkLineage,
       LineageDone, CheckRevokes, CheckRecovers, CheckAnchor, CheckRevocation, Step,
       Running, vars, call
  <2> QED BY <2>1 DEF StoreInv, CacheComplete, logRevoked, store, ghost
<1>3. ASSUME NEW h \in Stmts, ServeOther(h)
      PROVE  StoreInv'
  <2>1. CacheComplete'
    BY <1>3 DEF ServeOther, StoreInv, CacheComplete, logRevoked
  <2> QED BY <1>3, <2>1 DEF ServeOther, StoreInv, Env, Running, call, TypeOK, logRevoked
<1>4. ASSUME NEW h \in Stmts, LogRevocation(h)
      PROVE  StoreInv'
  <2>1. /\ revokedAt' = [revokedAt EXCEPT ![h] = now] /\ UNCHANGED <<now, cache>>
        /\ now \in Nat /\ now # None /\ revokedAt \in [Stmts -> Opt(Nat)]
    BY <1>4, NoneAssumption DEF LogRevocation, TypeOK
  <2>2. logRevoked' = logRevoked \cup {h}
    BY <2>1 DEF logRevoked
  <2>3. CacheComplete'
    <3> SUFFICES ASSUME cache.checkpoint # None, NEW g \in logRevoked' \ cache.revoked
                 PROVE  revokedAt'[g] >= cache.checkpoint
      BY <1>0, <2>1 DEF CacheComplete
    <3>1. CASE g = h
      BY <1>0, <2>1, <3>1
    <3>2. CASE g # h
      BY <2>1, <2>2, <3>2 DEF StoreInv, CacheComplete, logRevoked
    <3> QED BY <3>1, <3>2
  <2> QED BY <1>4, <2>2, <2>3 DEF LogRevocation, StoreInv, Env, Running, call
<1>5. ASSUME NEW k \in Keys, RevokeKey(k)
      PROVE  StoreInv'
  <2>1. CacheComplete'
    BY <1>5 DEF RevokeKey, StoreInv, CacheComplete, logRevoked
  <2> QED BY <1>5, <2>1 DEF RevokeKey, StoreInv, Env, Running, call, logRevoked
<1>6. CASE RefreshCache
  <2>1. /\ cache'.revoked = logRevoked /\ cache'.checkpoint = now
        /\ UNCHANGED <<now, revokedAt>> /\ logRevoked' = logRevoked /\ now \in Nat
    BY <1>6 DEF RefreshCache, logRevoked, TypeOK
  <2>2. CacheComplete'
    BY <2>1 DEF CacheComplete
  <2> QED BY <1>6, <2>1, <2>2 DEF RefreshCache, StoreInv, Env, Running, call
<1>7. CASE Connectivity
  <2>1. CacheComplete'
    BY <1>7 DEF Connectivity, StoreInv, CacheComplete, logRevoked
  <2> QED BY <1>7, <2>1 DEF Connectivity, StoreInv, Env, Running, call, TypeOK, logRevoked
<1>8. CASE Tick
  <2>1. now' = now + 1 /\ now \in Nat /\ UNCHANGED <<cache, revokedAt>> /\ logRevoked' = logRevoked
    BY <1>8 DEF Tick, TypeOK, logRevoked
  <2>2. CacheComplete'
    BY <1>0, <2>1 DEF StoreInv, CacheComplete
  <2> QED BY <1>8, <2>1, <2>2 DEF Tick, StoreInv, Env, Running, call
<1> QED BY <1>1, <1>2, <1>3, <1>4, <1>5, <1>6, <1>7, <1>8 DEF Next, Environment

(* The environment changes nothing of the call but lets the ghosts grow.   *)
LEMMA EnvironmentKeepsCallInv ==
  ASSUME TypeOK, CallInv, Environment \/ UNCHANGED vars
  PROVE  CallInv'
<1>1. UNCHANGED <<pool, target, pc, err, path, warnings, atStart>>
  BY DEF Environment, ServeOther, LogRevocation, RevokeKey, Tick, RefreshCache,
     Connectivity, Env, call, vars, ghost
<1>2. unstable \subseteq unstable' /\ (outage => outage')
  <2>1. ASSUME NEW h \in Stmts, ServeOther(h)
        PROVE  unstable \subseteq unstable' /\ outage' = outage
    BY <2>1 DEF ServeOther
  <2>2. CASE Connectivity
    BY <2>2 DEF Connectivity
  <2>3. CASE UNCHANGED <<unstable, outage>>
    BY <2>3
  <2> QED BY <2>1, <2>2, <2>3
      DEF Environment, LogRevocation, RevokeKey, Tick, RefreshCache, vars, ghost
<1>3. T' = T /\ Accepted' = Accepted
  BY <1>1 DEF T, Accepted
<1>4. (RevokesHolds => RevokesHolds') /\ (RecoversHolds => RecoversHolds')
  BY <1>1, <1>2, <1>3 DEF RevokesHolds, RecoversHolds, RevokesError, RecoversErrorAt, RecoversError, PolicyOf
<1>5. AnchorErrorOf(T)' = AnchorErrorOf(T)
  BY <1>1 DEF AnchorErrorOf, AnchorError, T
<1>6. Accepted => \A ts : NotRevokedBefore(ts)' = NotRevokedBefore(ts)
  <2>1. Accepted => UNCHANGED revokedAt
    BY DEF Environment, ServeOther, LogRevocation, RevokeKey, Tick, RefreshCache,
       Connectivity, Env, Accepted, vars, store
  <2> QED BY <1>1, <2>1 DEF NotRevokedBefore, logRevoked
<1> QED BY <1>1, <1>2, <1>3, <1>4, <1>5, <1>6 DEF CallInv, Past

(* A failed call establishes nothing and owes nothing.                     *)
LEMMA FailureKeepsCallInv ==
  ASSUME pc' = "done", err' # None
  PROVE  CallInv'
BY DEF CallInv, Past, Accepted

LEMMA StringErrors == \A e \in Error : e # None
BY ErrorAssumption

LEMMA StepKeepsJudgement ==
  ASSUME UNCHANGED <<pool, target, store, ghost>>
  PROVE  /\ T' = T /\ RevokesHolds' = RevokesHolds /\ RecoversHolds' = RecoversHolds
         /\ AnchorErrorOf(T)' = AnchorErrorOf(T)
         /\ \A ts : NotRevokedBefore(ts)' = NotRevokedBefore(ts)
         /\ UNCHANGED <<atStart, unstable, outage>>
BY DEF T, RevokesHolds, RecoversHolds, RevokesError, RecoversErrorAt, RecoversError, PolicyOf, AnchorErrorOf, AnchorError,
       NotRevokedBefore, logRevoked, store, ghost

LEMMA PipelineKeepsCallInv ==
  ASSUME TypeOK, StoreInv, CallInv, Pipeline
  PROVE  CallInv'
<1>1. CASE Start
  <2>1. pc' = "resolve" \/ (pc' = "done" /\ err' # None)
    BY <1>1 DEF Start, FailOr, Fail, Continue
  <2> QED BY <2>1 DEF CallInv, Past, Accepted
<1>2. CASE ResolveKey
  <2>1. CASE Fail("Crypto")
    BY <2>1, FailureKeepsCallInv, StringErrors DEF Fail, Error
  <2>2. CASE T.alg # "ed25519" /\ pc = "resolve" /\ Continue("signature")
    BY <2>2, <1>2, StepKeepsJudgement
    DEF CallInv, Past, Accepted, Continue, ResolveKey, Step
  <2>3. CASE Continue("keystatus")
    BY <2>3 DEF CallInv, Past, Accepted, Continue
  <2> QED BY <1>2, <2>1, <2>2, <2>3 DEF ResolveKey, Step
<1>3. CASE CheckKeyStatus
  <2>1. CASE is_key_revoked(T.kid)
    BY <2>1, <1>3, FailureKeepsCallInv, StringErrors
    DEF CheckKeyStatus, FailOr, Fail, Error
  <2>2. CASE ~is_key_revoked(T.kid)
    <3>1. pc' = "signature" /\ T' = T /\ UNCHANGED <<atStart, outage>>
      BY <1>3, <2>2, StepKeepsJudgement DEF CheckKeyStatus, FailOr, Continue, Step
    <3>2. T.kid \in atStart.keys => outage
      BY <1>3, <2>2 DEF CheckKeyStatus, Step, StoreInv, Running, is_key_revoked
    <3> QED BY <3>1, <3>2 DEF CallInv, Past, Accepted
  <2> QED BY <2>1, <2>2
<1>4. CASE VerifySignature
  <2>1. CASE pc' = "done" /\ err' # None
    BY <2>1, FailureKeepsCallInv
  <2>2. CASE T.signer = T.kid /\ pc' = "walk"
    BY <1>4, <2>2, StepKeepsJudgement DEF VerifySignature, Step, CallInv, Past, Accepted
  <2> QED BY <1>4, <2>1, <2>2, StringErrors DEF VerifySignature, SignatureError, Fail, Error
<1>5. CASE WalkLineage
  <2>1. CASE UNCHANGED <<pc, err, warnings>>
    BY <1>5, <2>1, StepKeepsJudgement DEF WalkLineage, Step, CallInv, Past, Accepted
  <2>2. CASE pc' = "done" /\ err' # None
    BY <2>2, FailureKeepsCallInv
  <2> QED BY <1>5, <2>1, <2>2, StringErrors DEF WalkLineage, Fail, Error
<1>6. CASE LineageDone
  BY <1>6, StepKeepsJudgement DEF LineageDone, Step, Continue, CallInv, Past, Accepted
<1>7. CASE CheckRevokes
  <2> DEFINE revoked == fetch_statement(T.object)
             e == IF T.predicate = "revokes" /\ T.object # None /\ revoked # None
                  THEN RevokesError(T, pool[revoked]) ELSE None
  <2>1. CASE e # None
    BY <1>7, <2>1, FailureKeepsCallInv DEF CheckRevokes, FailOr, Fail
  <2>2. CASE e = None
    <3>1. pc = "revokes" /\ pc' = "recovers" /\ UNCHANGED <<err, warnings>>
      BY <1>7, <2>2 DEF CheckRevokes, Step, FailOr, Continue
    <3>2. ASSUME T.object \in Stmts \ unstable
          PROVE  revoked = T.object /\ T.object # None
      BY <3>1, <3>2, StmtsAssumption, NoneAssumption
      DEF StoreInv, Running, fetch_statement
    <3>3. RevokesHolds
      BY <2>2, <3>2 DEF RevokesHolds
    <3> QED BY <1>7, <3>1, <3>3, StepKeepsJudgement
        DEF CheckRevokes, Step, CallInv, Past, Accepted
  <2> QED BY <2>1, <2>2
<1>8. CASE CheckRecovers
  <2> DEFINE lost == fetch_statement(T.object)
             e == IF T.predicate = "recovers" /\ T.object # None
                  THEN RecoversErrorAt(T, lost) ELSE None
  <2>1. CASE e # None
    BY <1>8, <2>1, FailureKeepsCallInv DEF CheckRecovers, FailOr, Fail
  <2>2. CASE e = None
    <3>1. pc = "recovers" /\ pc' = "anchor" /\ UNCHANGED <<err, warnings>>
      BY <1>8, <2>2 DEF CheckRecovers, Step, FailOr, Continue
    <3>2. ASSUME T.object \in Stmts \ unstable
          PROVE  lost = T.object /\ T.object # None
      BY <3>1, <3>2, StmtsAssumption, NoneAssumption
      DEF StoreInv, Running, fetch_statement
    <3>3. RecoversHolds
      BY <2>2, <3>2 DEF RecoversHolds
    <3> QED BY <1>8, <3>1, <3>3, StepKeepsJudgement
        DEF CheckRecovers, Step, CallInv, Past, Accepted
  <2> QED BY <2>1, <2>2
<1>9. CASE CheckAnchor
  <2>1. CASE AnchorErrorOf(T) # None
    BY <1>9, <2>1, FailureKeepsCallInv DEF CheckAnchor, Fail
  <2>2. CASE AnchorErrorOf(T) = None /\ T.anchor = None
    <3>1. "TemporalEvidenceMissing" \in warnings'
      BY <1>9, <2>2 DEF CheckAnchor
    <3> QED BY <1>9, <2>2, <3>1, StepKeepsJudgement
        DEF CheckAnchor, Step, CallInv, Past, Accepted
  <2>3. CASE AnchorErrorOf(T) = None /\ T.anchor # None
    <3>1. T.timestamp # None /\ T.anchor.ts - T.timestamp > MaxSthDelta =>
            "StaleSth" \in warnings'
      BY <1>9, <2>3 DEF CheckAnchor
    <3> QED BY <1>9, <2>3, <3>1, StepKeepsJudgement
        DEF CheckAnchor, Step, CallInv, Past, Accepted
  <2> QED BY <2>1, <2>2, <2>3
<1>10. CASE CheckRevocation
  <2> DEFINE status == is_revoked_in_log(target, T.anchor.ts)
  <2>1. CASE status = "revoked"
    BY <1>10, <2>1, FailureKeepsCallInv, StringErrors DEF CheckRevocation, Fail, Error
  <2>2. CASE status # "revoked"
    <3>1. target \in atStart.stmts => status = "unknown"
      BY <1>10, <2>2 DEF is_revoked_in_log, CacheStatus, StoreInv, CheckRevocation, Step
    <3>2. /\ pc = "revocation" /\ pc' = "done" /\ warnings \subseteq warnings'
          /\ status = "unknown" => "RevocationStatusUnknown" \in warnings'
      BY <1>10, <2>2 DEF CheckRevocation, Step
    <3>3. T.anchor # None /\ status # "unknown" => NotRevokedBefore(T.anchor.ts)
      <4> SUFFICES ASSUME T.anchor # None, status # "unknown", target \in logRevoked
                   PROVE  revokedAt[target] >= T.anchor.ts
        BY DEF NotRevokedBefore
      <4>1. /\ cache.checkpoint # None /\ ~(T.anchor.ts > cache.checkpoint)
            /\ target \notin cache.revoked
        BY <2>2 DEF is_revoked_in_log, CacheStatus
      <4>2. revokedAt[target] >= cache.checkpoint
        BY <4>1 DEF StoreInv, CacheComplete
      <4>3. T \in Statement /\ T.anchor.ts \in Nat
        <5>1. T \in Statement
          BY PoolTyped, VerifierAssumption DEF T, TypeOK
        <5> QED BY <5>1 DEF Statement, Opt, Anchor, Time
      <4>4. cache.checkpoint \in Nat /\ revokedAt[target] \in Nat
        BY <4>1 DEF TypeOK, Cache, Opt, logRevoked
      <4> QED BY <4>1, <4>2, <4>3, <4>4
    <3>4. status # "unknown" \/ "RevocationStatusUnknown" \in warnings'
      BY <3>2
    <3> HIDE DEF status
    <3> QED BY <1>10, <3>1, <3>2, <3>3, <3>4, StepKeepsJudgement
        DEF CheckRevocation, Step, CallInv, Past, Accepted
  <2> QED BY <2>1, <2>2
<1> QED BY <1>1, <1>2, <1>3, <1>4, <1>5, <1>6, <1>7, <1>8, <1>9, <1>10 DEF Pipeline

LEMMA InvInductive ==
  TypeOK /\ StoreInv /\ CallInv /\ [Next]_vars => StoreInv' /\ CallInv'
BY StoreInvInductive, EnvironmentKeepsCallInv, PipelineKeepsCallInv DEF Next

(* The invariant says of an accepted call what the properties say.         *)
LEMMA VerdictFollows ==
  ASSUME TypeOK, StoreInv, CallInv
  PROVE  /\ RevokesAuthority /\ RecoversByGuardian
         /\ RevokedKeyRefused /\ RevokedAnchoredRefused /\ NoWarningMeansProven
<1>1. /\ T \in Statement
      /\ T.object \in Stmts => pool[T.object] \in Statement
  BY PoolTyped, VerifierAssumption DEF T, TypeOK
<1>2. RevokesAuthority
  <2> SUFFICES ASSUME Accepted, T.predicate = "revokes", T.object \in Stmts \ unstable
               PROVE  LET revoked == pool[T.object]
                      IN /\ T.subject = T.object
                         /\ T.signer = revoked.kid
                         /\ T.timestamp # None /\ revoked.timestamp # None
                              /\ revoked.form # "undecodable" =>
                                 T.timestamp > revoked.timestamp
    BY DEF RevokesAuthority
  <2>1. T.signer = T.kid /\ RevokesError(T, pool[T.object]) = None
    BY DEF CallInv, Past, RevokesHolds
  <2>2. /\ T.timestamp \in Nat \cup {None}
        /\ pool[T.object].timestamp \in Nat \cup {None}
    BY <1>1 DEF Statement, Opt, Time
  <2> QED BY <2>1, <2>2, StringErrors DEF RevokesError, Error
<1>3. RecoversByGuardian
  <2> SUFFICES ASSUME Accepted, T.predicate = "recovers", T.object \in Stmts \ unstable,
                      pool[T.object].form \notin {"malformed", "undecodable"},
                      pool[T.object].recovery_policy # None
               PROVE  /\ pool[T.object].recovery_policy.ok
                      /\ KidHash[T.signer] \in pool[T.object].recovery_policy.guardians
    BY DEF RecoversByGuardian
  <2>1. T.signer = T.kid /\ RecoversErrorAt(T, T.object) = None
    BY DEF CallInv, Past, RecoversHolds
  <2>2. T.object # None
    BY StmtsAssumption, NoneAssumption
  <2> QED BY <2>1, <2>2, StringErrors DEF RecoversErrorAt, RecoversError, PolicyOf, Error
<1>4. RevokedKeyRefused
  BY DEF RevokedKeyRefused, CallInv, Past
<1>5. RevokedAnchoredRefused
  BY DEF RevokedAnchoredRefused, CallInv
<1>6. NoWarningMeansProven
  <2> SUFFICES ASSUME Accepted, warnings = {}
               PROVE  /\ T.anchor # None /\ T.anchor.log \in TrustedLogs
                      /\ T.anchor.signed /\ T.anchor.included
                      /\ T.timestamp # None =>
                           T.anchor.ts \in T.timestamp..T.timestamp + MaxSthDelta
                      /\ NotRevokedBefore(T.anchor.ts)
    BY DEF NoWarningMeansProven, NotRevokedBefore
  <2>1. /\ AnchorErrorOf(T) = None /\ T.anchor # None
        /\ ~(T.timestamp # None /\ T.anchor.ts - T.timestamp > MaxSthDelta)
        /\ NotRevokedBefore(T.anchor.ts)
    BY DEF CallInv, Past
  <2>2. /\ T.anchor.log \in TrustedLogs /\ T.anchor.signed /\ T.anchor.included
        /\ ~(T.timestamp # None /\ T.anchor.ts < T.timestamp)
    BY <2>1, StringErrors DEF AnchorErrorOf, AnchorError, Error
  <2>3. T.timestamp \in Nat \cup {None} /\ T.anchor.ts \in Nat
    BY <1>1, <2>1 DEF Statement, Anchor, Opt, Time
  <2> QED BY <2>1, <2>2, <2>3, VerifierAssumption
<1> QED BY <1>2, <1>3, <1>4, <1>5, <1>6

(* What an accepted statement is worth, whatever the store does during the *)
(* call.                                                                   *)
LEMMA VerdictHolds ==
  Spec => [](/\ RevokesAuthority /\ RecoversByGuardian
             /\ RevokedKeyRefused /\ RevokedAnchoredRefused /\ NoWarningMeansProven)
<1>1. Init => StoreInv /\ CallInv
  BY DEF Init, StoreInv, CacheComplete, CallInv, Past, Running, Accepted
<1> QED BY <1>1, InvInductive, VerdictFollows, TypeCorrect, PTL DEF Spec

(* A REVOKES of a faithfully served target is its issuer's, about it, and  *)
(* later than it.                                                          *)
THEOREM RevokesSound == Spec => []RevokesAuthority
BY VerdictHolds, PTL

(* A RECOVERS of a faithfully served target with a policy is a guardian's. *)
THEOREM RecoversSound == Spec => []RecoversByGuardian
BY VerdictHolds, PTL

(* A key known to be revoked when the call began accepts nothing while the *)
(* store can be reached.                                                   *)
THEOREM RevokedKeySound == Spec => []RevokedKeyRefused
BY VerdictHolds, PTL

(* An anchored statement listed as revoked when the call began is refused  *)
(* or its status reported unknown.                                         *)
THEOREM RevokedStatementSound == Spec => []RevokedAnchoredRefused
BY VerdictHolds, PTL

(* A verdict without warnings has the full evidence behind it, and no      *)
(* REVOKES logged before the tree head it rests on: the cache that answered *)
(* was complete up to its checkpoint, which is no earlier than the head.   *)
THEOREM VerdictSound == Spec => []NoWarningMeansProven
BY VerdictHolds, PTL

----------------------------------------------------------------------------
(* Every step of the pipeline is a step of VerifyContract, or none: for     *)
(* every pool, store, depth of lineage and interleaving, what is accepted   *)
(* call by call is what one judgement of the whole would accept. That the   *)
(* call ends is checked, not proved.                                        *)


(* What Contract makes of the call's state.                                *)
Outcome ==
  CASE pc = "idle" -> "idle"
    [] Accepted -> "accepted"
    [] pc = "done" /\ err # None -> "rejected"
    [] OTHER -> "running"
Notes == IF Accepted THEN warnings ELSE {}

(* The warning about a late tree head, if it is due.                       *)
Late == IF T.timestamp # None /\ T.anchor.ts - T.timestamp > MaxSthDelta THEN {"StaleSth"} ELSE {}

(* What the contract asks of a statement's edges, of the walk so far.      *)
WalkHolds ==
  /\ path # <<>> /\ path[1] = target
  /\ \A i \in 1..Len(path) - 1 :
       /\ path[i + 1] = pool[path[i]].lineage
       /\ Contract!Edge(pool[path[i]], pool[path[i + 1]])

WalkDone == Len(path) = MaxLineageDepth + 1 \/ pool[Current].lineage = None

Parsed == {"resolve", "keystatus", "signature", "walk", "revokes", "recovers", "anchor", "revocation"}
Walking == {"walk", "revokes", "recovers", "anchor", "revocation"}

(* What lies behind a call at each of its steps, in the contract's words.  *)
BehindInv ==
  /\ pc # "done" => err = None
  /\ pc \notin {"revocation", "done"} => warnings = {}
  /\ pc \in Parsed => T.form = "ok"
  /\ pc \in Parsed \ {"resolve"} => T.kid \in KnownKeys
  /\ pc \in Walking => /\ T.signer = T.kid /\ (ObjectRequired(T) => T.object # None)
                       /\ WalkHolds
  /\ pc \in Walking \ {"walk"} => WalkDone
  /\ pc \in {"anchor", "revocation"} =>
       (T.predicate = "recovers" /\ T.object # None => KidHash[T.kid] = T.subject)
  /\ pc = "revocation" =>
       T.anchor # None /\ AnchorErrorOf(T) = None /\ warnings = Late

(* A step of the call that goes on, or fails, or succeeds.                 *)
GoesOn == pc \notin {"idle", "done"} /\ pc' \notin {"idle", "done"}
Refuses == pc \notin {"idle", "done"} /\ pc' = "done" /\ err' # None
Accepts == /\ CheckAnchor \/ CheckRevocation
           /\ pc' = "done" /\ err' = err

LEMMA Stages ==
  ASSUME TypeOK, Pipeline, ~Start
  PROVE  /\ UNCHANGED <<pool, target, store, ghost>>
         /\ GoesOn \/ Refuses \/ Accepts
<1> USE StringErrors, ErrorsTyped DEF GoesOn, Refuses, Step, Fail, Continue, FailOr, Error
<1>1. CASE ResolveKey
  BY <1>1 DEF ResolveKey
<1>2. CASE CheckKeyStatus
  BY <1>2 DEF CheckKeyStatus
<1>3. CASE VerifySignature
  BY <1>3 DEF VerifySignature, SignatureError
<1>4. CASE WalkLineage
  BY <1>4 DEF WalkLineage
<1>5. CASE LineageDone
  BY <1>5 DEF LineageDone
<1>6. CASE CheckRevokes
  BY <1>6 DEF CheckRevokes
<1>7. CASE CheckRecovers
  BY <1>7 DEF CheckRecovers
<1>8. CASE CheckAnchor
  BY <1>8 DEF CheckAnchor, Accepts
<1>9. CASE CheckRevocation
  BY <1>9 DEF CheckRevocation, Accepts
<1> QED BY <1>1, <1>2, <1>3, <1>4, <1>5, <1>6, <1>7, <1>8, <1>9 DEF Pipeline

(* One more statement on the walk: its edge is one the contract accepts.   *)
LEMMA WalkGrows ==
  ASSUME TypeOK, PathInv, WalkHolds, WalkLineage, path' # path
  PROVE  WalkHolds'
<1>1. PICK prev \in Stmts :
        /\ path' = Append(path, prev) /\ prev = pool[Current].lineage
        /\ SubjectKept(pool[Current], pool[prev])
        /\ TimestampsOrdered(pool[Current], pool[prev])
  BY WalkExtends
<1> DEFINE n == Len(path)
<1>2. /\ path \in Seq(Stmts) /\ n \in Nat /\ n > 0
      /\ path' \in Seq(Stmts) /\ Len(path') = n + 1
      /\ path'[n + 1] = prev /\ \A i \in 1..n : path'[i] = path[i] /\ path[i] \in Stmts
      /\ Current = path[n] /\ pool' = pool /\ target' = target
  BY <1>1, WalkExtends DEF TypeOK, Current, WalkLineage, Step
<1>3. LinkError(pool[Current], pool[prev]) = None
  BY <1>1, <1>2, ErrorAssumption DEF WalkLineage, Fail, HashMatches, Error
<1>4. pool[prev].form \in {"ok", "badheader", "badalg"}
  <2>1. pool[prev].form \in Form
    BY PoolTyped DEF TypeOK, Statement
  <2>2. pool[prev].form \notin {"malformed", "undecodable", "noncanonical"}
    BY <1>3, ErrorAssumption DEF LinkError, Error
  <2> QED BY <2>1, <2>2 DEF Form
<1>5. Contract!Edge(pool[Current], pool[prev])
  <2>1. /\ pool[Current].timestamp \in Nat \cup {None}
        /\ pool[prev].timestamp \in Nat \cup {None}
    BY <1>2, TimestampTyped
  <2> QED BY <1>1, <1>4, <2>1 DEF Contract!Edge, SubjectKept, TimestampsOrdered
<1> HIDE DEF n
<1>6. ASSUME NEW i \in 1..n
      PROVE  /\ path'[i + 1] = pool[path'[i]].lineage
             /\ Contract!Edge(pool[path'[i]], pool[path'[i + 1]])
  <2>1. CASE i = n
    BY <2>1, <1>1, <1>2, <1>5
  <2>2. CASE i # n
    <3>1. i \in 1..n - 1 /\ i + 1 \in 1..n
      BY <2>2, <1>2
    <3> QED BY <3>1, <1>2 DEF WalkHolds, n
  <2> QED BY <2>1, <2>2
<1>7. path' # <<>> /\ path'[1] = target' /\ Len(path') - 1 = n
  BY <1>2 DEF WalkHolds
<1> QED BY <1>2, <1>6, <1>7 DEF WalkHolds, Contract!Edge

LEMMA SameWalk ==
  ASSUME UNCHANGED <<pool, target, path>>
  PROVE  WalkHolds' = WalkHolds /\ WalkDone' = WalkDone
BY DEF WalkHolds, WalkDone, Current, Contract!Edge

LEMMA BehindInductive ==
  ASSUME TypeOK, PathInv, BehindInv, [Next]_vars
  PROVE  BehindInv'
<1>1. CASE Start
  <2>1. T \in Statement /\ pc = "idle"
    BY <1>1, PoolTyped, VerifierAssumption DEF T, TypeOK, Start
  <2>2. ParseError(T) = None => T.form = "ok"
    BY <2>1, StringErrors DEF ParseError, Statement, Form, Error
  <2>3. T' = T /\ err = None /\ warnings = {}
    BY <1>1, <2>1 DEF Start, T, BehindInv
  <2>4. \/ pc' = "resolve" /\ ParseError(T) = None /\ err' = None /\ warnings' = {}
        \/ pc' = "done"
    BY <1>1, <2>3 DEF Start, FailOr, Fail, Continue
  <2> QED BY <2>2, <2>3, <2>4 DEF BehindInv, Parsed, Walking
<1>2. CASE Environment \/ UNCHANGED vars
  <2>1. UNCHANGED <<pool, target, call>>
    BY <1>2 DEF Environment, ServeOther, LogRevocation, RevokeKey, Tick, RefreshCache,
       Connectivity, Env, vars
  <2>2. T' = T /\ AnchorErrorOf(T)' = AnchorErrorOf(T) /\ Late' = Late
    BY <2>1 DEF T, AnchorErrorOf, AnchorError, Late
  <2>3. ObjectRequired(T)' = ObjectRequired(T)
    BY <2>2 DEF ObjectRequired
  <2> QED BY <2>1, <2>2, <2>3, SameWalk DEF BehindInv, call
<1>3. CASE Pipeline /\ ~Start
  <2>1. T' = T /\ AnchorErrorOf(T)' = AnchorErrorOf(T) /\ Late' = Late /\ UNCHANGED <<pool, target>>
    BY <1>3, Stages DEF T, AnchorErrorOf, AnchorError, Late
  <2>2. ObjectRequired(T)' = ObjectRequired(T)
    BY <2>1 DEF ObjectRequired
  <2>3. CASE Refuses \/ Accepts
    BY <2>3 DEF Refuses, Accepts, BehindInv, Parsed, Walking
  <2>4. CASE GoesOn
    <3> SUFFICES ASSUME pc' # "done", pc # "done" PROVE BehindInv'
      BY <2>4 DEF GoesOn
    <3>1. CASE ResolveKey
      BY <2>1, <3>1 DEF ResolveKey, Step, Fail, Continue, BehindInv, Parsed, Walking
    <3>2. CASE CheckKeyStatus
      BY <2>1, <3>2 DEF CheckKeyStatus, Step, FailOr, Fail, Continue, BehindInv, Parsed, Walking
    <3>3. CASE VerifySignature
      <4>1. /\ pc = "signature" /\ T.signer = T.kid /\ ~(ObjectRequired(T) /\ T.object = None)
            /\ pc' = "walk" /\ path' = <<target>> /\ UNCHANGED <<err, warnings>>
        BY <3>3 DEF VerifySignature, Step, Fail
      <4>2. WalkHolds'
        BY <2>1, <4>1 DEF WalkHolds
      <4> QED BY <2>1, <2>2, <4>1, <4>2 DEF BehindInv, Parsed, Walking
    <3>4. CASE WalkLineage
      <4>1. pc = "walk" /\ pc' = "walk" /\ UNCHANGED <<err, warnings>>
        BY <3>4 DEF WalkLineage, Step, Fail
      <4>2. WalkHolds'
        BY <2>1, <3>4, <4>1, WalkGrows, SameWalk DEF BehindInv, Walking
      <4> QED BY <2>1, <2>2, <4>1, <4>2 DEF BehindInv, Parsed, Walking
    <3>5. CASE LineageDone
      <4>1. pc = "walk" /\ pc' = "revokes" /\ UNCHANGED <<err, warnings, path>>
        BY <3>5 DEF LineageDone, Step, Continue
      <4>2. Len(path) \in Nat /\ Len(path) <= MaxLineageDepth + 1
        BY DEF TypeOK
      <4>3. WalkDone
        BY <3>5, <4>2, VerifierAssumption DEF LineageDone, WithinDepth, WalkDone
      <4> QED BY <2>1, <2>2, <4>1, <4>3, SameWalk DEF BehindInv, Parsed, Walking
    <3>6. CASE CheckRevokes
      <4>1. pc = "revokes" /\ pc' = "recovers" /\ UNCHANGED <<err, warnings, path>>
        BY <3>6 DEF CheckRevokes, Step, FailOr, Fail, Continue
      <4> QED BY <2>1, <2>2, <4>1, SameWalk DEF BehindInv, Parsed, Walking
    <3>7. CASE CheckRecovers
      <4> DEFINE lost == fetch_statement(T.object)
      <4>1. /\ pc = "recovers" /\ pc' = "anchor" /\ UNCHANGED <<err, warnings, path>>
            /\ T.predicate = "recovers" /\ T.object # None => RecoversErrorAt(T, lost) = None
        BY <3>7 DEF CheckRecovers, Step, FailOr, Fail, Continue
      <4>2. \A l : RecoversErrorAt(T, l) = None => KidHash[T.kid] = T.subject
        BY StringErrors DEF RecoversErrorAt, RecoversError, Error
      <4> QED BY <2>1, <2>2, <4>1, <4>2, SameWalk DEF BehindInv, Parsed, Walking
    <3>8. CASE CheckAnchor
      <4>1. /\ pc = "anchor" /\ pc' = "revocation" /\ UNCHANGED <<err, path>>
            /\ AnchorErrorOf(T) = None /\ T.anchor # None
            /\ warnings' = warnings \cup Late
        BY <3>8 DEF CheckAnchor, Step, Fail, Late
      <4>2. warnings = {}
        BY <4>1 DEF BehindInv
      <4> QED BY <2>1, <2>2, <4>1, <4>2, SameWalk DEF BehindInv, Parsed, Walking
    <3>9. CASE CheckRevocation
      BY <3>9 DEF CheckRevocation, Step, Fail
    <3> QED BY <1>3, <3>1, <3>2, <3>3, <3>4, <3>5, <3>6, <3>7, <3>8, <3>9 DEF Pipeline
  <2> QED BY <1>3, <2>3, <2>4, Stages
<1> QED BY <1>1, <1>2, <1>3 DEF Next

----------------------------------------------------------------------------
(* The refinement.                                                         *)

(* A finished walk is the contract's line of statements.                   *)
LEMMA WalkIsLine ==
  ASSUME TypeOK, WalkHolds, WalkDone
  PROVE  Contract!LineageHolds
<1> DEFINE n == Len(path) - 1
           line == [i \in 0..n |-> path[i + 1]]
<1>1. path \in Seq(Stmts) /\ path # <<>> /\ Len(path) \in Nat /\ Len(path) <= MaxLineageDepth + 1
  BY DEF TypeOK, WalkHolds
<1>2. n \in 0..MaxLineageDepth
  <2>1. Len(path) > 0
    BY <1>1
  <2> QED BY <1>1, <2>1, VerifierAssumption
<1>3. \A i \in 0..n : i + 1 \in 1..Len(path) /\ path[i + 1] \in Stmts
  BY <1>1, <1>2
<1>4. line \in [0..n -> Stmts]
  BY <1>3
<1>5. line[0] = target
  BY <1>2 DEF WalkHolds
<1>6. ASSUME NEW i \in 1..n
      PROVE  /\ line[i] = pool[line[i - 1]].lineage
             /\ Contract!Edge(pool[line[i - 1]], pool[line[i]])
  <2>1. i \in 0..n /\ i - 1 \in 0..n /\ i - 1 + 1 = i /\ i \in 1..Len(path) - 1
    BY <1>2
  <2>2. line[i] = path[i + 1] /\ line[i - 1] = path[i]
    BY <2>1
  <2> HIDE DEF line, n
  <2> QED BY <2>1, <2>2 DEF WalkHolds
<1>7. n = MaxLineageDepth \/ pool[line[n]].lineage = None
  <2>1. n \in 0..n /\ n + 1 = Len(path)
    BY <1>1, <1>2
  <2>2. line[n] = Current
    BY <2>1 DEF Current
  <2> HIDE DEF line
  <2> QED BY <1>1, <2>2, VerifierAssumption DEF WalkDone
<1> HIDE DEF line, n
<1> QED BY <1>2, <1>4, <1>5, <1>6, <1>7 DEF Contract!LineageHolds

(* An anchor without error is the contract's evidence.                     *)
LEMMA AnchorIsEvidence ==
  ASSUME TypeOK, AnchorErrorOf(T) = None
  PROVE  Contract!Evidence(T)
<1>1. T \in Statement
  BY PoolTyped, VerifierAssumption DEF T, TypeOK
<1>2. /\ T.anchor_hash \in {"none", "match", "mismatch"}
      /\ T.timestamp \in Nat \cup {None}
      /\ T.anchor # None => T.anchor.ts \in Nat
  BY <1>1 DEF Statement, Opt, Anchor, Time
<1>3. T.anchor_hash # "mismatch" /\ (T.anchor = None => T.anchor_hash # "match")
  BY StringErrors DEF AnchorErrorOf, AnchorError, Error
<1>4. T.anchor # None =>
        /\ T.anchor.log \in TrustedLogs /\ T.anchor.signed /\ T.anchor.included
        /\ ~(T.timestamp # None /\ T.anchor.ts < T.timestamp)
  BY <1>3, StringErrors DEF AnchorErrorOf, AnchorError, Error
<1> QED BY <1>2, <1>3, <1>4 DEF Contract!Evidence

LEMMA AcceptsByContract ==
  ASSUME TypeOK, StoreInv, BehindInv, Accepts
  PROVE  Contract!Accept
<1>1. /\ UNCHANGED <<pool, target, atStart>> /\ pc \in {"anchor", "revocation"}
      /\ pc' = "done" /\ err = None /\ err' = None
  BY DEF Accepts, CheckAnchor, CheckRevocation, Step, ghost, BehindInv
<1>2. AnchorErrorOf(T) = None
  BY StringErrors, ErrorsTyped
  DEF Accepts, CheckAnchor, CheckRevocation, Step, Fail, BehindInv
<1>3. Contract!Acceptable
  <2>1. Contract!Authentic(T)
    BY <1>1 DEF BehindInv, Parsed, Walking, Contract!Authentic, Contract!ObjectRequired, ObjectRequired
  <2>2. Contract!LineageHolds
    BY <1>1, WalkIsLine DEF BehindInv, Walking
  <2>3. Contract!Evidence(T)
    BY <1>2, AnchorIsEvidence
  <2>4. T.predicate = "recovers" /\ T.object # None => KidHash[T.kid] = T.subject
    BY <1>1 DEF BehindInv
  <2> QED BY <2>1, <2>2, <2>3, <2>4 DEF Contract!Acceptable, T
<1>4. warnings' \in Contract!Notes(T)
  <2>1. CASE CheckAnchor
    <3>1. T.anchor = None /\ warnings = {} /\ warnings' = {"TemporalEvidenceMissing"}
      BY <1>1, <1>2, <2>1 DEF CheckAnchor, Step, BehindInv
    <3> QED BY <3>1 DEF Contract!Notes
  <2>2. CASE CheckRevocation
    <3> DEFINE status == is_revoked_in_log(target, T.anchor.ts)
    <3>1. /\ pc = "revocation" /\ status # "revoked" /\ T.anchor # None /\ warnings = Late
          /\ warnings' = warnings \cup IF status = "unknown" THEN {"RevocationStatusUnknown"} ELSE {}
      BY <1>1, <2>2, StringErrors DEF CheckRevocation, Step, Fail, Error, BehindInv
    <3>2. status # "unknown" => target \notin atStart.stmts
      BY <3>1 DEF is_revoked_in_log, CacheStatus, StoreInv
    <3>3. Late = IF T.timestamp # None /\ T.anchor.ts > T.timestamp + MaxSthDelta
                 THEN {"StaleSth"} ELSE {}
      <4>1. T \in Statement
        BY PoolTyped, VerifierAssumption DEF T, TypeOK
      <4>2. T.timestamp \in Nat \cup {None} /\ T.anchor.ts \in Nat
        BY <3>1, <4>1 DEF Statement, Opt, Anchor, Time
      <4> QED BY <4>2, VerifierAssumption DEF Late
    <3> HIDE DEF status
    <3>4. CASE status = "unknown"
      BY <3>1, <3>3, <3>4 DEF Contract!Notes
    <3>5. CASE status # "unknown"
      BY <3>1, <3>2, <3>3, <3>5 DEF Contract!Notes
    <3> QED BY <3>4, <3>5
  <2> QED BY <2>1, <2>2 DEF Accepts
<1>5. Outcome = "running" /\ Outcome' = "accepted" /\ Notes' = warnings'
  BY <1>1 DEF Outcome, Notes, Accepted
<1> QED BY <1>1, <1>3, <1>4, <1>5 DEF Contract!Accept, Outcome, Notes, T

(* Verifier implements the safety part of VerifyContract: it starts as the *)
(* contract does, and every step of the call, of the store or of nobody is *)
(* a step the contract allows.                                             *)
THEOREM PipelineImplementsContract ==
  Spec => Contract!Init /\ [][Contract!Next]_(Contract!vars)
<1>1. Init => Contract!Init
  BY DEF Init, Contract!Init, Accepted
<1>2. Init => StoreInv /\ BehindInv /\ PathInv
  BY DEF Init, StoreInv, CacheComplete, BehindInv, PathInv, Running, Parsed, Walking,
     LineageIsCommitted, StampedStretchMonotone, AppendsOneSubject
<1>3. TypeOK /\ StoreInv /\ BehindInv /\ PathInv /\ [Next]_vars =>
        StoreInv' /\ BehindInv' /\ PathInv'
  BY StoreInvInductive, BehindInductive, PathInvInductive
<1>4. TypeOK /\ StoreInv /\ BehindInv /\ PathInv /\ [Next]_vars =>
        [Contract!Next]_(Contract!vars)
  <2> SUFFICES ASSUME TypeOK, StoreInv, BehindInv, PathInv, [Next]_vars
               PROVE  [Contract!Next]_(Contract!vars)
    OBVIOUS
  <2>1. CASE Start
    <3>1. /\ pc = "idle" /\ err = None /\ UNCHANGED <<pool, target>>
          /\ atStart'.stmts = cache.revoked /\ cache.revoked \subseteq Stmts
      BY <2>1 DEF Start, BehindInv, TypeOK, Cache
    <3>2. pc' = "resolve" \/ (pc' = "done" /\ err' # None)
      BY <2>1 DEF Start, FailOr, Fail, Continue
    <3>3. Outcome = "idle" /\ Outcome' \in {"running", "rejected"} /\ Notes = {} /\ Notes' = {}
      BY <3>1, <3>2 DEF Outcome, Notes, Accepted
    <3> QED BY <3>1, <3>3 DEF Contract!Next, Contract!Begin, Outcome, Notes
  <2>2. CASE Pipeline /\ ~Start
    <3>1. UNCHANGED <<pool, target, atStart>>
      BY <2>2, Stages DEF ghost
    <3>2. CASE GoesOn
      <4>1. UNCHANGED <<Outcome, Notes>>
        BY <3>2 DEF GoesOn, Outcome, Notes, Accepted
      <4> QED BY <3>1, <4>1 DEF Contract!vars, Outcome, Notes
    <3>3. CASE Refuses
      <4>1. Outcome = "running" /\ Outcome' = "rejected" /\ Notes = {} /\ Notes' = {}
        BY <3>3 DEF Refuses, Outcome, Notes, Accepted
      <4> QED BY <3>1, <4>1 DEF Contract!Next, Contract!Reject, Outcome, Notes
    <3>4. CASE Accepts
      BY <3>4, AcceptsByContract DEF Contract!Next
    <3> QED BY <2>2, <3>2, <3>3, <3>4, Stages
  <2>3. CASE Environment \/ UNCHANGED vars
    <3>1. UNCHANGED <<pool, target, call, atStart>>
      BY <2>3 DEF Environment, ServeOther, LogRevocation, RevokeKey, Tick, RefreshCache,
         Connectivity, Env, vars, ghost
    <3> QED BY <3>1 DEF Contract!vars, Accepted, call
  <2> QED BY <2>1, <2>2, <2>3 DEF Next
<1> QED BY <1>1, <1>2, <1>3, <1>4, TypeCorrect, PTL DEF Spec
=============================================================================
