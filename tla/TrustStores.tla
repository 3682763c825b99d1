---------------------------- MODULE TrustStores ----------------------------
(* The trust stores of the command line and of the C, Go, Python and Node   *)
(* bindings: each is built once from the caller's arguments and never       *)
(* changes afterwards, so that a verification against it is a function.     *)
(* Their lookups ignore the kid they are asked for.                         *)
EXTENDS Checks, Integers

CONSTANTS
  BadLength,        \* an argument of the wrong length, or no hex
  NoPoint,          \* 32 bytes that are no Ed25519 key
  CompositeOf,      \* the composite key of an Ed25519 and an ML-DSA key
  KidOnCurve,       \* whether a composite's kid decodes as an Ed25519 key
  MaxLineageDepth,  \* MAX_LINEAGE_DEPTH
  MaxSthDelta       \* MAX_STH_STALE_DELTA

ASSUME TrustStoresAssumption ==
  /\ {BadLength, NoPoint} \cap (Nat \cup Keys \cup {None}) = {} /\ BadLength # NoPoint
  /\ CompositeOf \in [Keys \X Keys -> Keys]
  /\ KidOnCurve \in BOOLEAN /\ MaxLineageDepth \in Nat /\ MaxSthDelta \in Nat

----------------------------------------------------------------------------
(* What a caller passes in *)

(* An entry of a revocation list: the hash in hex, perhaps between spaces.  *)
Listed == [hash : Stmts, spaced : BOOLEAN]
RevocationLists == [checkpoint : Opt(Nat), revoked : SUBSET Listed,
                    not_revoked : SUBSET Listed]
NoLists == [checkpoint |-> None, revoked |-> {}, not_revoked |-> {}]

(* A key argument: a key, or bytes that are none.                           *)
KeyArg == Keys \cup {BadLength, NoPoint}
Args == [pubkey : Opt(KeyArg), mldsa : Opt(Keys \cup {BadLength}),
         log : Opt(Nat \cup {BadLength})]

Store == [ed : Opt(Keys), composite : Opt(Keys), mldsa : Opt(Keys),
          chain : SUBSET Stmts, logs : SUBSET Nat, cache : Cache]

----------------------------------------------------------------------------
(* The four constructions *)

KeyOrNone(k) == IF k \in Keys THEN k ELSE None
LogOrNone(l) == IF l \in Nat THEN {l} ELSE {}
Plain(entries) == {e.hash : e \in {x \in entries : ~x.spaced}}
Trimmed(entries) == {e.hash : e \in entries}

(* The kid in the header read as an Ed25519 key, as --pubkey's default:     *)
(* 32 bytes and a point, or an error.                                       *)
KeyFromKid(s) ==
  IF \/ s.form = "malformed" \/ s.alg = "mldsa65"
     \/ s.alg = "composite" /\ ~KidOnCurve
  THEN None ELSE s.kid

EdKey(a, s) == IF a.pubkey = None THEN KeyFromKid(s) ELSE KeyOrNone(a.pubkey)

(* build_trust_store gives up on any argument it cannot read.               *)
Unusable(a, s) == EdKey(a, s) = None \/ a.mldsa = BadLength \/ a.log = BadLength

CliTrustStore(a, s, chain, lists) ==
  [ed |-> EdKey(a, s),
   composite |-> IF a.mldsa = None THEN None ELSE CompositeOf[<<EdKey(a, s), a.mldsa>>],
   mldsa |-> a.mldsa,
   chain |-> chain, logs |-> LogOrNone(a.log),
   cache |-> [checkpoint |-> lists.checkpoint, revoked |-> Plain(lists.revoked),
              not_revoked |-> Plain(lists.not_revoked)]]

RevokedAsUnlisted(a, chain, lists) ==
  [ed |-> KeyOrNone(a.pubkey), composite |-> None, mldsa |-> None,
   chain |-> chain, logs |-> LogOrNone(a.log),
   cache |-> [checkpoint |-> lists.checkpoint, revoked |-> Plain(lists.not_revoked),
              not_revoked |-> Plain(lists.revoked)]]

(* verax_verify_full: what it cannot read is absent, and checkpoint 0 too.  *)
FfiTrustStore(a, chain, lists) ==
  [ed |-> KeyOrNone(a.pubkey), composite |-> None, mldsa |-> None,
   chain |-> chain, logs |-> LogOrNone(a.log),
   cache |-> [checkpoint |-> IF lists.checkpoint = 0 THEN None ELSE lists.checkpoint,
              revoked |-> Trimmed(lists.revoked),
              not_revoked |-> Trimmed(lists.not_revoked)]]

(* VerifyFull of Go builds the arguments of verax_verify_full: the lists     *)
(* joined as they are, empty statements left out.                           *)
GoTrustStore(a, chain, lists) == FfiTrustStore(a, chain, lists)

(* verify_full of Python; the Node one differs in nothing a caller with a   *)
(* timestamp of at most 63 bits can tell.                                   *)
PyTrustStore(a, chain, lists) ==
  [ed |-> KeyOrNone(a.pubkey), composite |-> None, mldsa |-> None,
   chain |-> chain, logs |-> LogOrNone(a.log),
   cache |-> [checkpoint |-> lists.checkpoint, revoked |-> Plain(lists.revoked),
              not_revoked |-> Plain(lists.not_revoked)]]
NapiTrustStore(a, chain, lists) == PyTrustStore(a, chain, lists)

(* Both raise for a key of the wrong length before they build a store.      *)
Raises(a) == a.pubkey = BadLength

----------------------------------------------------------------------------
(* verify_statement_with_warnings against such a store *)

resolve(store, alg) ==
  IF alg = "ed25519" THEN store.ed
  ELSE IF alg = "composite" THEN store.composite ELSE store.mldsa

(* The lineage walk: where it stands after i fetches, and its error.        *)
Walk(pool, t, store) ==
  LET w[i \in 0..MaxLineageDepth] ==
        IF i = 0 THEN [at |-> t, err |-> None]
        ELSE LET last == w[i - 1]
                 prev == pool[last.at].lineage
             IN IF last.err # None \/ prev = None THEN last
                ELSE IF prev \notin store.chain THEN [last EXCEPT !.err = "BrokenLineage"]
                ELSE [at |-> prev, err |-> LinkError(pool[last.at], pool[prev])]
  IN w[MaxLineageDepth]

RevocationStatus(pool, t, store) ==
  IF pool[t].anchor = None THEN "unasked"
  ELSE CacheStatus(store.cache, t, pool[t].anchor.ts)

(* The checks in the order the call makes them.                             *)
CheckErrors(pool, t, store) ==
  LET s == pool[t]
      about == IF s.object \in store.chain THEN s.object ELSE None
  IN <<ParseError(s),
       IF resolve(store, s.alg) = None THEN "Crypto" ELSE None,
       IF s.signer # resolve(store, s.alg) THEN SignatureError(s) ELSE None,
       IF ObjectRequired(s) /\ s.object = None THEN "Payload" ELSE None,
       Walk(pool, t, store).err,
       IF s.predicate = "revokes" /\ about # None THEN RevokesError(s, pool[about]) ELSE None,
       IF s.predicate = "recovers" /\ s.object # None
         THEN RecoversError(s, IF about = None THEN None ELSE PolicyOf(pool[about]))
         ELSE None,
       AnchorError(s, store.logs),
       IF RevocationStatus(pool, t, store) = "revoked" THEN "Revoked" ELSE None>>

WarningsOf(pool, t, store) ==
  LET s == pool[t]
  IN IF s.anchor = None THEN {"TemporalEvidenceMissing"}
     ELSE {w \in {"StaleSth", "RevocationStatusUnknown"} :
             \/ /\ w = "StaleSth" /\ s.timestamp # None
                /\ s.anchor.ts - s.timestamp > MaxSthDelta
             \/ w = "RevocationStatusUnknown" /\ RevocationStatus(pool, t, store) = "unknown"}

verify(pool, t, store) ==
  LET errors == CheckErrors(pool, t, store)
      failed == {i \in DOMAIN errors : errors[i] # None}
  IN IF failed = {} THEN [err |-> None, warnings |-> WarningsOf(pool, t, store)]
     ELSE [err |-> errors[CHOOSE i \in failed : \A j \in failed : i <= j],
           warnings |-> {}]

Answer == [err : Opt(Error), warnings : SUBSET Warning]

ASSUME AnswerAssumption == None \notin Answer

=============================================================================
