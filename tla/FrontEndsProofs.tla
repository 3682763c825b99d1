-------------------------- MODULE FrontEndsProofs --------------------------
(* What FrontEnds promises, for any statements, arguments and files, however *)
(* other programs write them while the command reads: types, the agreement   *)
(* of the front ends, the authority behind accepted revocations, what is     *)
(* known of a revocation, and the truth of the report.                       *)
EXTENDS FrontEnds, Integers, WellFoundedInduction, TLAPS

USE NoneAssumption, StmtsAssumption

----------------------------------------------------------------------------
(* Induction over numbers, and iterated functions *)

(* A set of numbers that has 0, and with each number the next, has all.     *)
LEMMA SetInduction ==
  ASSUME NEW S, 0 \in S, \A n \in Nat : n \in S => n + 1 \in S
  PROVE  \A n \in Nat : n \in S
<1> SUFFICES ASSUME NEW m \in Nat, m \notin S PROVE FALSE
  OBVIOUS
<1>1. PICK x \in Nat \ S : \A y \in Nat \ S : ~(<<y, x>> \in OpToRel(<, Nat))
  BY WFMin, NatLessThanWellFounded
<1>2. \A y \in Nat \ S : ~(y < x)
  BY <1>1 DEF OpToRel
<1>3. x # 0
  BY <1>1
<1>4. x - 1 \in Nat /\ x - 1 < x /\ (x - 1) + 1 = x
  BY <1>3
<1>5. x - 1 \in S
  BY <1>2, <1>4
<1> QED BY <1>1, <1>4, <1>5

(* A set of natural numbers that is not empty has a least element.          *)
LEMMA LeastExists ==
  ASSUME NEW S, S \subseteq Nat, S # {}
  PROVE  \E i \in S : \A j \in S : i <= j
<1>1. PICK x \in S : \A y \in S : ~(<<y, x>> \in OpToRel(<, Nat))
  BY WFMin, NatLessThanWellFounded
<1>2. \A y \in S : ~(y < x)
  BY <1>1 DEF OpToRel
<1>3. \A y \in S : x <= y
  <2>1. \A a, b \in Nat : ~(b < a) => a <= b
    OBVIOUS
  <2>2. x \in Nat /\ \A y \in S : y \in Nat
    OBVIOUS
  <2> QED BY <1>2, <2>1, <2>2
<1> QED BY <1>3

(* w is the sequence of values from b on, each what G makes of the one      *)
(* before. For any function G on R, there is one of every length.           *)
Iterates(w, n, R, b, G) ==
  w \in [0..n -> R] /\ w[0] = b /\ \A i \in 1..n : w[i] = G[w[i - 1]]

LEMMA IterationExists ==
  ASSUME NEW n \in Nat, NEW R, NEW b \in R, NEW G \in [R -> R]
  PROVE  \E w : Iterates(w, n, R, b, G)
<1> DEFINE S == {m \in Nat : \E w : Iterates(w, m, R, b, G)}
<1>1. 0 \in S
  <2>1. Iterates([i \in 0..0 |-> b], 0, R, b, G)
    BY DEF Iterates
  <2> QED BY <2>1
<1>2. ASSUME NEW m \in Nat, m \in S PROVE m + 1 \in S
  <2>1. PICK w : Iterates(w, m, R, b, G)
    BY <1>2
  <2> DEFINE v == [i \in 0..m + 1 |-> IF i <= m THEN w[i] ELSE G[w[m]]]
  <2>2. w \in [0..m -> R] /\ w[0] = b /\ \A i \in 1..m : w[i] = G[w[i - 1]]
    BY <2>1 DEF Iterates
  <2>3. v \in [0..m + 1 -> R] /\ v[0] = b
    BY <2>2
  <2>4. \A i \in 1..m + 1 : v[i] = G[v[i - 1]]
    <3> SUFFICES ASSUME NEW i \in 1..m + 1 PROVE v[i] = G[v[i - 1]]
      OBVIOUS
    <3>1. i - 1 \in 0..m /\ i - 1 \in 0..m + 1 /\ v[i - 1] = w[i - 1]
      OBVIOUS
    <3>2. CASE i <= m
      BY <2>2, <3>1, <3>2
    <3>3. CASE i = m + 1
      BY <3>1, <3>3
    <3> QED BY <3>2, <3>3
  <2>5. Iterates(v, m + 1, R, b, G)
    BY <2>3, <2>4 DEF Iterates
  <2> HIDE DEF v
  <2> QED BY <2>5
<1> HIDE DEF S
<1>3. n \in S
  BY <1>1, <1>2, SetInduction
<1> QED BY <1>3 DEF S

(* What holds of w[0], and is handed on from each value to the next, holds  *)
(* of all values in 0..n.                                                   *)
LEMMA IntervalInduction ==
  ASSUME NEW n \in Nat, NEW w, NEW S, w[0] \in S, \A i \in 1..n : w[i - 1] \in S => w[i] \in S
  PROVE  \A i \in 0..n : w[i] \in S
<1> DEFINE U == {i \in Nat : i <= n => w[i] \in S}
<1>1. 0 \in U
  OBVIOUS
<1>2. ASSUME NEW m \in Nat, m \in U PROVE m + 1 \in U
  <2>1. m + 1 <= n => m + 1 \in 1..n /\ m <= n /\ (m + 1) - 1 = m
    OBVIOUS
  <2> QED BY <1>2, <2>1
<1> HIDE DEF U
<1>3. \A m \in Nat : m \in U
  BY <1>1, <1>2, SetInduction
<1> QED BY <1>3 DEF U

----------------------------------------------------------------------------
(* The verification as a function *)

(* The first of the errors is the answer, so that a statement is accepted   *)
(* only when there is none.                                                 *)
LEMMA VerifyAccepts ==
  ASSUME NEW p, NEW t, NEW s, verify(p, t, s).err = None
  PROVE  /\ verify(p, t, s).warnings = WarningsOf(p, t, s)
         /\ \A i \in DOMAIN CheckErrors(p, t, s) : CheckErrors(p, t, s)[i] = None
<1> DEFINE errors == CheckErrors(p, t, s)
           failed == {i \in DOMAIN errors : errors[i] # None}
<1>1. failed \subseteq Nat
  BY DEF CheckErrors
<1>2. ASSUME failed # {} PROVE FALSE
  <2> DEFINE first == CHOOSE i \in failed : \A j \in failed : i <= j
  <2>1. first \in failed
    <3> HIDE DEF failed
    <3> QED BY <1>1, <1>2, LeastExists
  <2>2. verify(p, t, s).err = errors[first]
    <3> HIDE DEF first
    <3>1. verify(p, t, s) = [err |-> errors[first], warnings |-> {}]
      BY <1>2 DEF verify, first
    <3> QED BY <3>1
  <2> QED BY <2>1, <2>2
<1>3. failed = {}
  BY <1>2
<1> QED BY <1>3 DEF verify

(* What each of the checks has found when a statement is accepted.          *)
LEMMA ChecksPassed ==
  ASSUME NEW p, NEW t, NEW s, verify(p, t, s).err = None
  PROVE  /\ ParseError(p[t]) = None
         /\ resolve(s, p[t].alg) # None /\ p[t].signer = resolve(s, p[t].alg)
         /\ Walk(p, t, s).err = None
         /\ p[t].predicate = "revokes" /\ p[t].object \in s.chain /\ p[t].object # None =>
              RevokesError(p[t], p[p[t].object]) = None
         /\ p[t].predicate = "recovers" /\ p[t].object \in s.chain /\ p[t].object # None =>
              RecoversError(p[t], PolicyOf(p[p[t].object])) = None
         /\ AnchorError(p[t], s.logs) = None
         /\ RevocationStatus(p, t, s) # "revoked"
<1> DEFINE a == p[t]
           about == IF a.object \in s.chain THEN a.object ELSE None
           e3 == IF a.signer # resolve(s, a.alg) THEN SignatureError(a) ELSE None
           e2 == IF resolve(s, a.alg) = None THEN "Crypto" ELSE None
           e4 == IF ObjectRequired(a) /\ a.object = None THEN "Payload" ELSE None
           e6 == IF a.predicate = "revokes" /\ about # None
                 THEN RevokesError(a, p[about]) ELSE None
           e7 == IF a.predicate = "recovers" /\ a.object # None
                 THEN RecoversError(a, IF about = None THEN None ELSE PolicyOf(p[about]))
                 ELSE None
           e9 == IF RevocationStatus(p, t, s) = "revoked" THEN "Revoked" ELSE None
<1>1. CheckErrors(p, t, s) = <<ParseError(a), e2, e3, e4, Walk(p, t, s).err, e6, e7,
                               AnchorError(a, s.logs), e9>>
  BY DEF CheckErrors
<1>2. \A i \in DOMAIN CheckErrors(p, t, s) : CheckErrors(p, t, s)[i] = None
  BY VerifyAccepts
<1>3. /\ ParseError(a) = None /\ e2 = None /\ e3 = None /\ Walk(p, t, s).err = None /\ e6 = None /\ e7 = None
      /\ AnchorError(a, s.logs) = None /\ e9 = None
  <2> HIDE DEF e2, e3, e4, e6, e7, e9, a
  <2> QED BY <1>1, <1>2
<1>4. RevocationStatus(p, t, s) # "revoked"
  BY <1>3, ErrorAssumption DEF Error
<1>5. resolve(s, a.alg) # None
  BY <1>3, ErrorAssumption DEF Error
<1>6. a.signer = resolve(s, a.alg)
  BY <1>3, ErrorAssumption DEF SignatureError, Error
<1> QED BY <1>3, <1>4, <1>5, <1>6

LEMMA Parsed ==
  ASSUME NEW s, ParseError(s) = None
  PROVE  s.form \notin {"malformed", "undecodable", "noncanonical", "badheader", "badalg"}
BY ErrorAssumption DEF ParseError, Error

(* A REVOKES that passes names the issuer of what it revokes, and a         *)
(* RECOVERS a guardian of what it recovers.                                 *)
LEMMA AuthorityChecked ==
  ASSUME NEW s, NEW about
  PROVE  /\ RevokesError(s, about) = None => about.form # "malformed" /\ s.kid = about.kid
         /\ RecoversError(s, PolicyOf(about)) = None /\ PolicyOf(about) # None =>
              PolicyOf(about).ok /\ KidHash[s.kid] \in PolicyOf(about).guardians
<1>1. RevokesError(s, about) = None => about.form # "malformed" /\ s.kid = about.kid
  BY ErrorAssumption DEF RevokesError, Error
<1>2. ASSUME NEW policy, RecoversError(s, policy) = None, policy # None
      PROVE  policy.ok /\ KidHash[s.kid] \in policy.guardians
  <2>1. ~(\/ KidHash[s.kid] # s.subject
          \/ policy # None /\ (~policy.ok \/ s.subject \notin policy.guardians))
    BY <1>2, ErrorAssumption DEF RecoversError, Error
  <2> QED BY <1>2, <2>1
<1> QED BY <1>1, <1>2

(* Against a trusted log, signed and included.                              *)
LEMMA AnchorChecked ==
  ASSUME NEW s, NEW logs, AnchorError(s, logs) = None
  PROVE  /\ s.anchor_hash # "mismatch"
         /\ s.anchor # None =>
              s.anchor.log \in logs /\ s.anchor.signed /\ s.anchor.included
         /\ s.anchor_hash = "match" => s.anchor # None
<1>1. s.anchor_hash # "mismatch"
  BY ErrorAssumption DEF AnchorError, Error
<1>2. ASSUME s.anchor # None
      PROVE  s.anchor.log \in logs /\ s.anchor.signed /\ s.anchor.included
  BY <1>1, <1>2, ErrorAssumption DEF AnchorError, Error
<1>3. s.anchor_hash = "match" => s.anchor # None
  BY ErrorAssumption DEF AnchorError, Error
<1> QED BY <1>1, <1>2, <1>3

(* Told without reserve: the cache is from after the anchor, and lists the  *)
(* statement as not revoked.                                                *)
LEMMA ListedAsStanding ==
  ASSUME NEW p, NEW t, NEW s, verify(p, t, s).err = None, p[t].anchor # None,
         "RevocationStatusUnknown" \notin verify(p, t, s).warnings
  PROVE  /\ s.cache.checkpoint # None /\ ~(p[t].anchor.ts > s.cache.checkpoint)
         /\ t \in s.cache.not_revoked
<1>1. RevocationStatus(p, t, s) = CacheStatus(s.cache, t, p[t].anchor.ts)
  BY DEF RevocationStatus
<1>2. RevocationStatus(p, t, s) # "revoked"
  BY ChecksPassed
<1>3. RevocationStatus(p, t, s) # "unknown"
  <2>1. ASSUME RevocationStatus(p, t, s) = "unknown"
        PROVE  "RevocationStatusUnknown" \in WarningsOf(p, t, s)
    BY <2>1 DEF WarningsOf
  <2> QED BY <2>1, VerifyAccepts
<1> QED BY <1>1, <1>2, <1>3 DEF CacheStatus

----------------------------------------------------------------------------
(* The lineage walk. Where it stands after each fetch is a function, and    *)
(* Walk is its last value.                                                  *)

Place == [at : Stmts, err : Opt(Error)]

Fetch(p, s, last) ==
  LET prev == p[last.at].lineage
  IN IF last.err # None \/ prev = None THEN last
     ELSE IF prev \notin s.chain THEN [last EXCEPT !.err = "BrokenLineage"]
     ELSE [at |-> prev, err |-> LinkError(p[last.at], p[prev])]

Walks(p, t, s, w) ==
  /\ w \in [0..MaxLineageDepth -> Place] /\ w[0] = [at |-> t, err |-> None]
  /\ \A i \in 1..MaxLineageDepth : w[i] = Fetch(p, s, w[i - 1])

LEMMA FetchTyped ==
  ASSUME NEW p \in [Stmts -> Statement], NEW s, s.chain \subseteq Stmts, NEW v \in Place
  PROVE  Fetch(p, s, v) \in Place
<1>1. \A x, y : LinkError(x, y) \in Opt(Error)
  BY DEF LinkError, Opt, Error
<1>2. "BrokenLineage" \in Opt(Error)
  BY DEF Opt, Error
<1> QED BY <1>1, <1>2 DEF Fetch, Place

LEMMA WalkIsLast ==
  ASSUME NEW p \in [Stmts -> Statement], NEW t \in Stmts, NEW s, s.chain \subseteq Stmts
  PROVE  \E w : Walks(p, t, s, w) /\ Walk(p, t, s) = w[MaxLineageDepth]
<1> DEFINE N == MaxLineageDepth
           start == [at |-> t, err |-> None]
           G == [v \in Place |-> Fetch(p, s, v)]
           Body(w) == [i \in 0..N |-> IF i = 0 THEN start ELSE
                         LET last == w[i - 1]
                             prev == p[last.at].lineage
                         IN IF last.err # None \/ prev = None THEN last
                            ELSE IF prev \notin s.chain THEN [last EXCEPT !.err = "BrokenLineage"]
                            ELSE [at |-> prev, err |-> LinkError(p[last.at], p[prev])]]
           walk == CHOOSE w : w = Body(w)
<1>1. N \in Nat
  BY TrustStoresAssumption
<1>2. start \in Place
  BY DEF Place, Opt
<1>3. G \in [Place -> Place] /\ \A v \in Place : G[v] = Fetch(p, s, v)
  BY FetchTyped
<1>4. \A w : Body(w) = [i \in 0..N |-> IF i = 0 THEN start ELSE Fetch(p, s, w[i - 1])]
  BY DEF Fetch
<1>5. \E w : w = Body(w)
  <2>1. PICK w : Iterates(w, N, Place, start, G)
    <3>1. G \in [Place -> Place]
      BY <1>3
    <3> HIDE DEF start, G, N
    <3> QED BY <1>1, <1>2, <3>1, IterationExists
  <2>2. \A i \in 1..N : w[i] = Fetch(p, s, w[i - 1])
    <3>1. \A i \in 1..N : w[i - 1] \in Place
      BY <1>1, <2>1 DEF Iterates
    <3> HIDE DEF start, G, N
    <3> QED BY <1>3, <2>1, <3>1 DEF Iterates
  <2>3. w = [i \in 0..N |-> IF i = 0 THEN start ELSE Fetch(p, s, w[i - 1])]
    <3> HIDE DEF start, G
    <3> QED BY <1>1, <2>1, <2>2 DEF Iterates
  <2> HIDE DEF Body
  <2> QED BY <1>4, <2>3
<1>6. walk = [i \in 0..N |-> IF i = 0 THEN start ELSE Fetch(p, s, walk[i - 1])]
  <2> HIDE DEF Body
  <2> QED BY <1>4, <1>5
<1>7. Walk(p, t, s) = walk[N]
  BY DEF Walk
<1> HIDE DEF walk
<1>8. /\ walk[0] = start
      /\ \A i \in 1..N : walk[i] = Fetch(p, s, walk[i - 1])
  <2> HIDE DEF start
  <2> QED BY <1>1, <1>6
<1>9. \A i \in 0..N : walk[i] \in Place
  <2>1. \A i \in 1..N : walk[i - 1] \in Place => walk[i] \in Place
    BY <1>8, FetchTyped
  <2> HIDE DEF start, N
  <2> QED BY <1>1, <1>2, <1>8, <2>1, IntervalInduction
<1>10. walk \in [0..N -> Place]
  <2> HIDE DEF start
  <2> QED BY <1>6, <1>9
<1> QED BY <1>7, <1>8, <1>10 DEF Walks

LEMMA WalkTyped ==
  ASSUME NEW p \in [Stmts -> Statement], NEW t \in Stmts, NEW s, s.chain \subseteq Stmts
  PROVE  Walk(p, t, s).err \in Opt(Error)
<1>1. PICK w : Walks(p, t, s, w) /\ Walk(p, t, s) = w[MaxLineageDepth]
  BY WalkIsLast
<1>2. MaxLineageDepth \in 0..MaxLineageDepth
  BY TrustStoresAssumption
<1> QED BY <1>1, <1>2 DEF Walks, Place

(* An error ends the walk: once there, it stays to the end.                 *)
LEMMA NoErrorOnTheWay ==
  ASSUME NEW p, NEW t, NEW s, NEW w, Walks(p, t, s, w), w[MaxLineageDepth].err = None,
         NEW i \in 0..MaxLineageDepth
  PROVE  w[i].err = None
<1> SUFFICES ASSUME w[i].err # None PROVE FALSE
  OBVIOUS
<1> DEFINE n == MaxLineageDepth - i
           v == [j \in 0..n |-> w[i + j]]
           Wrong == {x \in Place : x.err # None}
<1>1. n \in Nat /\ MaxLineageDepth \in Nat /\ i \in Nat /\ i + n = MaxLineageDepth
  BY TrustStoresAssumption
<1>2. \A j \in 0..n : i + j \in 0..MaxLineageDepth /\ v[j] = w[i + j]
  BY <1>1
<1>3. v[0] \in Wrong
  BY <1>1, <1>2 DEF Walks
<1>4. ASSUME NEW j \in 1..n, v[j - 1] \in Wrong PROVE v[j] \in Wrong
  <2>1. i + j \in 1..MaxLineageDepth /\ (i + j) - 1 = i + (j - 1) /\ j \in 0..n /\ j - 1 \in 0..n
    BY <1>1
  <2>2. v[j] = w[i + j] /\ v[j - 1] = w[i + (j - 1)]
    BY <1>2, <2>1
  <2>3. w[i + j] = Fetch(p, s, w[i + (j - 1)])
    BY <2>1 DEF Walks
  <2>4. Fetch(p, s, v[j - 1]) = v[j - 1]
    BY <1>4 DEF Fetch
  <2> HIDE DEF v, n
  <2> QED BY <1>4, <2>2, <2>3, <2>4
<1>5. v[n] \in Wrong
  <2>1. n \in 0..n
    BY <1>1
  <2> HIDE DEF v, n, Wrong
  <2> QED BY <1>1, <1>3, <1>4, <2>1, IntervalInduction
<1> QED BY <1>1, <1>2, <1>5

(* An accepted statement's lineage, as far as it is walked: every ancestor  *)
(* is in the chain, and each is what its child must follow (the walk of     *)
(* verify_statement_with_warnings, up to MAX_LINEAGE_DEPTH links).          *)
THEOREM AcceptedLineage ==
  ASSUME NEW p \in [Stmts -> Statement], NEW t \in Stmts, NEW s, s.chain \subseteq Stmts,
         verify(p, t, s).err = None,
         NEW n \in 0..MaxLineageDepth, NEW a \in [0..n -> Stmts],
         a[0] = t, \A i \in 1..n : p[a[i - 1]].lineage = a[i]
  PROVE  \A i \in 1..n : a[i] \in s.chain /\ LinkError(p[a[i - 1]], p[a[i]]) = None
<1>1. PICK w : Walks(p, t, s, w) /\ Walk(p, t, s) = w[MaxLineageDepth]
  BY WalkIsLast
<1>2. w[MaxLineageDepth].err = None
  BY <1>1, ChecksPassed
<1>3. n \in Nat /\ MaxLineageDepth \in Nat /\ \A i \in 0..n : i \in 0..MaxLineageDepth
  BY TrustStoresAssumption
<1>4. \A i \in 0..n : w[i].err = None
  BY <1>1, <1>2, <1>3, NoErrorOnTheWay
<1>5. ASSUME NEW i \in 1..n, w[i - 1].at = a[i - 1]
      PROVE  w[i].at = a[i] /\ a[i] \in s.chain /\ LinkError(p[a[i - 1]], p[a[i]]) = None
  <2>1. i - 1 \in 0..n /\ i \in 0..n /\ i \in 1..MaxLineageDepth /\ i \in 0..MaxLineageDepth
    BY <1>3
  <2>2. w[i - 1].err = None /\ w[i].err = None /\ w[i] = Fetch(p, s, w[i - 1])
    BY <1>1, <1>4, <2>1 DEF Walks
  <2>3. p[w[i - 1].at].lineage = a[i] /\ a[i] \in Stmts /\ a[i] # None
    BY <1>5, <2>1
  <2>4. w[i] = IF a[i] \notin s.chain THEN [w[i - 1] EXCEPT !.err = "BrokenLineage"]
               ELSE [at |-> a[i], err |-> LinkError(p[a[i - 1]], p[a[i]])]
    BY <1>5, <2>2, <2>3 DEF Fetch
  <2>5. a[i] \in s.chain
    <3>1. w[i - 1] \in Place
      BY <1>1, <1>3, <2>1 DEF Walks
    <3>2. [w[i - 1] EXCEPT !.err = "BrokenLineage"].err = "BrokenLineage"
      BY <3>1 DEF Place
    <3> QED BY <2>2, <2>4, <3>2, ErrorAssumption DEF Error
  <2> QED BY <2>2, <2>4, <2>5
<1>6. \A i \in 0..n : w[i].at = a[i]
  <2> DEFINE v == [i \in 0..n |-> IF w[i].at = a[i] THEN "level" ELSE "astray"]
  <2>1. v[0] \in {"level"}
    <3>1. 0 \in 0..n /\ w[0].at = a[0]
      BY <1>1, <1>3 DEF Walks
    <3> QED BY <3>1
  <2>2. ASSUME NEW i \in 1..n, v[i - 1] \in {"level"} PROVE v[i] \in {"level"}
    <3>1. i - 1 \in 0..n /\ i \in 0..n
      BY <1>3
    <3> QED BY <1>5, <2>2, <3>1
  <2>3. \A i \in 0..n : v[i] \in {"level"}
    <3> HIDE DEF v
    <3> QED BY <1>3, <2>1, <2>2, IntervalInduction
  <2> QED BY <2>3
<1>7. \A i \in 1..n : w[i - 1].at = a[i - 1]
  BY <1>3, <1>6
<1> QED BY <1>5, <1>7

(* Every verification against a store of its type answers as the types say. *)
LEMMA VerifyTyped ==
  ASSUME NEW p \in [Stmts -> Statement], NEW t \in Stmts, NEW s, s.chain \subseteq Stmts
  PROVE  verify(p, t, s) \in Answer
<1>1. WarningsOf(p, t, s) \in SUBSET Warning
  BY DEF WarningsOf, Warning
<1> DEFINE errors == CheckErrors(p, t, s)
           failed == {i \in DOMAIN errors : errors[i] # None}
           first == CHOOSE i \in failed : \A j \in failed : i <= j
<1>2. \A i \in DOMAIN errors : errors[i] \in Opt(Error)
  <2>1. /\ \A x : ParseError(x) \in Opt(Error)
        /\ \A x, y : RevokesError(x, y) \in Opt(Error)
        /\ \A x, y : RecoversError(x, y) \in Opt(Error)
        /\ \A x, y : AnchorError(x, y) \in Opt(Error)
    BY DEF ParseError, RevokesError, RecoversError, AnchorError, Opt, Error
  <2>2. Walk(p, t, s).err \in Opt(Error)
    BY WalkTyped
  <2>3. {None, "Crypto", "InvalidSignature", "Payload", "Revoked"} \subseteq Opt(Error)
    BY DEF Opt, Error
  <2>4. \A x : SignatureError(x) \in Opt(Error)
    BY <2>3 DEF SignatureError
  <2> QED BY <2>1, <2>2, <2>3, <2>4 DEF CheckErrors
<1>3. failed \subseteq Nat
  BY DEF CheckErrors
<1>4. failed # {} => first \in failed
  <2> HIDE DEF failed
  <2> QED BY <1>3, LeastExists
<1>5. failed # {} => errors[first] \in Opt(Error)
  <2> HIDE DEF first, errors
  <2> QED BY <1>2, <1>4
<1>6. verify(p, t, s) = IF failed = {} THEN [err |-> None, warnings |-> WarningsOf(p, t, s)]
                        ELSE [err |-> errors[first], warnings |-> {}]
  BY DEF verify
<1> HIDE DEF failed, first, errors
<1> QED BY <1>1, <1>5, <1>6 DEF Answer, Opt

----------------------------------------------------------------------------
(* The invariant *)

GivenTyped == pool \in Pools /\ target \in Targets /\ args \in ArgSets

LEMMA GivenMeans ==
  ASSUME GivenTyped
  PROVE  /\ target \in Stmts /\ args \in Args
         /\ \A h \in Stmts : pool[h] \in Statement
         /\ pool \in [Stmts -> Statement]
BY FrontEndsAssumption DEF GivenTyped

(* From its first read on, the command has contents it can use.             *)
Usable == data \in {"part", "whole"} /\ ~Unusable(args, Data)

(* What the command holds at each place, and what it makes of it.           *)
PlaceInv ==
  /\ pc \in {"start", "chain", "judge", "done"}
  /\ chain \subseteq Stmts /\ unread \subseteq Stmts
  /\ pc = "start" => chain = {}
  /\ pc # "done" => answer = None /\ report = None
  /\ pc \in {"chain", "judge"} => Usable
  /\ pc = "judge" => unread = {} /\ store = CliTrustStore(args, Data, chain, lists)
  /\ answer = None => report = None /\ \A f \in Front : others[f] = None
  /\ answer # None =>
       /\ Usable /\ unread = {} /\ store = CliTrustStore(args, Data, chain, lists)
       /\ mode \in Mode /\ report = ReportOf(answer, mode)
       /\ answer = verify(Read, target, store)

(* What the bindings answered, if they did.                                 *)
OthersInv ==
  \A f \in Front : others[f] # None =>
    answer # None /\ others[f] = verify(Read, target, BindingStore(f))

(* A file that is whole all along is read.                                  *)
SteadyInv ==
  /\ dir \in [Stmts -> Contents] /\ steady \subseteq Stmts
  /\ pc = "chain" => \A h \in steady : dir[h] = "whole"
  /\ pc \in {"chain", "judge"} \/ answer # None => steady \ unread \subseteq chain

(* What stands in a cache as not revoked was not when its checkpoint was    *)
(* taken: if it was revoked, then not before.                               *)
Sound(l) ==
  /\ l.checkpoint \in Nat => l.checkpoint <= now
  /\ \A e \in l.not_revoked :
       /\ ~e.spaced /\ l.checkpoint \in Nat
       /\ revokedAt[e.hash] # None => revokedAt[e.hash] >= l.checkpoint

CacheInv ==
  /\ now \in Nat /\ revokedAt \in [Stmts -> Opt(Nat)]
  /\ \A h \in Stmts : revokedAt[h] # None => revokedAt[h] <= now
  /\ cachefile \in {None, Torn} \cup RevocationLists /\ lists \in RevocationLists
  /\ cachefile \notin {None, Torn} => Sound(cachefile)
  /\ Sound(lists)

Inv == GivenTyped /\ PlaceInv /\ OthersInv /\ SteadyInv /\ CacheInv

LEMMA ReadTyped ==
  ASSUME GivenTyped
  PROVE  /\ T \in Statement /\ Data \in Statement
         /\ Read \in [Stmts -> Statement] /\ Read[target] = Data
         /\ data # "part" => Data = T /\ Read = pool
         /\ data = "part" => Data.form = "malformed"
<1>1. T \in Statement
  BY GivenMeans DEF T
<1>2. [T EXCEPT !.form = "malformed"] \in Statement
  BY <1>1 DEF Statement, Form
<1>3. [T EXCEPT !.form = "malformed"].form = "malformed"
  BY <1>1 DEF Statement
<1>4. Data \in Statement
  BY <1>1, <1>2 DEF Data
<1>5. data # "part" => Data = T
  BY DEF Data
<1>6. data = "part" => Data.form = "malformed"
  BY <1>3 DEF Data
<1>7. Read \in [Stmts -> Statement] /\ Read[target] = Data
  BY <1>4, GivenMeans DEF Read
<1>8. Data = T => Read = pool
  BY GivenMeans DEF Read, T
<1> QED BY <1>1, <1>4, <1>5, <1>6, <1>7, <1>8

(* Nothing the command holds, or the others answered, changes.              *)
LEMMA CommandKept ==
  ASSUME Inv, UNCHANGED <<given, command, others>>
  PROVE  GivenTyped' /\ PlaceInv' /\ OthersInv'
<1>1. UNCHANGED <<pool, target, args, pc, data, unread, chain, lists, store, answer, mode,
                  report, exit, others>>
  BY DEF given, command
<1>2. T' = T /\ Data' = Data /\ Read' = Read
  BY <1>1 DEF T, Data, Read
<1>3. ReportOf(answer, mode)' = ReportOf(answer, mode)
  BY <1>1, <1>2
  DEF ReportOf, Sections, ExplainSections, SchemesLabelled, WarningSections, JsonOutput
<1>4. \A f : BindingStore(f)' = BindingStore(f)
  BY <1>1 DEF BindingStore
<1>5. Usable' <=> Usable
  BY <1>1, <1>2 DEF Usable
<1>6. GivenTyped' /\ PlaceInv'
  BY <1>1, <1>2, <1>3, <1>5 DEF Inv, GivenTyped, PlaceInv
<1>7. OthersInv'
  BY <1>1, <1>2, <1>4 DEF Inv, OthersInv
<1> QED BY <1>6, <1>7

LEMMA InvInit == Init => Inv
<1> SUFFICES ASSUME Init PROVE Inv
  OBVIOUS
<1>1. GivenTyped /\ SteadyInv
  BY DEF Init, GivenTyped, SteadyInv, Contents
<1>2. PlaceInv /\ OthersInv
  BY DEF Init, PlaceInv, OthersInv
<1>3. NoLists \in RevocationLists /\ Sound(NoLists)
  BY DEF NoLists, RevocationLists, Sound, Opt
<1>4. CacheInv
  BY <1>3 DEF Init, CacheInv, Opt
<1> QED BY <1>1, <1>2, <1>4 DEF Inv

----------------------------------------------------------------------------
(* The steps of the command *)

LEMMA ReadStatementKeeps == ASSUME Inv, ReadStatement PROVE Inv'
<1>1. /\ pc = "start" /\ data' = dir[target] /\ steady' = {h \in Stmts : dir[h] = "whole"}
      /\ UNCHANGED <<pool, target, args, dir, cachefile, revokedAt, now, others,
                     chain, lists, store, answer, mode, report>>
  BY DEF ReadStatement, Step, given, world
<1>2. \/ pc' = "done" /\ UNCHANGED unread
      \/ /\ pc' = "chain" /\ unread' = Stmts
         /\ dir[target] \notin {"absent", "empty"} /\ ~Unusable(args, Data')
  BY DEF ReadStatement, Bail
<1>3. data' \in Contents
  BY <1>1, GivenMeans DEF Inv, SteadyInv
<1>4. answer = None /\ \A f \in Front : others[f] = None
  BY <1>1 DEF Inv, PlaceInv
<1>5. PlaceInv'
  <2>1. pc' = "chain" => Usable'
    BY <1>1, <1>2, <1>3 DEF Usable, Contents
  <2> QED BY <1>1, <1>2, <1>4, <2>1 DEF Inv, PlaceInv
<1>6. OthersInv'
  BY <1>1, <1>4 DEF OthersInv
<1>7. SteadyInv'
  BY <1>1, <1>2, <1>4 DEF Inv, SteadyInv
<1>8. GivenTyped' /\ CacheInv'
  BY <1>1 DEF Inv, GivenTyped, CacheInv, Sound
<1> QED BY <1>5, <1>6, <1>7, <1>8 DEF Inv

LEMMA ReadChainFileKeeps ==
  ASSUME Inv, NEW h \in Stmts, ReadChainFile(h)
  PROVE  Inv'
<1>1. /\ pc = "chain" /\ h \in unread /\ unread' = unread \ {h}
      /\ chain' = chain \cup (IF dir[h] = "whole" THEN {h} ELSE {})
      /\ UNCHANGED <<pool, target, args, dir, cachefile, revokedAt, now, others, pc, data,
                     lists, store, answer, mode, report, exit, steady>>
  BY DEF ReadChainFile, Step, given, world
<1>2. T' = T /\ Data' = Data
  BY <1>1 DEF T, Data
<1>3. answer = None /\ \A f \in Front : others[f] = None
  BY <1>1 DEF Inv, PlaceInv
<1>4. PlaceInv'
  <2>1. Usable'
    BY <1>1, <1>2 DEF Inv, PlaceInv, Usable
  <2>2. chain' \subseteq Stmts /\ unread' \subseteq Stmts
    BY <1>1 DEF Inv, PlaceInv
  <2> QED BY <1>1, <1>3, <2>1, <2>2 DEF Inv, PlaceInv
<1>5. OthersInv'
  BY <1>1, <1>3 DEF OthersInv
<1>6. SteadyInv'
  BY <1>1, <1>3 DEF Inv, SteadyInv
<1>7. GivenTyped' /\ CacheInv'
  BY <1>1 DEF Inv, GivenTyped, CacheInv, Sound
<1> QED BY <1>4, <1>5, <1>6, <1>7 DEF Inv

LEMMA ReadCacheKeeps == ASSUME Inv, ReadCache PROVE Inv'
<1>1. /\ pc = "chain" /\ unread = {} /\ pc' = "judge"
      /\ lists' = IF cachefile \in {None, Torn} THEN NoLists ELSE cachefile
      /\ store' = CliTrustStore(args, Data, chain, lists')
      /\ UNCHANGED <<pool, target, args, dir, cachefile, revokedAt, now, others, data,
                     unread, chain, answer, mode, report, exit, steady>>
  BY DEF ReadCache, Step, given, world
<1>2. T' = T /\ Data' = Data
  BY <1>1 DEF T, Data
<1>3. answer = None /\ \A f \in Front : others[f] = None
  BY <1>1 DEF Inv, PlaceInv
<1>4. PlaceInv'
  <2>1. Usable'
    BY <1>1, <1>2 DEF Inv, PlaceInv, Usable
  <2>2. store' = CliTrustStore(args', Data', chain', lists')
    BY <1>1, <1>2
  <2> QED BY <1>1, <1>3, <2>1, <2>2 DEF Inv, PlaceInv
<1>5. OthersInv'
  BY <1>1, <1>3 DEF OthersInv
<1>6. SteadyInv'
  BY <1>1, <1>3 DEF Inv, SteadyInv
<1>7. GivenTyped'
  BY <1>1 DEF Inv, GivenTyped
<1>8. CacheInv'
  <2>1. NoLists \in RevocationLists /\ Sound(NoLists)
    BY DEF NoLists, RevocationLists, Sound, Opt
  <2>2. lists' \in RevocationLists /\ Sound(lists')
    BY <1>1, <2>1 DEF Inv, CacheInv
  <2>3. Sound(lists)' /\ (cachefile \notin {None, Torn} => Sound(cachefile)')
    BY <1>1, <2>2 DEF Inv, CacheInv, Sound
  <2> QED BY <1>1, <2>2, <2>3 DEF Inv, CacheInv
<1> QED BY <1>4, <1>5, <1>6, <1>7, <1>8 DEF Inv

LEMMA JudgeKeeps == ASSUME Inv, Judge PROVE Inv'
<1>1. /\ pc = "judge" /\ pc' = "done" /\ answer' = verify(Read, target, store)
      /\ mode' \in Mode /\ report' = ReportOf(answer', mode')
      /\ UNCHANGED <<pool, target, args, dir, cachefile, revokedAt, now, others, data,
                     unread, chain, lists, store, steady>>
  BY DEF Judge, Step, given, world
<1>2. T' = T /\ Data' = Data /\ Read' = Read
  BY <1>1 DEF T, Data, Read
<1>3. answer = None /\ \A f \in Front : others[f] = None
  BY <1>1 DEF Inv, PlaceInv
<1>4. answer' # None
  <2>1. store.chain \subseteq Stmts
    <3>1. store = CliTrustStore(args, Data, chain, lists) /\ chain \subseteq Stmts
      BY <1>1 DEF Inv, PlaceInv
    <3>2. CliTrustStore(args, Data, chain, lists).chain = chain
      BY DEF CliTrustStore
    <3> QED BY <3>1, <3>2
  <2>2. answer' \in Answer
    BY <1>1, <2>1, VerifyTyped, ReadTyped, GivenMeans DEF Inv
  <2> QED BY <2>2, AnswerAssumption
<1>5. PlaceInv'
  <2>1. Usable'
    BY <1>1, <1>2 DEF Inv, PlaceInv, Usable
  <2>2. store' = CliTrustStore(args', Data', chain', lists') /\ unread' = {}
    BY <1>1, <1>2 DEF Inv, PlaceInv
  <2>3. report' = ReportOf(answer, mode)'
    BY <1>1, <1>2
    DEF ReportOf, Sections, ExplainSections, SchemesLabelled, WarningSections, JsonOutput
  <2>4. answer' = verify(Read', target', store')
    BY <1>1, <1>2
  <2> QED BY <1>1, <1>4, <2>1, <2>2, <2>3, <2>4 DEF Inv, PlaceInv
<1>6. OthersInv'
  BY <1>1, <1>3 DEF OthersInv
<1>7. SteadyInv'
  BY <1>1 DEF Inv, SteadyInv
<1>8. GivenTyped' /\ CacheInv'
  BY <1>1 DEF Inv, GivenTyped, CacheInv, Sound
<1> QED BY <1>5, <1>6, <1>7, <1>8 DEF Inv

LEMMA CallBindingsKeeps == ASSUME Inv, CallBindings PROVE Inv'
<1>1. /\ pc = "done" /\ answer # None
      /\ others' = [f \in Front |->
           IF f \in {"python", "node"} /\ Raises(args) THEN None
           ELSE verify(Read, target, BindingStore(f))]
      /\ UNCHANGED <<pool, target, args, dir, cachefile, revokedAt, now, pc, data, unread,
                     chain, lists, store, answer, mode, report, exit, steady>>
  BY DEF CallBindings, given, world, command
<1>2. T' = T /\ Data' = Data /\ Read' = Read
  BY <1>1 DEF T, Data, Read
<1>3. PlaceInv'
  <2>1. ReportOf(answer, mode)' = ReportOf(answer, mode)
    BY <1>1, <1>2
    DEF ReportOf, Sections, ExplainSections, SchemesLabelled, WarningSections, JsonOutput
  <2>2. Usable' <=> Usable
    BY <1>1, <1>2 DEF Usable
  <2> QED BY <1>1, <1>2, <2>1, <2>2 DEF Inv, PlaceInv
<1>4. OthersInv'
  <2>1. \A f : BindingStore(f)' = BindingStore(f)
    BY <1>1 DEF BindingStore
  <2> QED BY <1>1, <1>2, <2>1 DEF OthersInv
<1>5. GivenTyped' /\ SteadyInv' /\ CacheInv'
  BY <1>1 DEF Inv, GivenTyped, SteadyInv, CacheInv, Sound
<1> QED BY <1>3, <1>4, <1>5 DEF Inv

----------------------------------------------------------------------------
(* The steps of other programs *)

LEMMA ChangeFileKeeps ==
  ASSUME Inv, NEW h \in Stmts, ChangeFile(h)
  PROVE  Inv'
<1>1. /\ UNCHANGED <<given, command, others>>
      /\ pc # "done" /\ steady' = steady \ {h}
      /\ UNCHANGED <<cachefile, revokedAt, now, lists, pc, unread, chain, answer>>
  BY DEF ChangeFile, Env, command
<1>2. PICK c \in Contents : dir' = [dir EXCEPT ![h] = c]
  BY DEF ChangeFile
<1>3. SteadyInv'
  BY <1>1, <1>2 DEF Inv, SteadyInv
<1>4. CacheInv'
  BY <1>1 DEF Inv, CacheInv, Sound
<1> QED BY <1>1, <1>3, <1>4, CommandKept DEF Inv

LEMMA LogRevocationKeeps ==
  ASSUME Inv, NEW h \in Stmts, LogRevocation(h)
  PROVE  Inv'
<1>1. /\ UNCHANGED <<given, command, others>>
      /\ revokedAt' = [revokedAt EXCEPT ![h] = now]
      /\ UNCHANGED <<dir, cachefile, now, steady, lists, pc, unread, chain, answer>>
  BY DEF LogRevocation, Env, command
<1>2. SteadyInv'
  BY <1>1 DEF Inv, SteadyInv
<1>3. /\ now \in Nat /\ revokedAt \in [Stmts -> Opt(Nat)] /\ now' = now
      /\ \A g \in Stmts : revokedAt'[g] = IF g = h THEN now ELSE revokedAt[g]
  BY <1>1 DEF Inv, CacheInv
<1>4. ASSUME NEW l \in RevocationLists, Sound(l)
      PROVE  /\ l.checkpoint \in Nat => l.checkpoint <= now'
             /\ \A e \in l.not_revoked :
                  /\ ~e.spaced /\ l.checkpoint \in Nat
                  /\ revokedAt'[e.hash] # None => revokedAt'[e.hash] >= l.checkpoint
  <2>1. \A e \in l.not_revoked : e.hash \in Stmts
    BY DEF RevocationLists, Listed
  <2> QED BY <1>3, <1>4, <2>1 DEF Sound
<1>5. revokedAt' \in [Stmts -> Opt(Nat)]
  BY <1>1, <1>3 DEF Opt
<1>6. CacheInv'
  BY <1>1, <1>3, <1>4, <1>5 DEF Inv, CacheInv, Sound
<1> QED BY <1>1, <1>2, <1>6, CommandKept DEF Inv

LEMMA TickKeeps == ASSUME Inv, Tick PROVE Inv'
<1>1. /\ UNCHANGED <<given, command, others>> /\ now' = now + 1
      /\ UNCHANGED <<dir, cachefile, revokedAt, steady, lists, pc, unread, chain, answer>>
  BY DEF Tick, Env, command
<1>2. SteadyInv'
  BY <1>1 DEF Inv, SteadyInv
<1>3. ASSUME NEW h \in Stmts, revokedAt[h] # None PROVE revokedAt[h] <= now'
  <2>1. revokedAt[h] \in Nat /\ revokedAt[h] <= now /\ now \in Nat
    BY <1>3 DEF Inv, CacheInv, Opt
  <2> QED BY <1>1, <2>1
<1>4. ASSUME NEW l, Sound(l), l.checkpoint \in Nat PROVE l.checkpoint <= now'
  BY <1>1, <1>4 DEF Sound, Inv, CacheInv
<1>5. CacheInv'
  BY <1>1, <1>3, <1>4 DEF Inv, CacheInv, Sound
<1> QED BY <1>1, <1>2, <1>5, CommandKept DEF Inv

LEMMA RewriteCacheKeeps == ASSUME Inv, RewriteCache PROVE Inv'
<1>1. /\ UNCHANGED <<given, command, others>>
      /\ UNCHANGED <<dir, revokedAt, now, steady, lists, pc, unread, chain, answer>>
  BY DEF RewriteCache, Env, command
<1>2. SteadyInv'
  BY <1>1 DEF Inv, SteadyInv
<1>3. /\ cachefile' \in {None, Torn} \cup RevocationLists
      /\ cachefile' \notin {None, Torn} => Sound(cachefile)'
  <2>1. CASE cachefile' = Torn
    BY <2>1
  <2>2. CASE cachefile' # Torn
    <3> DEFINE gone == {h \in Stmts : revokedAt[h] # None}
               listed(H, spaced) == {[hash |-> h, spaced |-> spaced] : h \in H}
    <3>1. PICK spaced \in BOOLEAN, rest \in {{}, Stmts \ gone} :
            cachefile' = [checkpoint |-> now, revoked |-> listed(gone, spaced),
                          not_revoked |-> listed(rest, FALSE)]
      BY <2>2 DEF RewriteCache
    <3>2. listed(gone, spaced) \in SUBSET Listed /\ listed(rest, FALSE) \in SUBSET Listed
      <4>1. \A H \in SUBSET Stmts, b \in BOOLEAN : listed(H, b) \in SUBSET Listed
        BY DEF Listed
      <4>2. gone \subseteq Stmts /\ rest \subseteq Stmts /\ FALSE \in BOOLEAN
        OBVIOUS
      <4> HIDE DEF listed, gone
      <4> QED BY <4>1, <4>2
    <3>3. \A e \in listed(rest, FALSE) : ~e.spaced /\ revokedAt[e.hash] = None
      OBVIOUS
    <3> HIDE DEF listed, gone
    <3>4. now \in Nat
      BY DEF Inv, CacheInv
    <3>5. cachefile' \in RevocationLists
      BY <3>1, <3>2, <3>4 DEF RevocationLists, Opt
    <3>6. Sound(cachefile)'
      <4>1. cachefile'.checkpoint = now /\ cachefile'.not_revoked = listed(rest, FALSE)
        BY <3>1
      <4>2. now <= now
        BY <3>4
      <4> QED BY <1>1, <3>3, <3>4, <4>1, <4>2 DEF Sound
    <3> QED BY <3>5, <3>6
  <2> QED BY <2>1, <2>2
<1>4. CacheInv'
  BY <1>1, <1>3 DEF Inv, CacheInv, Sound
<1> QED BY <1>1, <1>2, <1>4, CommandKept DEF Inv

LEMMA InvInductive == Inv /\ [Next]_vars => Inv'
<1> SUFFICES ASSUME Inv, [Next]_vars PROVE Inv'
  OBVIOUS
<1>1. CASE Command
  BY <1>1, ReadStatementKeeps, ReadCacheKeeps, JudgeKeeps, ReadChainFileKeeps DEF Command
<1>2. CASE CallBindings
  BY <1>2, CallBindingsKeeps
<1>3. CASE Environment
  BY <1>3, ChangeFileKeeps, LogRevocationKeeps, TickKeeps, RewriteCacheKeeps DEF Environment
<1>4. CASE UNCHANGED vars
  <2>1. UNCHANGED <<given, command, others, world, steady>>
    BY <1>4 DEF vars
  <2>2. SteadyInv' /\ CacheInv'
    BY <2>1 DEF world, command, Inv, SteadyInv, CacheInv, Sound
  <2> QED BY <2>1, <2>2, CommandKept DEF Inv
<1> QED BY <1>1, <1>2, <1>3, <1>4 DEF Next

LEMMA InvAlways == Spec => []Inv
BY InvInit, InvInductive, PTL DEF Spec

----------------------------------------------------------------------------
(* The theorems *)

LEMMA StoreTyped ==
  ASSUME GivenTyped, Usable, NEW c \in SUBSET Stmts, NEW l \in RevocationLists
  PROVE  CliTrustStore(args, Data, c, l) \in Store
<1>1. Data \in Statement /\ args \in Args
  BY ReadTyped, GivenMeans
<1>2. EdKey(args, Data) \in Keys /\ args.mldsa # BadLength
  BY <1>1 DEF Usable, Unusable, EdKey, KeyFromKid, KeyOrNone, Statement, Args, Opt
<1>3. args.mldsa \in Opt(Keys)
  BY <1>1, <1>2 DEF Args, Opt
<1>4. (IF args.mldsa = None THEN None ELSE CompositeOf[<<EdKey(args, Data), args.mldsa>>])
        \in Opt(Keys)
  BY <1>2, <1>3, TrustStoresAssumption DEF Opt
<1>5. LogOrNone(args.log) \in SUBSET Nat
  BY DEF LogOrNone
<1>6. [checkpoint |-> l.checkpoint, revoked |-> Plain(l.revoked),
       not_revoked |-> Plain(l.not_revoked)] \in Cache
  BY DEF RevocationLists, Listed, Plain, Cache
<1> QED BY <1>2, <1>3, <1>4, <1>5, <1>6 DEF CliTrustStore, Store, Opt

(* Statements the command or a binding accepts were whole when read.        *)
LEMMA AcceptedIsWhole ==
  ASSUME GivenTyped, Usable, NEW s, verify(Read, target, s).err = None
  PROVE  Read = pool /\ Data = T /\ data = "whole" /\ T.form = "ok"
<1>1. ParseError(Data) = None
  BY ChecksPassed, ReadTyped
<1>2. data # "part"
  BY <1>1, Parsed, ReadTyped
<1>3. Data.form = "ok"
  BY <1>1, Parsed, ReadTyped DEF Statement, Form
<1> QED BY <1>2, <1>3, ReadTyped DEF Usable

(* FrontEnds.WholeTargetsChecked: a REVOKES or RECOVERS whose target lay    *)
(* whole in the chain directory all along is accepted only with authority   *)
(* over it, whatever happens to the files beside it.                        *)
THEOREM NoHiddenTarget == Spec => []WholeTargetsChecked
<1>1. Inv => WholeTargetsChecked
  <2> SUFFICES ASSUME Inv, answer # None, answer.err = None, T.object \in steady
               PROVE  LET about == pool[T.object]
                      IN /\ T.predicate = "revokes" =>
                              about.form # "malformed" /\ T.kid = about.kid
                         /\ T.predicate = "recovers" /\ PolicyOf(about) # None =>
                              /\ PolicyOf(about).ok
                              /\ KidHash[T.kid] \in PolicyOf(about).guardians
    BY DEF WholeTargetsChecked, Accepted
  <2>1. /\ answer = verify(Read, target, store) /\ GivenTyped /\ Usable
        /\ store = CliTrustStore(args, Data, chain, lists)
    BY DEF Inv, PlaceInv
  <2>2. Read = pool
    BY <2>1, AcceptedIsWhole
  <2>3. store.chain = chain
    BY <2>1 DEF CliTrustStore
  <2>4. T.object \in store.chain /\ T.object # None
    BY <2>3 DEF Inv, SteadyInv, PlaceInv
  <2>5. pool[target] = T
    BY DEF T
  <2>6. /\ T.predicate = "revokes" => RevokesError(T, pool[T.object]) = None
        /\ T.predicate = "recovers" => RecoversError(T, PolicyOf(pool[T.object])) = None
    BY <2>1, <2>2, <2>4, <2>5, ChecksPassed
  <2> QED BY <2>6, AuthorityChecked
<1> QED BY <1>1, InvAlways, PTL

(* Every store is built over the same cache, except for what it drops.      *)
LEMMA CachesNarrow ==
  ASSUME NEW s, NEW c, NEW l,
         \/ s = CliTrustStore(args, Data, c, l) \/ \E f \in Front : s = BindingStore(f) /\ l = lists
  PROVE  /\ s.cache.checkpoint # None => s.cache.checkpoint = l.checkpoint
         /\ s.cache.not_revoked \subseteq {e.hash : e \in l.not_revoked}
BY DEF CliTrustStore, BindingStore, FfiTrustStore, GoTrustStore, PyTrustStore, NapiTrustStore,
       Front, Plain, Trimmed

(* FrontEnds.UnrevokedAtAnchor: whoever is told without reserve that an     *)
(* anchored statement stands is right for the time of its tree head.        *)
THEOREM StandingIsTrue == Spec => []UnrevokedAtAnchor
<1>1. ASSUME Inv, NEW s, NEW a, a = verify(Read, target, s),
             s = CliTrustStore(args, Data, chain, lists) \/ \E f \in Front : s = BindingStore(f),
             Usable, a.err = None, T.anchor # None, revokedAt[target] # None,
             "RevocationStatusUnknown" \notin a.warnings
      PROVE  revokedAt[target] >= T.anchor.ts
  <2>1. Read = pool /\ pool[target] = T
    BY <1>1, AcceptedIsWhole DEF Inv, T
  <2>2. /\ s.cache.checkpoint # None /\ ~(T.anchor.ts > s.cache.checkpoint)
        /\ target \in s.cache.not_revoked
    BY <1>1, <2>1, ListedAsStanding
  <2>3. /\ s.cache.checkpoint = lists.checkpoint
        /\ s.cache.not_revoked \subseteq {e.hash : e \in lists.not_revoked}
    BY <1>1, <2>2, CachesNarrow
  <2>4. lists.checkpoint \in Nat /\ revokedAt[target] >= lists.checkpoint
    BY <1>1, <2>2, <2>3 DEF Inv, CacheInv, Sound
  <2>5. revokedAt[target] \in Nat
    BY <1>1, GivenMeans DEF Inv, CacheInv, Opt
  <2>6. T.anchor.ts \in Nat
    BY <1>1, ReadTyped DEF Inv, Statement, Anchor, Opt, Time
  <2> QED BY <2>2, <2>3, <2>4, <2>5, <2>6
<1>2. Inv => UnrevokedAtAnchor
  <2> SUFFICES ASSUME Inv, NEW a \in Answers \ {None}, a.err = None, T.anchor # None,
                      revokedAt[target] # None, "RevocationStatusUnknown" \notin a.warnings
               PROVE  revokedAt[target] >= T.anchor.ts
    BY DEF UnrevokedAtAnchor
  <2>1. answer # None
    BY DEF Answers, Inv, OthersInv
  <2>2. Usable /\ store = CliTrustStore(args, Data, chain, lists)
        /\ answer = verify(Read, target, store)
    BY <2>1 DEF Inv, PlaceInv
  <2>3. \E s : /\ a = verify(Read, target, s)
               /\ s = CliTrustStore(args, Data, chain, lists) \/ \E f \in Front : s = BindingStore(f)
    BY <2>2 DEF Answers, Inv, OthersInv
  <2> QED BY <1>1, <2>2, <2>3
<1> QED BY <1>2, InvAlways, PTL

(* FrontEnds.FrontEndsAgree: given the same contents, and arguments that    *)
(* all can express, the command and the four bindings answer alike.         *)
THEOREM OneVerdict == Spec => []FrontEndsAgree
<1>1. Inv => FrontEndsAgree
  <2> SUFFICES ASSUME Inv, args.pubkey \in Keys, args.mldsa = None, lists.checkpoint # 0,
                      \A e \in lists.revoked : ~e.spaced,
                      NEW f \in Front, others[f] # None
               PROVE  others[f] = answer
    BY DEF FrontEndsAgree
  <2>1. answer # None /\ others[f] = verify(Read, target, BindingStore(f))
    BY DEF Inv, OthersInv
  <2>2. /\ answer = verify(Read, target, store)
        /\ store = CliTrustStore(args, Data, chain, lists)
    BY <2>1 DEF Inv, PlaceInv
  <2>3. \A e \in lists.not_revoked : ~e.spaced
    BY DEF Inv, CacheInv, Sound
  <2>4. /\ Plain(lists.revoked) = Trimmed(lists.revoked)
        /\ Plain(lists.not_revoked) = Trimmed(lists.not_revoked)
    BY <2>3 DEF Plain, Trimmed
  <2>5. EdKey(args, Data) = args.pubkey /\ KeyOrNone(args.pubkey) = args.pubkey
    BY DEF EdKey, KeyOrNone
  <2>6. BindingStore(f) = store
    BY <2>2, <2>4, <2>5
    DEF BindingStore, CliTrustStore, FfiTrustStore, GoTrustStore, PyTrustStore, NapiTrustStore,
        Front
  <2> QED BY <2>1, <2>2, <2>6
<1> QED BY <1>1, InvAlways, PTL

(* Every step marked as passed is a fact, or is one of the overclaims that  *)
(* OverclaimsQualified names.                                              *)
LEMMA PassedSteps ==
  ASSUME Inv, report # None, report.verdict \in {"verified", "partial"}
  PROVE  /\ answer.warnings # {} => report.verdict = "partial" /\ report.warnings = answer.warnings
         /\ T.anchor = None => "TemporalEvidenceMissing" \in answer.warnings
         /\ T.anchor # None => AnchorFact
         /\ SignatureFact /\ T.form = "ok" /\ data = "whole" /\ LineageFact
         /\ "bound" \in report.claims => T.anchor_hash = "match" /\ T.anchor # None
         /\ "temporal" \in report.claims => T.anchor # None
         /\ "notrevoked" \in report.claims /\ T.anchor # None =>
              \E e \in lists.not_revoked : e.hash = target
         /\ args.mldsa = None => report.schemes = T.alg
         /\ report.claims \subseteq {"signature", "canonical", "protocol", "lineage", "bound",
                                     "scheme", "temporal", "notrevoked"}
         /\ report.verdict = "verified" => answer.warnings = {}
<1>1. /\ answer = verify(Read, target, store) /\ report = ReportOf(answer, mode)
      /\ store = CliTrustStore(args, Data, chain, lists) /\ GivenTyped /\ Usable
  BY DEF Inv, PlaceInv
<1>2. mode \notin {"quiet", "json"} /\ answer.err = None
  BY <1>1 DEF ReportOf, JsonOutput
<1>3. /\ report.verdict = IF answer.warnings = {} THEN "verified" ELSE "partial"
      /\ report.warnings = answer.warnings /\ report.schemes = SchemesLabelled
      /\ report.claims = Sections \cup IF mode = "explain" THEN ExplainSections(answer) ELSE {}
  BY <1>1, <1>2 DEF ReportOf, WarningSections
<1>4. Read = pool /\ pool[target] = T /\ data = "whole" /\ T.form = "ok"
  BY <1>1, <1>2, AcceptedIsWhole DEF T
<1>5. T.anchor = None => "TemporalEvidenceMissing" \in answer.warnings
  <2>1. answer.warnings = WarningsOf(pool, target, store)
    BY <1>1, <1>2, <1>4, VerifyAccepts
  <2> QED BY <1>4, <2>1 DEF WarningsOf
<1>6. /\ AnchorError(T, store.logs) = None /\ LineageFact
      /\ resolve(store, T.alg) # None /\ T.signer = resolve(store, T.alg)
  BY <1>1, <1>2, <1>4, ChecksPassed DEF LineageFact
<1>7. T.anchor # None => AnchorFact
  <2>1. store.logs = LogOrNone(args.log)
    BY <1>1 DEF CliTrustStore
  <2> QED BY <1>6, <2>1, AnchorChecked DEF LogOrNone, AnchorFact
<1>8. "bound" \in report.claims => T.anchor_hash = "match" /\ T.anchor # None
  <2>1. "bound" \in report.claims => T.anchor_hash # "none"
    BY <1>3 DEF Sections, ExplainSections
  <2>2. T.anchor_hash \in {"none", "match", "mismatch"}
    BY <1>1, ReadTyped DEF Statement
  <2> QED BY <1>6, <2>1, <2>2, AnchorChecked
<1>9. "temporal" \in report.claims => T.anchor # None
  BY <1>3, <1>5 DEF Sections, ExplainSections
<1>10. "notrevoked" \in report.claims /\ T.anchor # None =>
         \E e \in lists.not_revoked : e.hash = target
  <2> SUFFICES ASSUME "notrevoked" \in report.claims, T.anchor # None
               PROVE  \E e \in lists.not_revoked : e.hash = target
    OBVIOUS
  <2>1. "RevocationStatusUnknown" \notin answer.warnings
    BY <1>3 DEF Sections, ExplainSections
  <2>2. target \in store.cache.not_revoked
    BY <1>1, <1>2, <1>4, <2>1, ListedAsStanding
  <2>3. store.cache.not_revoked \subseteq {e.hash : e \in lists.not_revoked}
    BY <1>1, CachesNarrow
  <2> QED BY <2>2, <2>3
<1>11. args.mldsa = None => report.schemes = T.alg
  <2> SUFFICES ASSUME args.mldsa = None PROVE T.alg = "ed25519"
    BY <1>3 DEF SchemesLabelled
  <2>1. store.composite = None /\ store.mldsa = None
    BY <1>1 DEF CliTrustStore
  <2>2. T.alg \in Algorithm
    BY <1>1, ReadTyped DEF Statement
  <2> QED BY <1>6, <2>1, <2>2 DEF resolve, Algorithm
<1>12. report.claims \subseteq {"signature", "canonical", "protocol", "lineage", "bound",
                               "scheme", "temporal", "notrevoked"}
  BY <1>3 DEF Sections, ExplainSections
<1>13. SignatureFact
  BY <1>6 DEF SignatureFact
<1>14. answer.warnings # {} => report.verdict = "partial" /\ report.warnings = answer.warnings
  BY <1>3
<1>15. report.verdict = "verified" => answer.warnings = {}
  BY <1>3
<1> QED BY <1>4, <1>5, <1>6, <1>7, <1>8, <1>9, <1>10, <1>11, <1>12, <1>13, <1>14, <1>15

(* FrontEnds.OverclaimsQualified: what the report marks as passed is a      *)
(* fact, but for the CT anchor and the revocation of a statement without    *)
(* anchor, which the same report warns about, and the scheme it names when  *)
(* --mldsa-pubkey is given.                                                 *)
THEOREM ReportIsQualified == Spec => []OverclaimsQualified
<1>1. Inv => OverclaimsQualified
  <2> SUFFICES ASSUME Inv, report # None, report.verdict \in {"verified", "partial"}
               PROVE  /\ \A c \in report.claims :
                           \/ Fact(c)
                           \/ /\ c \in {"protocol", "notrevoked"} /\ T.anchor = None
                              /\ report.verdict = "partial"
                              /\ "TemporalEvidenceMissing" \in report.warnings
                           \/ c = "scheme" /\ args.mldsa # None
                      /\ report.verdict = "verified" => AnchorFact /\ answer.warnings = {}
    BY DEF OverclaimsQualified
  <2>1. report.verdict = "verified" => AnchorFact /\ answer.warnings = {}
    BY PassedSteps
  <2>2. T.anchor = None => report.verdict = "partial"
                           /\ "TemporalEvidenceMissing" \in report.warnings
    BY PassedSteps
  <2>3. ASSUME NEW c \in report.claims, T.anchor # None \/ c \notin {"protocol", "notrevoked"},
               c = "scheme" => args.mldsa = None
        PROVE  Fact(c)
    <3>1. CASE c = "signature"
      BY <3>1, PassedSteps DEF Fact
    <3>2. CASE c = "canonical"
      BY <3>2, PassedSteps DEF Fact
    <3>3. CASE c = "protocol"
      BY <2>3, <3>3, PassedSteps DEF Fact
    <3>4. CASE c = "lineage"
      BY <3>4, PassedSteps DEF Fact
    <3>5. CASE c = "bound"
      BY <3>5, PassedSteps DEF Fact
    <3>6. CASE c = "scheme"
      BY <2>3, <3>6, PassedSteps DEF Fact
    <3>7. CASE c = "temporal"
      BY <3>7, PassedSteps DEF Fact
    <3>8. CASE c = "notrevoked"
      BY <2>3, <3>8, PassedSteps DEF Fact
    <3> QED BY <3>1, <3>2, <3>3, <3>4, <3>5, <3>6, <3>7, <3>8, PassedSteps
  <2> QED BY <2>1, <2>2, <2>3
<1> QED BY <1>1, InvAlways, PTL

(* The rest of the types.                                                   *)
RestTyped ==
  /\ mode \in Opt(Mode) /\ now \in 0..MaxTime /\ exit \in Opt({0, 1})
  /\ data \in Opt(Contents)
  /\ store \in Opt(Store) /\ answer \in Opt(Answer)
  /\ others \in [Front -> Opt(Answer)]

LEMMA StoreChains == \A f \in Front : BindingStore(f).chain = chain
BY DEF BindingStore, FfiTrustStore, GoTrustStore, PyTrustStore, NapiTrustStore, Front

LEMMA RestInductive == Inv /\ RestTyped /\ [Next]_vars => RestTyped'
<1> SUFFICES ASSUME Inv, RestTyped, [Next]_vars PROVE RestTyped'
  OBVIOUS
<1> USE DEF RestTyped
<1>1. CASE ReadStatement
  BY <1>1, GivenMeans
  DEF ReadStatement, Step, Bail, given, world, Opt, Inv, SteadyInv
<1>2. CASE \E h \in Stmts : ReadChainFile(h)
  BY <1>2 DEF ReadChainFile, Step, given, world
<1>3. CASE ReadCache
  <2>1. /\ store' = CliTrustStore(args, Data, chain, lists')
        /\ UNCHANGED <<mode, now, exit, data, answer, others>>
    BY <1>3 DEF ReadCache, Step, given, world
  <2>2. lists' \in RevocationLists
    BY <1>3, ReadCacheKeeps DEF Inv, CacheInv
  <2>3. GivenTyped /\ Usable /\ chain \in SUBSET Stmts
    BY <1>3 DEF ReadCache, Step, Inv, PlaceInv
  <2> QED BY <2>1, <2>2, <2>3, StoreTyped DEF Opt
<1>4. CASE Judge
  <2>1. /\ answer' = verify(Read, target, store) /\ exit' = 0 /\ mode' \in Mode
        /\ UNCHANGED <<now, data, store, others>>
    BY <1>4 DEF Judge, Step, given, world
  <2>2. store.chain \subseteq Stmts
    <3>1. store = CliTrustStore(args, Data, chain, lists) /\ chain \subseteq Stmts
      BY <1>4 DEF Judge, Step, Inv, PlaceInv
    <3>2. CliTrustStore(args, Data, chain, lists).chain = chain
      BY DEF CliTrustStore
    <3> QED BY <3>1, <3>2
  <2>3. answer' \in Answer
    BY <2>1, <2>2, VerifyTyped, ReadTyped, GivenMeans DEF Inv
  <2> QED BY <2>1, <2>3 DEF Opt
<1>5. CASE CallBindings
  <2>1. /\ others' = [f \in Front |-> IF f \in {"python", "node"} /\ Raises(args) THEN None
                                      ELSE verify(Read, target, BindingStore(f))]
        /\ UNCHANGED <<mode, now, exit, data, store, answer>>
    BY <1>5 DEF CallBindings, given, world, command
  <2>2. \A f \in Front : verify(Read, target, BindingStore(f)) \in Answer
    BY StoreChains, VerifyTyped, ReadTyped, GivenMeans DEF Inv, PlaceInv
  <2> QED BY <2>1, <2>2 DEF Opt
<1>6. CASE \E h \in Stmts : ChangeFile(h) \/ LogRevocation(h)
  BY <1>6 DEF ChangeFile, LogRevocation, Env, command
<1>7. CASE Tick
  BY <1>7, FrontEndsAssumption DEF Tick, Env, command
<1>8. CASE RewriteCache
  BY <1>8 DEF RewriteCache, Env, command
<1>9. CASE UNCHANGED vars
  BY <1>9 DEF vars, world, command
<1> QED
  BY <1>1, <1>2, <1>3, <1>4, <1>5, <1>6, <1>7, <1>8, <1>9 DEF Next, Command, Environment

(* FrontEnds.TypeOK: every variable keeps its type, and a report needs an   *)
(* answer.                                                                  *)
THEOREM FrontEndsTypeCorrect == Spec => []TypeOK
<1>1. Init => RestTyped
  BY FrontEndsAssumption DEF Init, RestTyped, Opt
<1>2. Spec => []RestTyped
  BY <1>1, RestInductive, InvAlways, PTL DEF Spec
<1>3. Inv /\ RestTyped => TypeOK
  BY DEF Inv, GivenTyped, PlaceInv, SteadyInv, CacheInv, RestTyped, TypeOK
<1> QED BY <1>2, <1>3, InvAlways, PTL

=============================================================================
