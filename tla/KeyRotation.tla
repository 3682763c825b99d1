---------------------------- MODULE KeyRotation ----------------------------
(* resolve_rotated_key_default, the resolver of rotated signing keys, and  *)
(* the part of verify_statement_with_warnings that uses it: from the kid   *)
(* of an Ed25519 statement to the check of its signature. The store is     *)
(* asked once per step and may change in between.                          *)
EXTENDS Naturals, Sequences, FiniteSets

CONSTANTS
  Keys,              \* Ed25519 keys, named by their kid
  None,
  Rotations,         \* what fetch_statement(BLAKE3(k)) may answer for each k
  Kids,              \* kids of the statements to verify
  Signers,           \* keys that may have made the statement's signature
  MaxRotationDepth,  \* MAX_ROTATION_DEPTH
  VolatileKeys,      \* bound: keys the store may learn or forget
  RevocableKeys      \* bound: keys that may be revoked

(* A rotation statement: the predicate and subject it carries (the subject *)
(* is the BLAKE3 of the key named here), the predecessor named by its      *)
(* object, and the key that signed it.                                     *)
Rotation == [supersedes : BOOLEAN, subject : Keys, object : Keys \cup {None},
             signer : Keys]

ASSUME KeyRotationAssumption ==
  /\ None \notin Keys /\ MaxRotationDepth \in Nat
  /\ Kids \subseteq Keys /\ Signers \subseteq Keys
  /\ VolatileKeys \subseteq Keys /\ RevocableKeys \subseteq Keys
  /\ \A r \in Rotations : r \in [Keys -> Rotation \cup {None}]

VARIABLES
  rotation,  \* the rotation statement found under BLAKE3(k), for each key
  known,     \* keys resolve_key answers for
  revoked,   \* keys is_key_revoked answers Some(true) for
  kid,       \* kid of the statement being verified
  signer,    \* the key that made its signature
  pc,        \* the next store call
  trail,     \* current_kid of every iteration, the running one last
  prev,      \* the predecessor named by the rotation statement at hand
  resolved,  \* the key the resolver returned, None before and on failure
  verdict,   \* "pending", "accepted" or "rejected"
  atStart,   \* ghost: keys revoked when the call began
  trusted    \* ghost: keys the store resolved during the call

store == <<known, revoked>>
call  == <<pc, trail, prev, resolved, verdict>>
fixed == <<rotation, kid, signer>>
ghost == <<atStart, trusted>>
vars  == <<store, call, fixed, ghost>>

current == trail[Len(trail)]

Init ==
  /\ rotation \in Rotations /\ kid \in Kids /\ signer \in Signers
  /\ known \in SUBSET Keys /\ revoked = {}
  /\ pc = "idle" /\ trail = <<>> /\ prev = None /\ resolved = None
  /\ verdict = "pending" /\ atStart = {} /\ trusted = {}

Start ==
  /\ pc = "idle" /\ pc' = "resolve" /\ trail' = <<kid>> /\ atStart' = revoked
  /\ UNCHANGED <<store, fixed, prev, resolved, verdict, trusted>>

Reject ==
  /\ pc' = "done" /\ verdict' = "rejected"
  /\ UNCHANGED <<trail, prev, resolved>>
Continue(label) == pc' = label /\ UNCHANGED <<trail, prev, resolved, verdict>>

Step(label) == pc = label /\ UNCHANGED <<store, fixed, atStart>>

WaitsForKey ==
  /\ Step("resolve") /\ current \in known
  /\ Continue("terminal") /\ trusted' = trusted \cup {current}

(* if let Some(pk) = store.resolve_key(&current_kid)                       *)
ResolveCurrent ==
  /\ Step("resolve")
  /\ Continue(IF current \in known THEN "terminal" ELSE "fetch")
  /\ trusted' = IF current \in known THEN trusted \cup {current} ELSE trusted

(* Terminal key found: rejected if revoked, else returned.                 *)
TerminalStatus ==
  /\ Step("terminal") /\ UNCHANGED trusted
  /\ IF current \in revoked THEN Reject
     ELSE /\ pc' = "status" /\ resolved' = current
          /\ UNCHANGED <<trail, prev, verdict>>

Visited == {trail[i] : i \in 1..Len(trail)}

(* The statement found under BLAKE3(current_kid) must be a SUPERSEDES      *)
(* about current_kid and name a predecessor not seen before.               *)
ObjectOptional(r) == r # None /\ r.supersedes /\ r.subject = current /\ r.object \notin Visited
VisitedIgnored(r) == r # None /\ r.supersedes /\ r.subject = current /\ r.object # None
Usable(r) ==
  r # None /\ r.supersedes /\ r.subject = current /\ r.object \notin Visited \cup {None}

FetchRotation ==
  /\ Step("fetch") /\ UNCHANGED trusted
  /\ IF Usable(rotation[current])
     THEN /\ pc' = "prevstatus" /\ prev' = rotation[current].object
          /\ UNCHANGED <<trail, resolved, verdict>>
     ELSE Reject

PredecessorStatus ==
  /\ Step("prevstatus") /\ UNCHANGED trusted
  /\ IF prev \in revoked THEN Reject ELSE Continue("prevkey")

(* let prev_pk = store.resolve_key(&prev_kid)?; the rotation statement is  *)
(* checked against it, and the loop goes on while iterations remain.       *)
RotationUnsigned(r, k) == TRUE
RotationSigned(r, k) == r.signer = k

PredecessorKey ==
  /\ Step("prevkey")
  /\ trusted' = IF prev \in known THEN trusted \cup {prev} ELSE trusted
  /\ IF /\ prev \in known /\ RotationSigned(rotation[current], prev)
        /\ Len(trail) < MaxRotationDepth
     THEN /\ pc' = "resolve" /\ trail' = Append(trail, prev) /\ prev' = None
          /\ UNCHANGED <<resolved, verdict>>
     ELSE Reject

(* The verifier's own check of the kid, then of the signature against the  *)
(* key the resolver returned.                                              *)
KidStatusSkipped == Step("status") /\ UNCHANGED trusted /\ Continue("signature")
KidStatus ==
  /\ Step("status") /\ UNCHANGED trusted
  /\ IF kid \in revoked THEN Reject ELSE Continue("signature")

Signature ==
  /\ Step("signature") /\ UNCHANGED trusted
  /\ IF signer = resolved
     THEN /\ pc' = "done" /\ verdict' = "accepted"
          /\ UNCHANGED <<trail, prev, resolved>>
     ELSE Reject

Call ==
  \/ Start \/ ResolveCurrent \/ TerminalStatus \/ FetchRotation
  \/ PredecessorStatus \/ PredecessorKey \/ KidStatus \/ Signature

Env == pc # "done" /\ UNCHANGED <<call, fixed, ghost>>

(* The store learns or forgets a key, or learns that one is revoked.       *)
KeyTableChanges(k) ==
  /\ Env /\ k \in VolatileKeys /\ UNCHANGED revoked
  /\ known' = IF k \in known THEN known \ {k} ELSE known \cup {k}
KeyRevoked(k) ==
  /\ Env /\ k \in RevocableKeys \ revoked
  /\ revoked' = revoked \cup {k} /\ UNCHANGED known

Environment == \E k \in Keys : KeyTableChanges(k) \/ KeyRevoked(k)

Next == Call \/ Environment

(* The call runs on the caller's thread; the store is not scheduled.       *)
Spec == Init /\ [][Next]_vars /\ WF_vars(Call)

----------------------------------------------------------------------------
(* Properties *)

(* Every variable keeps its type; the loop always has a current kid, and a *)
(* predecessor between finding one and adopting it.                        *)
TypeOK ==
  /\ rotation \in Rotations /\ kid \in Keys /\ signer \in Keys
  /\ known \subseteq Keys /\ revoked \subseteq Keys
  /\ pc \in {"idle", "resolve", "terminal", "fetch", "prevstatus", "prevkey",
             "status", "signature", "done"}
  /\ trail \in Seq(Keys) /\ prev \in Keys \cup {None}
  /\ resolved \in Keys \cup {None}
  /\ verdict \in {"pending", "accepted", "rejected"}
  /\ atStart \subseteq Keys /\ trusted \subseteq Keys
  /\ pc \notin {"idle", "done"} => trail # <<>>
  /\ pc \in {"prevstatus", "prevkey"} => prev \in Keys

(* A resolved key was vouched for by the store itself, and the kid leads   *)
(* to it through rotation statements about each key, signed by the next,   *)
(* every one of which the store had resolved too.                          *)
ResolvedThroughRotations ==
  resolved # None =>
    /\ trail[1] = kid /\ trail[Len(trail)] = resolved /\ resolved \in trusted
    /\ \A i \in 1..Len(trail) - 1 :
         /\ rotation[trail[i]].supersedes /\ rotation[trail[i]].subject = trail[i]
         /\ rotation[trail[i]].object = trail[i + 1]
         /\ rotation[trail[i]].signer = trail[i + 1]
         /\ trail[i + 1] \in trusted

(* docs/key-rotation.md "if any key in the rotation chain has been revoked *)
(* verification fails": no key of the trail was revoked when the call      *)
(* began, whichever of the three checks had to see it.                     *)
NoRevokedKeyOnTrail ==
  verdict = "accepted" => \A i \in 1..Len(trail) : trail[i] \notin atStart

(* The visited set: a kid is never resolved twice, though the store may    *)
(* forget a key between two iterations and send the walk in a circle.      *)
NoKidTwice ==
  \A i, j \in 1..Len(trail) : trail[i] = trail[j] => i = j

(* The resolver always ends.                                               *)
Termination == pc # "idle" ~> pc = "done"

=============================================================================
