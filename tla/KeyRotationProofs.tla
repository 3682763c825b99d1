------------------------- MODULE KeyRotationProofs -------------------------
(* Proofs that the resolver of KeyRotation keeps its type and its safety   *)
(* properties for every set of rotation statements and every depth.        *)
EXTENDS KeyRotation, TLAPS

LEMMA RotationTyped ==
  ASSUME rotation \in Rotations, NEW k \in Keys
  PROVE  rotation[k] \in Rotation \cup {None}
BY KeyRotationAssumption

(* A predecessor taken from a usable statement is a key.                   *)
LEMMA UsableObject ==
  ASSUME TypeOK, trail # <<>>, Usable(rotation[current])
  PROVE  rotation[current].object \in Keys
<1>1. current \in Keys
  BY DEF TypeOK, current
<1>2. rotation[current] \in Rotation
  BY <1>1, RotationTyped DEF Usable, TypeOK
<1> QED BY <1>2 DEF Usable, Rotation

LEMMA EnvironmentLeavesCall ==
  ASSUME Environment
  PROVE  /\ UNCHANGED <<call, fixed, ghost>> /\ revoked \subseteq revoked'
         /\ pc # "done"
BY DEF Environment, Env, KeyTableChanges, KeyRevoked

LEMMA TypeInductive ==
  ASSUME TypeOK, [Next]_vars
  PROVE  TypeOK'
<1> USE DEF TypeOK
<1>1. CASE Start
  <2>1. kid \in Keys /\ <<kid>> \in Seq(Keys) /\ <<kid>> # <<>>
    OBVIOUS
  <2> QED BY <1>1, <2>1 DEF Start, store, fixed
<1>2. CASE ResolveCurrent
  BY <1>2 DEF ResolveCurrent, Step, Continue, store, fixed, current
<1>3. CASE TerminalStatus
  BY <1>3 DEF TerminalStatus, Step, Reject, store, fixed, current
<1>4. CASE FetchRotation
  BY <1>4, UsableObject DEF FetchRotation, Step, Reject, store, fixed
<1>5. CASE PredecessorStatus
  BY <1>5 DEF PredecessorStatus, Step, Reject, Continue, store, fixed
<1>6. CASE PredecessorKey
  <2>1. prev \in Keys
    BY <1>6 DEF PredecessorKey, Step
  <2>2. Append(trail, prev) \in Seq(Keys) /\ Append(trail, prev) # <<>>
    BY <2>1
  <2> QED BY <1>6, <2>1, <2>2 DEF PredecessorKey, Step, Reject, store, fixed
<1>7. CASE KidStatus
  BY <1>7 DEF KidStatus, Step, Reject, Continue, store, fixed
<1>8. CASE Signature
  BY <1>8 DEF Signature, Step, Reject, store, fixed
<1>9. CASE Environment
  <2>1. PICK k \in Keys : KeyTableChanges(k) \/ KeyRevoked(k)
    BY <1>9 DEF Environment
  <2> QED BY <2>1 DEF KeyTableChanges, KeyRevoked, Env, call, fixed, ghost
<1>10. CASE UNCHANGED vars
  BY <1>10 DEF vars, store, call, fixed, ghost
<1> QED BY <1>1, <1>2, <1>3, <1>4, <1>5, <1>6, <1>7, <1>8, <1>9, <1>10 DEF Next, Call

LEMMA TypeInit == Init => TypeOK
BY KeyRotationAssumption DEF Init, TypeOK

(* KeyRotation.TypeOK is an invariant of the resolver.                     *)
THEOREM RotationTypeCorrect == Spec => []TypeOK
<1>1. TypeOK /\ [Next]_vars => TypeOK'
  BY TypeInductive
<1> QED BY TypeInit, <1>1, PTL DEF Spec

----------------------------------------------------------------------------
(* Safety. The trail is built one verified rotation at a time; what each   *)
(* step of the loop has established by then is carried to the next.        *)

(* Edge i of the trail: a rotation statement about trail[i], signed by the *)
(* predecessor it names, which the store resolved.                         *)
EdgeOK(i) ==
  /\ rotation[trail[i]].supersedes /\ rotation[trail[i]].subject = trail[i]
  /\ rotation[trail[i]].object = trail[i + 1]
  /\ rotation[trail[i]].signer = trail[i + 1]
  /\ trail[i + 1] \in trusted

TrailInv ==
  /\ trail # <<>> => trail[1] = kid
  /\ \A i \in 1..Len(trail) - 1 : EdgeOK(i)
  /\ NoKidTwice
  /\ pc \in {"prevstatus", "prevkey"} =>
       Usable(rotation[current]) /\ prev = rotation[current].object

(* The key handed back ends the trail, which no longer grows.              *)
ResolvedInv ==
  /\ pc = "terminal" => current \in trusted
  /\ resolved # None =>
       /\ trail # <<>> /\ resolved = current /\ resolved \in trusted
       /\ pc \in {"status", "signature", "done"}

(* Every key of the trail but the first was seen not to be revoked before  *)
(* it was adopted; the first is looked at once the resolver has returned.  *)
StatusInv ==
  /\ atStart \subseteq revoked
  /\ \A i \in 2..Len(trail) : trail[i] \notin atStart
  /\ pc = "prevkey" => prev \notin atStart
  /\ pc = "signature" \/ verdict = "accepted" => kid \notin atStart
  /\ verdict = "accepted" => pc = "done"
  /\ pc = "idle" => trail = <<>>
  /\ pc = "signature" => trail # <<>>

RInv == TypeOK /\ TrailInv /\ ResolvedInv /\ StatusInv

LEMMA RInvInit == Init => RInv
BY TypeInit DEF Init, RInv, TrailInv, ResolvedInv, StatusInv, NoKidTwice

(* What adopting the predecessor does to the trail.                        *)
LEMMA AdoptKeepsTrail ==
  ASSUME RInv, PredecessorKey, pc' = "resolve"
  PROVE  /\ trail' = Append(trail, prev) /\ trail # <<>> /\ prev \in Keys
         /\ prev \in trusted' /\ RotationSigned(rotation[current], prev)
         /\ Usable(rotation[current]) /\ prev = rotation[current].object
         /\ UNCHANGED <<resolved, verdict, kid, rotation, atStart>>
BY DEF RInv, TypeOK, TrailInv, PredecessorKey, Step, Reject, fixed

LEMMA TrailInductive ==
  ASSUME RInv, [Next]_vars
  PROVE  TrailInv'
<1>0. trail \in Seq(Keys)
  BY DEF RInv, TypeOK
<1>1. CASE Start
  <2>1. trail' = <<kid>> /\ kid' = kid /\ pc' = "resolve"
    BY <1>1 DEF Start, fixed
  <2>2. Len(trail') = 1 /\ trail'[1] = kid'
    BY <2>1
  <2> QED BY <2>1, <2>2 DEF TrailInv, NoKidTwice
<1>2. CASE PredecessorKey /\ pc' = "resolve"
  <2> USE <1>0
  <2>1. /\ trail' = Append(trail, prev) /\ trail # <<>> /\ prev \in Keys
        /\ prev \in trusted' /\ RotationSigned(rotation[current], prev)
        /\ Usable(rotation[current]) /\ prev = rotation[current].object
        /\ UNCHANGED <<kid, rotation>>
    BY <1>2, AdoptKeepsTrail
  <2>2. /\ Len(trail) \in Nat \ {0} /\ Len(trail') = Len(trail) + 1
        /\ \A i \in 1..Len(trail) : trail'[i] = trail[i]
        /\ trail'[Len(trail) + 1] = prev
    BY <2>1
  <2>3. trail'[1] = kid'
    BY <2>1, <2>2 DEF RInv, TrailInv
  <2>4. ASSUME NEW i \in 1..Len(trail') - 1
        PROVE  EdgeOK(i)'
    <3>1. CASE i = Len(trail)
      <4>1. trail'[i] = current /\ trail'[i + 1] = prev
        BY <3>1, <2>2 DEF current
      <4> QED BY <4>1, <2>1 DEF EdgeOK, Usable, RotationSigned
    <3>2. CASE i \in 1..Len(trail) - 1
      <4>1. EdgeOK(i)
        BY <3>2 DEF RInv, TrailInv
      <4>2. trail'[i] = trail[i] /\ trail'[i + 1] = trail[i + 1]
        BY <3>2, <2>2
      <4>3. trusted \subseteq trusted'
        BY <1>2 DEF PredecessorKey
      <4> QED BY <4>1, <4>2, <4>3, <2>1 DEF EdgeOK
    <3> QED BY <3>1, <3>2, <2>2
  <2>5. prev \notin Visited
    BY <2>1 DEF Usable
  <2>6. NoKidTwice'
    <3> SUFFICES ASSUME NEW i \in 1..Len(trail'), NEW j \in 1..Len(trail'),
                        trail'[i] = trail'[j]
                 PROVE  i = j
      BY DEF NoKidTwice
    <3>1. CASE i \in 1..Len(trail) /\ j \in 1..Len(trail)
      BY <3>1, <2>2 DEF RInv, TrailInv, NoKidTwice
    <3>2. CASE i = Len(trail) + 1 /\ j \in 1..Len(trail)
      BY <3>2, <2>2, <2>5 DEF Visited
    <3>3. CASE j = Len(trail) + 1 /\ i \in 1..Len(trail)
      BY <3>3, <2>2, <2>5 DEF Visited
    <3> QED BY <3>1, <3>2, <3>3, <2>2
  <2>7. trail' # <<>> => trail'[1] = kid'
    BY <2>3
  <2> QED BY <2>4, <2>6, <2>7, <1>2 DEF TrailInv
<1>3. ASSUME /\ UNCHANGED <<trail, rotation, kid>> /\ trusted \subseteq trusted'
             /\ \/ pc' \notin {"prevstatus", "prevkey"}
                \/ Usable(rotation[current]) /\ prev' = rotation[current].object
      PROVE  TrailInv'
  <2>1. \A i \in 1..Len(trail') - 1 : EdgeOK(i)'
    BY <1>3 DEF RInv, TrailInv, EdgeOK
  <2>2. current' = current /\ Visited' = Visited
    BY <1>3 DEF current, Visited
  <2>3. Usable(rotation[current]) => Usable(rotation[current])'
    BY <1>3, <2>2 DEF Usable
  <2>4. NoKidTwice' /\ (trail' # <<>> => trail'[1] = kid')
    BY <1>3 DEF RInv, TrailInv, NoKidTwice
  <2> QED BY <1>3, <2>1, <2>2, <2>3, <2>4 DEF TrailInv
<1>4. CASE FetchRotation
  BY <1>3, <1>4 DEF FetchRotation, Step, Reject, fixed
<1>5. CASE PredecessorStatus
  BY <1>3, <1>5 DEF PredecessorStatus, Step, Reject, Continue, fixed, RInv, TrailInv
<1>6. CASE ResolveCurrent \/ TerminalStatus \/ KidStatus \/ Signature
  BY <1>3, <1>6 DEF ResolveCurrent, TerminalStatus, KidStatus, Signature, Step,
     Reject, Continue, fixed
<1>7. CASE PredecessorKey /\ pc' # "resolve"
  BY <1>3, <1>7 DEF PredecessorKey, Step, Reject, fixed
<1>8. CASE Environment \/ UNCHANGED vars
  <2>1. UNCHANGED <<call, fixed, ghost>>
    BY <1>8, EnvironmentLeavesCall DEF vars
  <2> QED BY <1>3, <2>1 DEF call, fixed, ghost, RInv, TrailInv
<1> QED BY <1>1, <1>2, <1>4, <1>5, <1>6, <1>7, <1>8 DEF Next, Call

LEMMA ResolvedInductive ==
  ASSUME RInv, [Next]_vars
  PROVE  ResolvedInv'
<1> USE DEF RInv, ResolvedInv
<1>1. CASE Start
  BY <1>1 DEF Start
<1>2. CASE ResolveCurrent
  <2>1. current' = current
    BY <1>2 DEF ResolveCurrent, Continue, current
  <2> QED BY <1>2, <2>1 DEF ResolveCurrent, Step, Continue
<1>3. CASE TerminalStatus
  <2>1. current' = current /\ trail # <<>>
    BY <1>3 DEF TerminalStatus, Step, Reject, current, TypeOK
  <2> QED BY <1>3, <2>1 DEF TerminalStatus, Step, Reject
<1>4. CASE FetchRotation \/ PredecessorStatus \/ PredecessorKey
  BY <1>4 DEF FetchRotation, PredecessorStatus, PredecessorKey, Step, Reject, Continue
<1>5. CASE KidStatus \/ Signature
  <2>1. current' = current
    BY <1>5 DEF KidStatus, Signature, Reject, Continue, current
  <2> QED BY <1>5, <2>1 DEF KidStatus, Signature, Step, Reject, Continue
<1>6. CASE Environment \/ UNCHANGED vars
  <2>1. UNCHANGED <<call, fixed, ghost>>
    BY <1>6, EnvironmentLeavesCall DEF vars
  <2> QED BY <2>1 DEF call, fixed, ghost, current
<1> QED BY <1>1, <1>2, <1>3, <1>4, <1>5, <1>6 DEF Next, Call

LEMMA StatusInductive ==
  ASSUME RInv, [Next]_vars
  PROVE  StatusInv'
<1> USE DEF RInv, StatusInv
<1>1. CASE Start
  <2>1. trail' = <<kid>> /\ Len(trail') = 1
    BY <1>1 DEF Start
  <2> QED BY <1>1, <2>1 DEF Start, store, fixed
<1>2. CASE PredecessorKey /\ pc' = "resolve"
  <2>1. trail' = Append(trail, prev) /\ UNCHANGED <<verdict, kid, atStart, revoked>>
    BY <1>2, AdoptKeepsTrail DEF PredecessorKey, Step, store
  <2>2. trail \in Seq(Keys) /\ prev \in Keys /\ prev \notin atStart
    BY <1>2 DEF TypeOK, PredecessorKey, Step
  <2>3. \A i \in 2..Len(trail') : trail'[i] \notin atStart
    BY <2>1, <2>2
  <2> QED BY <1>2, <2>1, <2>3 DEF PredecessorKey, Step
<1>3. CASE PredecessorKey /\ pc' # "resolve"
  BY <1>3 DEF PredecessorKey, Step, Reject, store, fixed
<1>4. CASE ResolveCurrent \/ TerminalStatus \/ FetchRotation
  BY <1>4 DEF ResolveCurrent, TerminalStatus, FetchRotation, Step, Reject,
     Continue, store, fixed
<1>5. CASE PredecessorStatus
  BY <1>5 DEF PredecessorStatus, Step, Reject, Continue, store, fixed
<1>6. CASE KidStatus
  BY <1>6 DEF KidStatus, Step, Reject, Continue, store, fixed, TypeOK
<1>7. CASE Signature
  BY <1>7 DEF Signature, Step, Reject, store, fixed
<1>8. CASE Environment \/ UNCHANGED vars
  <2>1. UNCHANGED <<call, fixed, ghost>> /\ revoked \subseteq revoked'
    BY <1>8, EnvironmentLeavesCall DEF vars, store
  <2> QED BY <2>1 DEF call, fixed, ghost
<1> QED BY <1>1, <1>2, <1>3, <1>4, <1>5, <1>6, <1>7, <1>8 DEF Next, Call

LEMMA RInvImplies ==
  ASSUME RInv
  PROVE  ResolvedThroughRotations /\ NoRevokedKeyOnTrail /\ NoKidTwice
<1>1. ResolvedThroughRotations
  BY DEF RInv, TrailInv, ResolvedInv, ResolvedThroughRotations, EdgeOK, current
<1>2. NoRevokedKeyOnTrail
  <2> SUFFICES ASSUME verdict = "accepted", NEW i \in 1..Len(trail)
               PROVE  trail[i] \notin atStart
    BY DEF NoRevokedKeyOnTrail
  <2>1. CASE i = 1
    BY <2>1 DEF RInv, StatusInv, TrailInv, TypeOK
  <2>2. CASE i \in 2..Len(trail)
    BY <2>2 DEF RInv, StatusInv
  <2> QED BY <2>1, <2>2 DEF RInv, TypeOK
<1>3. NoKidTwice
  BY DEF RInv, TrailInv
<1> QED BY <1>1, <1>2, <1>3

(* KeyRotation's three safety properties, from the one invariant.          *)
LEMMA RotationHolds ==
  Spec => [](ResolvedThroughRotations /\ NoRevokedKeyOnTrail /\ NoKidTwice)
<1>1. RInv /\ [Next]_vars => RInv'
  BY TypeInductive, TrailInductive, ResolvedInductive, StatusInductive DEF RInv
<1>2. RInv => ResolvedThroughRotations /\ NoRevokedKeyOnTrail /\ NoKidTwice
  BY RInvImplies
<1> QED BY RInvInit, <1>1, <1>2, PTL DEF Spec

(* Whatever the store learns, forgets or revokes while the resolver runs,  *)
(* a key it returns is linked to the kid by rotations it checked.          *)
THEOREM RotationSafe == Spec => []ResolvedThroughRotations
BY RotationHolds, PTL

(* The trail of an accepted statement has no key that was revoked when the *)
(* call began.                                                             *)
THEOREM TrailUnrevoked == Spec => []NoRevokedKeyOnTrail
BY RotationHolds, PTL

(* The resolver tries no kid twice, so its walk has a bound.               *)
THEOREM TrailWithoutRepeats == Spec => []NoKidTwice
BY RotationHolds, PTL

=============================================================================
