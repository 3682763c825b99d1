--------------------------- MODULE CustodyProofs ---------------------------
(* What Custody promises, for any number of keys, headers and envelopes: a  *)
(* reference of the key store means one key for ever, and what an entry     *)
(* point accepts was signed as it arrived.                                  *)
EXTENDS Custody, TLAPS

USE EnvelopeAssumption, KeyStoreAssumption

(* The steps that leave the store alone.                                    *)
LEMMA StoreOrNot == [Next]_vars => StoreNext \/ UNCHANGED store
BY DEF Next, StoreStep, Publish, Sign, SignStored, Send, Arrive, WithKey, Pipeline, Answer,
       Done, vars, store

----------------------------------------------------------------------------
(* The key store. Two keys never share a kid, and every reference that may  *)
(* still find a key was issued for the one that has its kid.                *)

LEMMA StoreKidsDiffer ==
  ASSUME NEW m \in Material, NEW n \in Material, StoreKid(m) = StoreKid(n)
  PROVE  m = n
<1> DEFINE Of(x) == IF x.alg = -39 THEN <<x.ml, x.ed>>
                    ELSE IF x.alg = -38 THEN <<x.ml>> ELSE <<x.ed>>
<1>1. Of(m) = Of(n)
  BY DEF StoreKid, Blake3
<1>2. ASSUME NEW x \in Material
      PROVE  \/ \E e \in EdKeys : x = Ed(e) /\ Of(x) = <<e>>
             \/ \E l \in MlKeys : x = MlDsa65(l) /\ Of(x) = <<l>>
             \/ \E e \in EdKeys, l \in MlKeys : x = Composite(e, l) /\ Of(x) = <<l, e>>
  BY DEF Material, Ed, MlDsa65, Composite
<1> HIDE DEF Of
<1> QED BY <1>1, <1>2

KeysIssued == \A k \in DOMAIN keys :
  /\ keys[k] \in Material /\ StoreKid(keys[k]) = k
  /\ [ref |-> RefOf(keys[k]), material |-> keys[k]] \in issued
IssuedAsMade == \A i \in issued : i.material \in Material /\ i.ref = RefOf(i.material)
RefsIssued == \A r \in refs :
  /\ r = [kid |-> r.kid, algorithm |-> r.algorithm]
  /\ r.kid = ZeroKid \/ \E i \in issued : i.ref = r

StoreInv == KeysIssued /\ IssuedAsMade /\ RefsIssued

LEMMA StoreInvInit == Init => StoreInv
BY DEF Init, StoreInit, StoreInv, KeysIssued, IssuedAsMade, RefsIssued

LEMMA GenerateKeeps ==
  ASSUME StoreInv, NEW m \in Generable, generate(m)
  PROVE  StoreInv'
<1> USE DEF StoreInv
<1> DEFINE entry == [ref |-> RefOf(m), material |-> m]
<1>1. m \in Material /\ issued' = issued \cup {entry} /\ refs' = refs \cup {RefOf(m)}
  BY DEF generate
<1>2. keys' = [k \in DOMAIN keys \cup {StoreKid(m)} |-> IF k = StoreKid(m) THEN m ELSE keys[k]]
  BY DEF generate
<1>3. entry.ref = RefOf(m) /\ entry.material = m
  OBVIOUS
<1> HIDE DEF entry
<1>4. KeysIssued'
  BY <1>1, <1>2 DEF KeysIssued, entry
<1>5. IssuedAsMade'
  BY <1>1, <1>3 DEF IssuedAsMade
<1>6. RefOf(m) = [kid |-> RefOf(m).kid, algorithm |-> RefOf(m).algorithm]
  BY DEF RefOf
<1>7. RefsIssued'
  BY <1>1, <1>3, <1>6 DEF RefsIssued
<1> QED BY <1>4, <1>5, <1>7

LEMMA StoreInvInductive == StoreInv /\ [Next]_vars => StoreInv'
<1> SUFFICES ASSUME StoreInv, [Next]_vars PROVE StoreInv'
  OBVIOUS
<1> USE DEF StoreInv
<1>1. ASSUME NEW m \in Generable, generate(m) PROVE StoreInv'
  BY <1>1, GenerateKeeps
<1>2. ASSUME NEW r \in refs, delete(r) PROVE StoreInv'
  BY <1>2 DEF delete, KeysIssued, IssuedAsMade, RefsIssued
<1>3. ASSUME NEW r \in refs, zeroize(r) PROVE StoreInv'
  <2>1. [r EXCEPT !.kid = ZeroKid] = [kid |-> ZeroKid, algorithm |-> r.algorithm]
    BY DEF RefsIssued
  <2> QED BY <1>3, <2>1 DEF zeroize, KeysIssued, IssuedAsMade, RefsIssued
<1>4. CASE relist
  <2>1. ASSUME NEW k \in DOMAIN keys
        PROVE  \E i \in issued : i.ref = [kid |-> k, algorithm |-> keys[k].alg]
    BY DEF KeysIssued, RefOf
  <2>2. RefsIssued'
    BY <1>4, <2>1 DEF relist, list_keys, RefsIssued
  <2> QED BY <1>4, <2>2 DEF relist, KeysIssued, IssuedAsMade
<1>5. CASE UNCHANGED store
  BY <1>5 DEF store, KeysIssued, IssuedAsMade, RefsIssued
<1> QED BY <1>1, <1>2, <1>3, <1>4, <1>5, StoreOrNot DEF StoreNext

(* KeyStore.ReferenceDenotesOneKey: a reference means one key for ever,     *)
(* whatever was deleted, generated, listed or zeroized since.               *)
THEOREM ReferenceSound == Spec => []ReferenceDenotesOneKey
<1>1. ASSUME StoreInv PROVE ReferenceDenotesOneKey
  <2> SUFFICES ASSUME NEW r \in refs, is_valid(r)
               PROVE  /\ \E i \in issued : i.ref = r
                      /\ \A i \in issued : i.ref.kid = r.kid =>
                           i.material = keys[r.kid] /\ i.ref.algorithm = r.algorithm
    BY DEF ReferenceDenotesOneKey
  <2>1. keys[r.kid] \in Material /\ StoreKid(keys[r.kid]) = r.kid
    BY <1>1 DEF is_valid, StoreInv, KeysIssued
  <2>2. r.kid # ZeroKid
    BY <2>1 DEF StoreKid, Blake3, ZeroKid
  <2>3. PICK j \in issued : j.ref = r
    BY <1>1, <2>2 DEF StoreInv, RefsIssued
  <2>4. ASSUME NEW i \in issued, i.ref.kid = r.kid
        PROVE  i.material = keys[r.kid] /\ i.ref = RefOf(keys[r.kid])
    <3>1. i.material \in Material /\ i.ref = RefOf(i.material)
      BY <1>1 DEF StoreInv, IssuedAsMade
    <3>2. StoreKid(i.material) = StoreKid(keys[r.kid])
      BY <2>1, <2>4, <3>1 DEF RefOf
    <3> QED BY <2>1, <3>1, <3>2, StoreKidsDiffer
  <2> QED BY <2>3, <2>4
<1> QED BY <1>1, StoreInvInit, StoreInvInductive, PTL DEF Spec

----------------------------------------------------------------------------
(* The envelopes. Whatever becomes of one on its way, each half of its      *)
(* signature is one that somebody made.                                     *)

Parts(sig) == {sig[i] : i \in DOMAIN sig}
Halves == UNION {Parts(SignatureOf(s.key, s.msg)) : s \in signed}

Listed(entries) ==
  /\ \E n \in Nat : DOMAIN entries = 1..n
  /\ \A i \in DOMAIN entries : entries[i].key \in Nat

(* The parts of an envelope.                                                *)
Shape(e) ==
  /\ e = [frame |-> e.frame, tail |-> e.tail, protected |-> e.protected,
          unprotected |-> e.unprotected, payload |-> e.payload, signature |-> e.signature]
  /\ e.protected = [entries |-> e.protected.entries, whole |-> e.protected.whole]
  /\ Listed(e.protected.entries)
  /\ e.signature \in Seq(Halves)

EnvelopeInv ==
  /\ \A e \in sent : Shape(e)
  /\ wire # Absent => Shape(wire)
  /\ verdict # Absent => wire # Absent

LEMMA HalvesMade == \A h : h \in Halves <=> Made(h)
BY DEF Halves, Made, Parts

LEMMA SeqWidens == ASSUME NEW A, NEW B, A \subseteq B, NEW s \in Seq(A) PROVE s \in Seq(B)
OBVIOUS

LEMMA SignatureShape ==
  ASSUME NEW k, NEW msg
  PROVE  SignatureOf(k, msg) \in Seq(Parts(SignatureOf(k, msg)))
<1> DEFINE sig == SignatureOf(k, msg)
<1>1. PICK a, b : sig = <<a, b>> \/ sig = <<a>>
  BY DEF SignatureOf, composite_sign
<1> HIDE DEF sig
<1>2. \A S : /\ a \in S => <<a>> \in Seq(S)
             /\ a \in S /\ b \in S => <<a, b>> \in Seq(S)
  OBVIOUS
<1>3. CASE sig = <<a>>
  <2>1. sig[1] = a /\ 1 \in DOMAIN sig
    BY <1>3
  <2>2. a \in Parts(sig)
    BY <2>1 DEF Parts
  <2> QED BY <1>2, <1>3, <2>2 DEF sig
<1>4. CASE sig = <<a, b>>
  <2>1. sig[1] = a /\ sig[2] = b /\ 1 \in DOMAIN sig /\ 2 \in DOMAIN sig
    BY <1>4
  <2>2. a \in Parts(sig) /\ b \in Parts(sig)
    BY <2>1 DEF Parts
  <2> QED BY <1>2, <1>4, <2>2 DEF sig
<1> QED BY <1>1, <1>3, <1>4

LEMMA HeaderShape ==
  ASSUME NEW alg, NEW kid, NEW p, p = build_protected_header(alg, kid)
  PROVE  /\ p = [entries |-> p.entries, whole |-> p.whole]
         /\ Listed(p.entries)
<1>1. p.entries = <<AlgEntry(alg), KidEntry(kid)>> /\ p = [entries |-> p.entries, whole |-> TRUE]
  BY DEF build_protected_header
<1>2. \A x, y : DOMAIN <<x, y>> = 1..2
  OBVIOUS
<1>3. DOMAIN p.entries = 1..2
  BY <1>1, <1>2
<1>4. \A i \in 1..2 : p.entries[i].key \in Nat
  BY <1>1 DEF AlgEntry, KidEntry
<1> QED BY <1>1, <1>3, <1>4 DEF Listed

LEMMA SendKeeps ==
  ASSUME EnvelopeInv, NEW k, NEW p, NEW u, NEW m, Send(k, p, u, m),
         p = [entries |-> p.entries, whole |-> p.whole], Listed(p.entries)
  PROVE  EnvelopeInv'
<1> DEFINE msg == build_sig_structure(p, u, m)
           e == Seal(k, p, u, m)
           new == [key |-> k, msg |-> msg]
<1>1. /\ wire = Absent /\ verdict = Absent /\ wire' = wire /\ verdict' = verdict
      /\ sent' = sent \cup {e} /\ signed' = signed \cup {new}
  BY DEF Send, EnvelopeInv
<1>2. Halves \subseteq Halves'
  <2>1. signed \subseteq signed'
    BY <1>1
  <2> QED BY <2>1 DEF Halves
<1>3. \A x : Shape(x) => Shape(x)'
  BY <1>2, SeqWidens DEF Shape
<1>4. Parts(SignatureOf(k, msg)) \subseteq Halves'
  <2>1. new \in signed' /\ new.key = k /\ new.msg = msg
    BY <1>1
  <2> HIDE DEF new, msg
  <2> QED BY <2>1 DEF Halves
<1>5. SignatureOf(k, msg) \in Seq(Halves')
  BY <1>4, SignatureShape, SeqWidens
<1>6. /\ e.frame = "tag98" /\ e.tail = FALSE /\ e.protected = p /\ e.unprotected = u
      /\ e.payload = m /\ e.signature = SignatureOf(k, msg)
      /\ e = [frame |-> "tag98", tail |-> FALSE, protected |-> p, unprotected |-> u,
              payload |-> m, signature |-> SignatureOf(k, msg)]
  BY DEF Seal
<1> HIDE DEF e, msg
<1>7. Shape(e)'
  BY <1>5, <1>6 DEF Shape
<1> QED BY <1>1, <1>3, <1>7 DEF EnvelopeInv

(* Every kind of damage leaves the shape and only moves halves about.       *)
LEMMA DamagedShape ==
  ASSUME \A d \in sent : Shape(d), NEW e \in sent, NEW w \in Damaged(e)
  PROVE  Shape(w)
<1>1. Shape(e)
  OBVIOUS
<1>2. ASSUME NEW f, w = [e EXCEPT !.frame = f] PROVE Shape(w)
  BY <1>1, <1>2 DEF Shape
<1>3. CASE w = [e EXCEPT !.tail = TRUE]
  BY <1>1, <1>3 DEF Shape
<1>4. CASE w = [e EXCEPT !.protected.whole = FALSE]
  <2>1. /\ w.protected = [entries |-> e.protected.entries, whole |-> FALSE]
        /\ w.signature = e.signature
        /\ w = [frame |-> e.frame, tail |-> e.tail, protected |-> w.protected,
                unprotected |-> e.unprotected, payload |-> e.payload, signature |-> e.signature]
    BY <1>1, <1>4 DEF Shape
  <2> QED BY <1>1, <2>1 DEF Shape
<1>5. ASSUME NEW d \in sent,
             w \in {[e EXCEPT !.protected = d.protected], [e EXCEPT !.unprotected = d.unprotected],
                    [e EXCEPT !.payload = d.payload], [e EXCEPT !.signature = d.signature]}
      PROVE  Shape(w)
  <2>1. Shape(d)
    OBVIOUS
  <2> QED BY <1>1, <1>5, <2>1 DEF Shape
<1>6. ASSUME NEW d \in sent, NEW i \in DOMAIN e.signature, NEW j \in DOMAIN d.signature,
             w = [e EXCEPT !.signature[i] = d.signature[j]]
      PROVE  Shape(w)
  <2>1. Shape(d)
    OBVIOUS
  <2>2. d.signature[j] \in Halves
    BY <2>1 DEF Shape
  <2>3. [e.signature EXCEPT ![i] = d.signature[j]] \in Seq(Halves)
    BY <1>1, <2>2 DEF Shape
  <2>4. w = [e EXCEPT !.signature = [e.signature EXCEPT ![i] = d.signature[j]]]
    BY <1>1, <1>6 DEF Shape
  <2> QED BY <1>1, <2>3, <2>4 DEF Shape
<1>7. ASSUME NEW i \in DOMAIN e.signature, w = [e EXCEPT !.signature = <<e.signature[i]>>]
      PROVE  Shape(w)
  <2>1. e.signature[i] \in Halves
    BY <1>1 DEF Shape
  <2>2. <<e.signature[i]>> \in Seq(Halves)
    BY <2>1
  <2> QED BY <1>1, <1>7, <2>2 DEF Shape
<1>8. \/ w \in Spoilt(e) \/ w \in Halved(e)
      \/ \E d \in sent : w \in Mixed(e, d) \/ w \in Spliced(e, d)
  BY DEF Damaged
<1>9. CASE w \in Spoilt(e)
  BY <1>2, <1>3, <1>4, <1>9 DEF Spoilt
<1>10. CASE w \in Halved(e)
  BY <1>7, <1>10 DEF Halved
<1>11. ASSUME NEW d \in sent, w \in Mixed(e, d) PROVE Shape(w)
  BY <1>5, <1>11 DEF Mixed
<1>12. ASSUME NEW d \in sent, w \in Spliced(e, d) PROVE Shape(w)
  BY <1>6, <1>12 DEF Spliced
<1> QED BY <1>8, <1>9, <1>10, <1>11, <1>12

(* The recipient's steps change neither what was sent nor what arrived.     *)
LEMMA AnswersLeave ==
  ASSUME (\E k \in trusted : WithKey(k)) \/ \E table \in Tables : Pipeline(table)
  PROVE  /\ wire # Absent /\ verdict = Absent
         /\ UNCHANGED <<store, trusted, given, sent, signed, wire>>
BY DEF WithKey, Pipeline, Answer

LEMMA EnvelopeInvInductive == EnvelopeInv /\ [Next]_vars => EnvelopeInv'
<1> SUFFICES ASSUME EnvelopeInv, [Next]_vars PROVE EnvelopeInv'
  OBVIOUS
<1>1. CASE UNCHANGED <<sent, signed, wire>> /\ (verdict' = verdict \/ wire # Absent)
  BY <1>1 DEF EnvelopeInv, Shape, Halves
<1>2. CASE StoreStep \/ UNCHANGED vars \/ \E r \in refs : Publish(r)
  BY <1>1, <1>2 DEF StoreStep, Quiet, Publish, vars
<1>3. CASE \E k \in OwnKeys, u \in Unprotected, m \in Payloads : Sign(k, u, m)
  <2>1. PICK k \in OwnKeys, u \in Unprotected, m \in Payloads :
          Send(k, build_protected_header(k.alg, KidOf(k)), u, m)
    BY <1>3 DEF Sign
  <2> QED BY <2>1, HeaderShape, SendKeeps
<1>4. CASE \E r \in refs, m \in Payloads : SignStored(r, m)
  <2> PICK r \in refs, m \in Payloads : SignStored(r, m)
    BY <1>4
  <2> DEFINE own == build_protected_header(keys[r.kid].alg, KidOf(keys[r.kid]))
  <2>1. PICK p \in Headers \cup {own} : Send(keys[r.kid], p, EmptyMap, m)
    BY DEF SignStored
  <2>2. p = [entries |-> p.entries, whole |-> p.whole]
    BY CustodyAssumption, HeaderShape DEF Protected
  <2>3. Listed(p.entries)
    <3>1. CASE p \in Headers
      <4>1. p.entries \in Seq(Entry)
        BY <3>1, CustodyAssumption DEF Protected
      <4>2. \A i \in DOMAIN p.entries : p.entries[i] \in Entry
        BY <4>1
      <4>3. \A x \in Entry : x.key \in Nat
        BY DEF Entry
      <4>4. DOMAIN p.entries = 1..Len(p.entries) /\ Len(p.entries) \in Nat
        BY <4>1
      <4> QED BY <4>2, <4>3, <4>4 DEF Listed
    <3>2. CASE p \notin Headers
      BY <3>2, HeaderShape
    <3> QED BY <3>1, <3>2
  <2> QED BY <2>1, <2>2, <2>3, SendKeeps
<1>5. CASE Arrive
  <2>1. wire = Absent /\ UNCHANGED <<sent, signed, verdict>> /\ verdict = Absent
    BY <1>5 DEF Arrive, EnvelopeInv
  <2>2. Shape(wire')
    BY <1>5, DamagedShape DEF Arrive, EnvelopeInv
  <2>3. Halves' = Halves
    BY <2>1 DEF Halves
  <2> QED BY <2>1, <2>2, <2>3 DEF EnvelopeInv, Shape
<1>6. CASE (\E k \in trusted : WithKey(k)) \/ \E table \in Tables : Pipeline(table)
  BY <1>1, <1>6, AnswersLeave
<1>7. CASE Done
  BY <1>7 DEF Done, EnvelopeInv, Shape, Halves
<1> QED BY <1>2, <1>3, <1>4, <1>5, <1>6, <1>7 DEF Next

LEMMA EnvelopeInvInit == Init => EnvelopeInv
BY DEF Init, EnvelopeInv

LEMMA EnvelopeInvAlways == Spec => []EnvelopeInv
BY EnvelopeInvInit, EnvelopeInvInductive, PTL DEF Spec

(* A half that is found in its place was made.                              *)
LEMMA ValidMade ==
  ASSUME Shape(wire), NEW i \in 1..Len(wire.signature), NEW h, HalfValid(wire.signature, i, h)
  PROVE  Made(h)
BY HalvesMade DEF Shape, HalfValid

(* What each function of cose.rs has established when it accepts.           *)
SignedBy(k, mode) ==
  LET msg == ToVerify(wire)
  IN /\ k.alg = -8  => Made(EdSig(k.ed, msg))
     /\ k.alg = -38 => Made(MlSig(k.ml, msg))
     /\ k.alg = -39 => /\ mode # "PQOnly" => Made(EdPhSig(k.ed, msg))
                       /\ mode # "ClassicalOnly" => Made(MlSig(k.ml, msg))

LEMMA EdAccepted ==
  ASSUME Shape(wire), NEW e, parse_and_verify_ed25519(wire, e) = "none"
  PROVE  Made(EdSig(e, ToVerify(wire)))
<1>1. 1 \in 1..Len(wire.signature) /\ HalfValid(wire.signature, 1, EdSig(e, ToVerify(wire)))
  BY DEF parse_and_verify_ed25519
<1> QED BY <1>1, ValidMade

LEMMA MlAccepted ==
  ASSUME Shape(wire), NEW m, parse_and_verify_mldsa65_only(wire, m) = "none"
  PROVE  Made(MlSig(m, ToVerify(wire)))
<1>1. 1 \in 1..Len(wire.signature) /\ HalfValid(wire.signature, 1, MlSig(m, ToVerify(wire)))
  BY DEF parse_and_verify_mldsa65_only
<1> QED BY <1>1, ValidMade

LEMMA CompositeAccepted ==
  ASSUME Shape(wire), NEW e, NEW m, NEW mode,
         parse_and_verify_composite(wire, e, m, mode) = "none"
  PROVE  /\ mode # "PQOnly" => Made(EdPhSig(e, ToVerify(wire)))
         /\ mode # "ClassicalOnly" => Made(MlSig(m, ToVerify(wire)))
<1>1. 1 \in 1..Len(wire.signature) /\ 2 \in 1..Len(wire.signature)
  BY DEF parse_and_verify_composite, FromBytes
<1>2. /\ mode # "PQOnly" => HalfValid(wire.signature, 2, EdPhSig(e, ToVerify(wire)))
      /\ mode # "ClassicalOnly" => HalfValid(wire.signature, 1, MlSig(m, ToVerify(wire)))
  BY DEF parse_and_verify_composite, composite_verify
<1> QED BY <1>1, <1>2, ValidMade

LEMMA WithKeySound ==
  ASSUME Shape(wire), NEW k, WithKey(k), verdict'.result = "none"
  PROVE  verdict'.key = k /\ SignedBy(k, verdict'.mode)
<1>1. CASE k.alg = -8
  <2>1. verdict'.key = k
    BY <1>1 DEF WithKey, Answer
  <2>2. parse_and_verify_ed25519(wire, k.ed) = "none"
    BY <1>1 DEF WithKey, Answer, verify_statement_ed25519
  <2> QED BY <1>1, <2>1, <2>2, EdAccepted DEF SignedBy
<1>2. CASE k.alg = -39
  <2>1. /\ verdict'.key = k
        /\ parse_and_verify_composite(wire, k.ed, k.ml, verdict'.mode) = "none"
    BY <1>2 DEF WithKey, Answer
  <2> QED BY <1>2, <2>1, CompositeAccepted DEF SignedBy
<1>3. CASE k.alg = -38
  <2>1. verdict'.key = k /\ parse_and_verify_mldsa65_only(wire, k.ml) = "none"
    BY <1>3 DEF WithKey, Answer
  <2> QED BY <1>3, <2>1, MlAccepted DEF SignedBy
<1> QED BY <1>1, <1>2, <1>3 DEF WithKey

(* When the pipeline accepts, the header was in order and named the key.    *)
LEMMA PipelineAccepts ==
  ASSUME NEW table, Pipeline(table), verdict'.result = "none"
  PROVE  /\ verdict'.mode = "Hybrid" /\ verdict'.table = table
         /\ HeaderError(wire.protected) = "none"
         /\ verdict'.key \in KeysFor(wire, table) /\ VerifyUnder(wire, verdict'.key) = "none"
<1>1. /\ parse_cose_sign1(wire) /\ HeaderError(wire.protected) = "none"
      /\ KeysFor(wire, table) # {}
  BY DEF Pipeline, Answer
<1>2. PICK k \in KeysFor(wire, table) :
        Answer("pipeline", k, table, "Hybrid", VerifyUnder(wire, k))
  BY <1>1 DEF Pipeline
<1> QED BY <1>1, <1>2 DEF Answer

LEMMA PipelineSound ==
  ASSUME Shape(wire), NEW table, Pipeline(table), verdict'.result = "none"
  PROVE  SignedBy(verdict'.key, verdict'.mode)
<1> DEFINE k == verdict'.key
<1>1. verdict'.mode = "Hybrid" /\ VerifyUnder(wire, k) = "none"
  BY PipelineAccepts
<1> SUFFICES SignedBy(k, "Hybrid")
  BY <1>1
<1> HIDE DEF k
<1>2. CASE k.alg = -8
  <2>1. parse_and_verify_ed25519(wire, k.ed) = "none"
    BY <1>1, <1>2 DEF VerifyUnder
  <2> QED BY <1>1, <1>2, <2>1, EdAccepted DEF SignedBy
<1>3. CASE k.alg = -39
  <2>1. parse_and_verify_composite(wire, k.ed, k.ml, "Hybrid") = "none"
    BY <1>1, <1>3 DEF VerifyUnder
  <2> QED BY <1>1, <1>3, <2>1, CompositeAccepted DEF SignedBy
<1>4. CASE k.alg # -8 /\ k.alg # -39
  <2>1. parse_and_verify_mldsa65_only(wire, k.ml) = "none"
    BY <1>1, <1>4 DEF VerifyUnder
  <2> QED BY <1>1, <1>4, <2>1, MlAccepted DEF SignedBy
<1> QED BY <1>1, <1>2, <1>3, <1>4 DEF k

(* Steps that ask for no verdict end or keep the one there is.              *)
LEMMA VerdictKept ==
  ASSUME EnvelopeInv, [Next]_vars
  PROVE  \/ verdict' = Absent
         \/ UNCHANGED <<wire, signed, verdict, given, trusted>>
         \/ \E k \in trusted : WithKey(k)
         \/ \E table \in Tables : Pipeline(table)
<1>1. CASE wire = Absent /\ verdict' = verdict
  BY <1>1 DEF EnvelopeInv
<1> QED
  BY <1>1
  DEF Next, StoreStep, Quiet, Publish, Sign, SignStored, Send, Arrive, Done, vars

(* Custody.AcceptedAsSigned: whichever entry point accepts an envelope, the *)
(* owner of the key, or of each half asked for, signed what arrived.        *)
THEOREM AcceptanceSound == Spec => []AcceptedAsSigned
<1>1. Init => AcceptedAsSigned
  BY DEF Init, AcceptedAsSigned, Accepted
<1>2. EnvelopeInv /\ AcceptedAsSigned /\ [Next]_vars => AcceptedAsSigned'
  <2> SUFFICES ASSUME EnvelopeInv, AcceptedAsSigned, [Next]_vars PROVE AcceptedAsSigned'
    OBVIOUS
  <2>1. CASE verdict' = Absent
    BY <2>1 DEF AcceptedAsSigned, Accepted
  <2>2. CASE UNCHANGED <<wire, signed, verdict, given, trusted>>
    BY <2>2 DEF AcceptedAsSigned, Accepted, Made
  <2>3. CASE (\E k \in trusted : WithKey(k)) \/ \E table \in Tables : Pipeline(table)
    <3>1. UNCHANGED <<signed, wire>> /\ Shape(wire)
      BY <2>3, AnswersLeave DEF EnvelopeInv
    <3>2. verdict'.result = "none" => SignedBy(verdict'.key, verdict'.mode)
      BY <2>3, <3>1, WithKeySound, PipelineSound
    <3>3. \A k, mode : SignedBy(k, mode) => SignedBy(k, mode)'
      BY <3>1 DEF SignedBy, Made, ToVerify
    <3> QED BY <3>2, <3>3 DEF AcceptedAsSigned, Accepted, SignedBy, ToVerify
  <2> QED BY <2>1, <2>2, <2>3, VerdictKept
<1> QED BY <1>1, <1>2, EnvelopeInvAlways, PTL DEF Spec

----------------------------------------------------------------------------
(* The header.                                                              *)

(* In a header whose keys strictly increase, each key has one entry, which  *)
(* is the one every reader takes.                                           *)
LEMMA OneEntry ==
  ASSUME Shape(wire), check_protected_header_determinism(wire.protected),
         NEW i \in DOMAIN wire.protected.entries
  PROVE  First(wire.protected, wire.protected.entries[i].key) = i
<1> DEFINE p == wire.protected
           key == p.entries[i].key
<1>1. PICK n \in Nat : DOMAIN p.entries = 1..n
  BY DEF Shape, Listed
<1>2. \A j \in DOMAIN p.entries : (j < i => p.entries[j].key < key) /\ (i < j => key < p.entries[j].key)
  BY DEF check_protected_header_determinism
<1>3. \A j \in DOMAIN p.entries : p.entries[j].key \in Nat
  BY DEF Shape, Listed
<1>4. \A j \in At(p, key) : j = i
  BY <1>1, <1>2, <1>3 DEF At
<1>5. i \in At(p, key)
  BY DEF At
<1>6. At(p, key) = {i} /\ i <= i
  BY <1>1, <1>4, <1>5
<1> QED BY <1>6 DEF First

(* Custody.HeaderNamesKey: the header of a statement the pipeline accepts   *)
(* names the key that verified it, to every reader.                         *)
THEOREM HeaderSound == Spec => []HeaderNamesKey
<1>1. Init => HeaderNamesKey
  BY DEF Init, HeaderNamesKey, Accepted
<1>2. EnvelopeInv /\ HeaderNamesKey /\ [Next]_vars => HeaderNamesKey'
  <2> SUFFICES ASSUME EnvelopeInv, HeaderNamesKey, [Next]_vars PROVE HeaderNamesKey'
    OBVIOUS
  <2>1. CASE verdict' = Absent
    BY <2>1 DEF HeaderNamesKey, Accepted
  <2>2. CASE UNCHANGED <<wire, signed, verdict, given, trusted>>
    BY <2>2 DEF HeaderNamesKey, Accepted
  <2>3. CASE \E k \in trusted : WithKey(k)
    <3>1. verdict'.entry # "pipeline"
      BY <2>3 DEF WithKey, Answer
    <3> QED BY <3>1 DEF HeaderNamesKey
  <2>4. ASSUME NEW table \in Tables, Pipeline(table) PROVE HeaderNamesKey'
    <3> DEFINE k == verdict'.key
    <3>1. SUFFICES ASSUME verdict'.result = "none", verdict'.table.by_kid,
                          NEW i \in DOMAIN wire.protected.entries
                   PROVE  /\ wire.protected.entries[i].key = 1 =>
                               wire.protected.entries[i].alg = k.alg
                          /\ wire.protected.entries[i].key = 4 =>
                               wire.protected.entries[i].kid = KidOf(k)
      BY <2>4, AnswersLeave DEF HeaderNamesKey, Accepted
    <3>2. /\ k \in KeysFor(wire, table) /\ verdict'.table = table
          /\ HeaderError(wire.protected) = "none"
      BY <2>4, <3>1, PipelineAccepts
    <3>3. k.alg = extract_alg_id(wire.protected) /\ KidOf(k) = extract_kid(wire.protected)
      BY <3>1, <3>2 DEF KeysFor, Resolve
    <3>4. check_protected_header_determinism(wire.protected) /\ Shape(wire)
      BY <2>4, <3>2, AnswersLeave DEF HeaderError, EnvelopeInv
    <3>5. First(wire.protected, wire.protected.entries[i].key) = i
      BY <3>4, OneEntry
    <3> HIDE DEF k
    <3> QED BY <3>3, <3>5 DEF extract_alg_id, extract_kid
  <2> QED BY <2>1, <2>2, <2>3, <2>4, VerdictKept
<1> QED BY <1>1, <1>2, EnvelopeInvAlways, PTL DEF Spec

----------------------------------------------------------------------------
(* Delivery. What a recipient reads from exported bytes is the key they are *)
(* of, and a header built for a key leads back to it.                       *)

LEMMA KindsOfKeys ==
  ASSUME NEW k \in Material
  PROVE  \/ \E e \in EdKeys : k = Ed(e) /\ k.alg = -8 /\ k.ed = e /\ KidOf(k) = EdKid(e)
         \/ \E m \in MlKeys : k = MlDsa65(m) /\ k.alg = -38 /\ k.ml = m /\ KidOf(k) = MlKid(m)
         \/ \E e \in EdKeys, m \in MlKeys :
              /\ k = Composite(e, m) /\ k.alg = -39 /\ k.ed = e /\ k.ml = m
              /\ KidOf(k) = Blake3(<<e, m>>)
<1>1. ASSUME NEW e, k = Ed(e) PROVE k.alg = -8 /\ k.ed = e /\ KidOf(k) = EdKid(e)
  BY <1>1 DEF Ed, KidOf
<1>2. ASSUME NEW m, k = MlDsa65(m) PROVE k.alg = -38 /\ k.ml = m /\ KidOf(k) = MlKid(m)
  BY <1>2 DEF MlDsa65, KidOf
<1>3. ASSUME NEW e, NEW m, k = Composite(e, m)
      PROVE  k.alg = -39 /\ k.ed = e /\ k.ml = m /\ KidOf(k) = Blake3(<<e, m>>)
  BY <1>3 DEF Composite, KidOf
<1>4. \/ \E e \in EdKeys : k = Ed(e)
      \/ \E m \in MlKeys : k = MlDsa65(m)
      \/ \E e \in EdKeys, m \in MlKeys : k = Composite(e, m)
  BY DEF Material
<1> QED BY <1>1, <1>2, <1>3, <1>4

LEMMA ExportsItself ==
  ASSUME NEW k \in Material
  PROVE  KeyFrom(k.alg, public_key(k)) = k
<1>1. /\ k.alg = -8 => public_key(k) = <<k.ed>>
      /\ k.alg = -38 => public_key(k) = <<k.ml>>
      /\ k.alg = -39 => public_key(k) = <<k.ed, k.ml>>
  BY DEF public_key
<1>2. \A x, y : <<x>>[1] = x /\ <<x, y>>[1] = x /\ <<x, y>>[2] = y
  OBVIOUS
<1>3. ASSUME NEW e, k = Ed(e), k.alg = -8, k.ed = e
      PROVE  KeyFrom(k.alg, public_key(k)) = k
  <2>1. public_key(k)[1] = e
    BY <1>1, <1>2, <1>3
  <2> QED BY <1>3, <2>1 DEF KeyFrom
<1>4. ASSUME NEW m, k = MlDsa65(m), k.alg = -38, k.ml = m
      PROVE  KeyFrom(k.alg, public_key(k)) = k
  <2>1. public_key(k)[1] = m
    BY <1>1, <1>2, <1>4
  <2> QED BY <1>4, <2>1 DEF KeyFrom
<1>5. ASSUME NEW e, NEW m, k = Composite(e, m), k.alg = -39, k.ed = e, k.ml = m
      PROVE  KeyFrom(k.alg, public_key(k)) = k
  <2>1. public_key(k)[1] = e /\ public_key(k)[2] = m
    BY <1>1, <1>2, <1>5
  <2> QED BY <1>5, <2>1 DEF KeyFrom
<1> QED BY <1>3, <1>4, <1>5, KindsOfKeys

LEMMA KidsDiffer ==
  ASSUME NEW k \in Material, NEW l \in Material, k.alg = l.alg, KidOf(k) = KidOf(l)
  PROVE  k = l
BY KindsOfKeys DEF EdKid, MlKid, Blake3

GivenInv == given \subseteq trusted /\ trusted \subseteq Material

LEMMA GivenInvInductive == StoreInv /\ GivenInv /\ [Next]_vars => GivenInv'
<1> SUFFICES ASSUME StoreInv, GivenInv, [Next]_vars PROVE GivenInv'
  OBVIOUS
<1>1. CASE UNCHANGED <<given, trusted>>
  BY <1>1 DEF GivenInv
<1>2. ASSUME NEW r \in refs, Publish(r) PROVE GivenInv'
  <2> DEFINE k == keys[r.kid]
  <2>1. k \in Material
    BY <1>2 DEF Publish, is_valid, StoreInv, KeysIssued
  <2>2. trusted' = trusted \cup {KeyFrom(k.alg, public_key(k))} /\ given' = given \cup {k}
    BY <1>2 DEF Publish
  <2> HIDE DEF k
  <2> QED BY <2>1, <2>2, ExportsItself DEF GivenInv
<1>3. CASE \/ \E k \in OwnKeys, u \in Unprotected, m \in Payloads : Sign(k, u, m)
           \/ \E r \in refs, m \in Payloads : SignStored(r, m)
  BY <1>1, <1>3 DEF Sign, SignStored, Send
<1>4. CASE (\E k \in trusted : WithKey(k)) \/ \E table \in Tables : Pipeline(table)
  BY <1>1, <1>4, AnswersLeave
<1>5. CASE StoreStep \/ Arrive \/ Done \/ UNCHANGED vars
  BY <1>1, <1>5 DEF StoreStep, Quiet, Arrive, Done, vars
<1> QED BY <1>2, <1>3, <1>4, <1>5 DEF Next

LEMMA GivenAlways == Spec => [](StoreInv /\ GivenInv)
<1>1. Init => GivenInv
  BY CustodyAssumption DEF Init, GivenInv
<1> QED BY <1>1, StoreInvInit, StoreInvInductive, GivenInvInductive, PTL DEF Spec

(* The header that goes with a key passes every check and names it.         *)
LEMMA OwnHeader ==
  ASSUME NEW k \in Material, NEW p, p = build_protected_header(k.alg, KidOf(k))
  PROVE  /\ HeaderError(p) = "none"
         /\ extract_alg_id(p) = k.alg /\ extract_kid(p) = KidOf(k)
<1>1. /\ p.whole = TRUE /\ p.entries = <<AlgEntry(k.alg), KidEntry(KidOf(k))>>
      /\ DOMAIN p.entries = 1..2
  <2>1. p.whole = TRUE /\ p.entries = <<AlgEntry(k.alg), KidEntry(KidOf(k))>>
    BY DEF build_protected_header
  <2>2. \A x, y : DOMAIN <<x, y>> = 1..2
    OBVIOUS
  <2> QED BY <2>1, <2>2
<1>2. /\ p.entries[1].key = 1 /\ p.entries[1].alg = k.alg
      /\ p.entries[2].key = 4 /\ p.entries[2].kid = KidOf(k)
  BY <1>1 DEF AlgEntry, KidEntry
<1>3. At(p, 1) = {1} /\ At(p, 4) = {2}
  BY <1>1, <1>2 DEF At
<1>4. First(p, 1) = 1 /\ First(p, 4) = 2
  BY <1>3 DEF First
<1>5. extract_alg_id(p) = k.alg /\ extract_kid(p) = KidOf(k)
  BY <1>2, <1>4 DEF extract_alg_id, extract_kid
<1>6. check_protected_header_determinism(p)
  BY <1>1, <1>2 DEF check_protected_header_determinism
<1>7. HasAlg(p) /\ HasKid(p)
  BY <1>3 DEF HasAlg, HasKid
<1>8. validate_algorithm_kid_binding(k.alg, KidOf(k))
  BY KindsOfKeys DEF validate_algorithm_kid_binding, EdKid, MlKid, Blake3
<1> QED BY <1>5, <1>6, <1>7, <1>8 DEF HeaderError

LEMMA OwnSealVerifies ==
  ASSUME NEW k \in Material, NEW p, NEW u, NEW m, NEW e, e = Seal(k, p, u, m)
  PROVE  parse_cose_sign1(e) /\ VerifyUnder(e, k) = "none"
<1>1. /\ e.frame = "tag98" /\ ToVerify(e) = build_sig_structure(p, u, m)
      /\ e.signature = SignatureOf(k, build_sig_structure(p, u, m))
  BY DEF Seal, ToVerify
<1>2. parse_cose_sign1(e)
  BY <1>1 DEF parse_cose_sign1
<1> DEFINE msg == ToVerify(e)
<1>3. e.signature = SignatureOf(k, msg)
  BY <1>1
<1> HIDE DEF msg
<1>4. CASE k.alg = -8
  <2>1. e.signature = <<EdSig(k.ed, msg)>>
    BY <1>3, <1>4 DEF SignatureOf
  <2>2. Len(e.signature) = 1 /\ e.signature[1] = EdSig(k.ed, msg) /\ HalfLen(e.signature[1]) = 64
    BY <2>1 DEF HalfLen, EdSig
  <2>3. parse_and_verify_ed25519(e, k.ed) = "none"
    BY <1>2, <2>2 DEF parse_and_verify_ed25519, HalfValid, msg
  <2> QED BY <1>2, <1>4, <2>3 DEF VerifyUnder
<1>5. CASE k.alg = -38
  <2>1. e.signature = <<MlSig(k.ml, msg)>>
    BY <1>3, <1>5 DEF SignatureOf
  <2>2. Len(e.signature) = 1 /\ e.signature[1] = MlSig(k.ml, msg) /\ HalfLen(e.signature[1]) = 3309
    BY <2>1 DEF HalfLen, MlSig
  <2>3. parse_and_verify_mldsa65_only(e, k.ml) = "none"
    BY <1>2, <2>2 DEF parse_and_verify_mldsa65_only, HalfValid, msg
  <2> QED BY <1>2, <1>5, <2>3 DEF VerifyUnder
<1>6. CASE k.alg = -39
  <2>1. e.signature = <<MlSig(k.ml, msg), EdPhSig(k.ed, msg)>>
    BY <1>3, <1>6 DEF SignatureOf, composite_sign
  <2>2. /\ Len(e.signature) = 2
        /\ e.signature[1] = MlSig(k.ml, msg) /\ HalfLen(e.signature[1]) = 3309
        /\ e.signature[2] = EdPhSig(k.ed, msg) /\ HalfLen(e.signature[2]) = 64
    BY <2>1 DEF HalfLen, MlSig, EdPhSig
  <2>3. parse_and_verify_composite(e, k.ed, k.ml, "Hybrid") = "none"
    BY <1>2, <2>2 DEF parse_and_verify_composite, FromBytes, composite_verify, HalfValid, msg
  <2> QED BY <1>2, <1>6, <2>3 DEF VerifyUnder
<1> QED BY <1>4, <1>5, <1>6, KindsOfKeys

(* Custody.DeliveredVerifies: what one of the sign functions made verifies, *)
(* under its signer's key, at a recipient that has been given that key.     *)
THEOREM DeliverySound == Spec => []DeliveredVerifies
<1>1. Init => DeliveredVerifies
  BY DEF Init, DeliveredVerifies
<1>2. EnvelopeInv /\ GivenInv /\ DeliveredVerifies /\ [Next]_vars => DeliveredVerifies'
  <2> SUFFICES ASSUME EnvelopeInv, GivenInv, DeliveredVerifies, [Next]_vars
               PROVE  DeliveredVerifies'
    OBVIOUS
  <2>1. CASE verdict' = Absent
    BY <2>1 DEF DeliveredVerifies
  <2>2. CASE UNCHANGED <<wire, signed, verdict, given, trusted>>
    BY <2>2 DEF DeliveredVerifies
  <2>3. CASE \E k \in trusted : WithKey(k)
    <3>1. verdict'.entry # "pipeline"
      BY <2>3 DEF WithKey, Answer
    <3> QED BY <3>1 DEF DeliveredVerifies
  <2>4. ASSUME NEW table \in Tables, Pipeline(table) PROVE DeliveredVerifies'
    <3>1. SUFFICES ASSUME NEW k \in given, NEW u \in Unprotected, NEW m \in Payloads,
                          NEW p, p = build_protected_header(k.alg, KidOf(k)),
                          wire = Seal(k, p, u, m), verdict'.table.by_kid
                   PROVE  verdict'.result = "none" /\ verdict'.key = k
      BY <2>4, AnswersLeave DEF DeliveredVerifies
    <3>2. k \in Material /\ k \in trusted
      BY DEF GivenInv
    <3>3. wire.protected = p
      BY <3>1 DEF Seal
    <3>4. /\ HeaderError(wire.protected) = "none" /\ extract_alg_id(wire.protected) = k.alg
          /\ extract_kid(wire.protected) = KidOf(k)
      BY <3>1, <3>2, <3>3, OwnHeader
    <3>5. verdict'.table = table
      BY <2>4 DEF Pipeline, Answer
    <3>6. table.by_kid = TRUE /\ table.keys = trusted
      BY <3>1, <3>5 DEF Tables
    <3>7. KeysFor(wire, table) = {k}
      <4>1. \A l \in trusted : l.alg = k.alg /\ KidOf(l) = KidOf(k) => l = k
        BY <3>2, KidsDiffer DEF GivenInv
      <4> QED BY <3>2, <3>4, <3>6, <4>1 DEF KeysFor, Resolve
    <3>8. parse_cose_sign1(wire) /\ VerifyUnder(wire, k) = "none"
      BY <3>1, <3>2, OwnSealVerifies
    <3>9. Answer("pipeline", k, table, "Hybrid", "none")
      BY <2>4, <3>4, <3>7, <3>8 DEF Pipeline
    <3> QED BY <3>9 DEF Answer
  <2> QED BY <2>1, <2>2, <2>3, <2>4, VerdictKept
<1> QED BY <1>1, <1>2, EnvelopeInvAlways, GivenAlways, PTL DEF Spec

=============================================================================
