------------------------------ MODULE KeyStore ------------------------------
(* SoftwareKeyStore of hsm.rs: keys are generated inside the store, and the *)
(* protocol holds references to them, a kid and an algorithm. References    *)
(* are values that outlive the key: a key may be deleted while copies of    *)
(* its reference are held, and be generated or listed again later.          *)
EXTENDS Envelope

CONSTANTS
  Generable,  \* bound: the material the random source may yield
  MaxIssued   \* bound: keys the store ever issues a reference for

VARIABLES
  keys,    \* the store's BTreeMap, from kid to key material
  refs,    \* references held by callers
  issued   \* ghost: what every reference was issued for

store == <<keys, refs, issued>>

Algorithm == {-8, -38, -39}
KeyReference == [kid : Kid, algorithm : Algorithm]
ZeroKid == [len |-> 32, hashed |-> FALSE, of |-> <<>>]
ASSUME KeyStoreAssumption == Generable \subseteq Material /\ MaxIssued \in Nat

(* The store's kid is the BLAKE3 of the public key bytes; of a composite it *)
(* hashes ML-DSA first, unlike the kid of an envelope.                      *)
KidOfLastHalf(m) == Blake3(<<IF m.ml # Absent THEN m.ml ELSE m.ed>>)
StoreKid(m) == Blake3(IF m.alg = -39 THEN <<m.ml, m.ed>>
                      ELSE IF m.alg = -38 THEN <<m.ml>> ELSE <<m.ed>>)
RefOf(m) == [kid |-> StoreKid(m), algorithm |-> m.alg]

is_valid(r) == r.kid \in DOMAIN keys

(* The bytes public_key exports: a composite's Ed25519 key first.           *)
public_key(m) == IF m.alg = -39 THEN <<m.ed, m.ml>>
                 ELSE IF m.alg = -38 THEN <<m.ml>> ELSE <<m.ed>>

list_keys == {[kid |-> k, algorithm |-> keys[k].alg] : k \in DOMAIN keys}

StoreInit == keys = <<>> /\ refs = {} /\ issued = {}

(* Fresh material from the system's random source. A kid already present    *)
(* is a key collision and changes nothing.                                  *)
generate(m) ==
  /\ Cardinality(issued \cup {[ref |-> RefOf(m), material |-> m]}) <= MaxIssued
  /\ StoreKid(m) \notin DOMAIN keys
  /\ keys' = [k \in DOMAIN keys \cup {StoreKid(m)} |->
                IF k = StoreKid(m) THEN m ELSE keys[k]]
  /\ refs' = refs \cup {RefOf(m)}
  /\ issued' = issued \cup {[ref |-> RefOf(m), material |-> m]}

(* Deleting drops the material; references to it stay where they are.       *)
delete(r) ==
  /\ r \in refs /\ is_valid(r)
  /\ keys' = [k \in DOMAIN keys \ {r.kid} |-> keys[k]]
  /\ UNCHANGED <<refs, issued>>

(* A caller that lost its references asks for those of the live keys.       *)
relist ==
  /\ list_keys \ refs # {}
  /\ refs' = refs \cup list_keys
  /\ UNCHANGED <<keys, issued>>

(* KeyReference::zeroize: the holder's kid becomes zero.                    *)
zeroize(r) ==
  /\ r \in refs /\ r.kid # ZeroKid
  /\ refs' = (refs \ {r}) \cup {[r EXCEPT !.kid = ZeroKid]}
  /\ UNCHANGED <<keys, issued>>

StoreNext ==
  \/ \E m \in Generable : generate(m)
  \/ \E r \in refs : delete(r) \/ zeroize(r)
  \/ relist

(* A reference means one key for ever: whatever was deleted, regenerated or *)
(* listed since, the key found under it is the one it was issued for, and   *)
(* a reference nobody was issued finds none (SecureKeyStore, hsm.rs).       *)
ReferenceDenotesOneKey ==
  \A r \in refs : is_valid(r) =>
    /\ \E i \in issued : i.ref = r
    /\ \A i \in issued : i.ref.kid = r.kid =>
         i.material = keys[r.kid] /\ i.ref.algorithm = r.algorithm

=============================================================================
