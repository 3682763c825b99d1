------------------------------ MODULE Envelope ------------------------------
(* The COSE_Sign1 envelope: what cose.rs builds, parses and verifies, and   *)
(* the checks of verify.rs on its protected header. Everything here is a    *)
(* function of the bytes, so the module has operators and no variables.     *)
(* Bytes are abstract: a kid is its length, whether it is a BLAKE3 hash,    *)
(* and the public keys it is made of; a signature is the scheme, the key    *)
(* and the Sig_structure it was made over, so only its owner can make it.   *)
EXTENDS Integers, Sequences, FiniteSets

CONSTANTS
  EdKeys,       \* Ed25519 key pairs
  MlKeys,       \* ML-DSA-65 key pairs
  Payloads,     \* payload bytes
  Unprotected,  \* unprotected headers
  EmptyMap,     \* 0xa0, the unprotected header of the plain signers
  OnCurve,      \* whether a hash used as a kid decodes as a curve point
  Absent        \* Rust's Option::None

ASSUME EnvelopeAssumption ==
  /\ EmptyMap \in Unprotected /\ OnCurve \in BOOLEAN
  /\ Absent \notin EdKeys \cup MlKeys /\ EdKeys \cap MlKeys = {}

----------------------------------------------------------------------------
(* Keys and their identifiers *)

Ed(e)           == [alg |-> -8,  ed |-> e,      ml |-> Absent]
MlDsa65(m)      == [alg |-> -38, ed |-> Absent, ml |-> m]
Composite(e, m) == [alg |-> -39, ed |-> e,      ml |-> m]
Material == {Ed(e) : e \in EdKeys} \cup {MlDsa65(m) : m \in MlKeys}
            \cup {Composite(e, m) : e \in EdKeys, m \in MlKeys}

(* Public key bytes, in the order the caller concatenates them.             *)
Bytes == Seq(EdKeys \cup MlKeys)
Kid == [len : Nat, hashed : BOOLEAN, of : Bytes]
NoKid       == [len |-> 0,    hashed |-> FALSE, of |-> <<>>]
EdKid(e)    == [len |-> 32,   hashed |-> FALSE, of |-> <<e>>]
MlKid(m)    == [len |-> 1952, hashed |-> FALSE, of |-> <<m>>]
Blake3(pk)  == [len |-> 32,   hashed |-> TRUE,  of |-> pk]

(* The kid each signer writes: the key itself, or the hash of the Ed25519   *)
(* key followed by the ML-DSA one.                                          *)
KidOf(k) == IF k.alg = -39 THEN Blake3(<<k.ed, k.ml>>)
            ELSE IF k.alg = -38 THEN MlKid(k.ml) ELSE EdKid(k.ed)

----------------------------------------------------------------------------
(* The protected header: a CBOR map as the sequence of its entries. whole   *)
(* is FALSE when the map is cut short or followed by further bytes.         *)

Entry == [key : Nat, alg : Int, kid : Kid]
AlgEntry(a) == [key |-> 1, alg |-> a, kid |-> NoKid]
KidEntry(k) == [key |-> 4, alg |-> 0, kid |-> k]
Protected == [entries : Seq(Entry), whole : BOOLEAN]

build_protected_header(alg, kid) ==
  [entries |-> <<AlgEntry(alg), KidEntry(kid)>>, whole |-> TRUE]

(* The first entry of a key is the one that is read.                        *)
At(p, key) == {i \in DOMAIN p.entries : p.entries[i].key = key}
First(p, key) == CHOOSE i \in At(p, key) : \A j \in At(p, key) : i <= j
HasAlg(p) == At(p, 1) # {}
HasKid(p) == At(p, 4) # {}
extract_alg_id(p) == p.entries[First(p, 1)].alg
extract_kid(p)    == p.entries[First(p, 4)].kid

RepeatedKeysAllowed(p) ==
  /\ p.whole
  /\ \A i, j \in DOMAIN p.entries : i < j => p.entries[i].key <= p.entries[j].key
  /\ \A i \in DOMAIN p.entries : p.entries[i].key > 0

(* Keys strictly increase from above 0 and nothing follows the map.         *)
check_protected_header_determinism(p) ==
  /\ p.whole
  /\ \A i, j \in DOMAIN p.entries : i < j => p.entries[i].key < p.entries[j].key
  /\ \A i \in DOMAIN p.entries : p.entries[i].key > 0

(* An Ed25519 kid is a point, a composite one 32 bytes, an ML-DSA one 1952. *)
validate_algorithm_kid_binding(alg, kid) ==
  \/ alg = -8 /\ kid.len = 32 /\ (kid.hashed => OnCurve)
  \/ alg = -39 /\ kid.len = 32
  \/ alg = -38 /\ kid.len = 1952

(* The header checks both verify_statement's make, in their order.          *)
HeaderError(p) ==
  IF ~check_protected_header_determinism(p) THEN "MalformedCose"
  ELSE IF ~HasAlg(p) \/ ~HasKid(p) THEN "Crypto"
  ELSE IF ~validate_algorithm_kid_binding(extract_alg_id(p), extract_kid(p)) THEN "Crypto"
  ELSE "none"

----------------------------------------------------------------------------
(* Signatures: one half each of the two schemes. Ed25519ph, the composite's *)
(* classical half, hashes the message under the context string first, so    *)
(* it is a scheme of its own.                                               *)

SigStructure == [protected : Protected, aad : Unprotected, payload : Payloads]
build_sig_structure(p, u, m) == [protected |-> p, aad |-> u, payload |-> m]
Scheme == {"ed25519", "ed25519ph", "mldsa65"}
Half == [scheme : Scheme, key : EdKeys \cup MlKeys, msg : SigStructure]
EdSig(e, msg)   == [scheme |-> "ed25519",   key |-> e, msg |-> msg]
EdPhSig(e, msg) == [scheme |-> "ed25519ph", key |-> e, msg |-> msg]
MlSig(m, msg)   == [scheme |-> "mldsa65",   key |-> m, msg |-> msg]
HalfLen(h) == IF h.scheme = "mldsa65" THEN 3309 ELSE 64

(* The bytes of the signature field: the composite has ML-DSA first.        *)
EdHalfFirst(e, m, msg) == <<EdPhSig(e, msg), MlSig(m, msg)>>
composite_sign(e, m, msg) == <<MlSig(m, msg), EdPhSig(e, msg)>>
SignatureOf(k, msg) == IF k.alg = -39 THEN composite_sign(k.ed, k.ml, msg)
                       ELSE IF k.alg = -38 THEN <<MlSig(k.ml, msg)>>
                       ELSE <<EdSig(k.ed, msg)>>

(* A half is accepted where the bytes stand, under one key, for one message.*)
HalfValid(sig, i, h) == sig[i] = h

(* Both halves in Hybrid mode, one in the migration modes.                  *)
composite_verify(ed, ml, msg, sig, mode) ==
  IF mode # "PQOnly" /\ ~HalfValid(sig, 2, EdPhSig(ed, msg)) THEN "InvalidSignature"
  ELSE IF mode # "ClassicalOnly" /\ ~HalfValid(sig, 1, MlSig(ml, msg)) THEN "InvalidSignature"
  ELSE "none"

----------------------------------------------------------------------------
(* The envelope *)

(* How its outermost bytes look: CBOR tag 98, none or another one, an array *)
(* of another length, an unprotected header that is no map, a truncation.   *)
Frame == {"tag98", "untagged", "othertag", "arity", "nomap", "cut"}
Sealed == [frame : Frame, tail : BOOLEAN, protected : Protected,
           unprotected : Unprotected, payload : Payloads, signature : Seq(Half)]

(* parse_cose_sign1: the tag is optional, and whatever follows the          *)
(* signature (tail) is not looked at.                                       *)
parse_cose_sign1(env) == env.frame \in {"tag98", "untagged"}

AadIgnored(env) == build_sig_structure(env.protected, EmptyMap, env.payload)
ToVerify(env) == build_sig_structure(env.protected, env.unprotected, env.payload)

parse_and_verify_ed25519(env, e) ==
  IF ~parse_cose_sign1(env) THEN "MalformedCose"
  ELSE IF Len(env.signature) # 1 \/ HalfLen(env.signature[1]) # 64 THEN "MalformedCose"
  ELSE IF ~HalfValid(env.signature, 1, EdSig(e, ToVerify(env))) THEN "Crypto"
  ELSE "none"

(* CompositeSignature::from_bytes wants 3373 bytes and cuts them at 3309.   *)
FromBytes(sig) ==
  Len(sig) = 2 /\ HalfLen(sig[1]) + HalfLen(sig[2]) = 3373

parse_and_verify_composite(env, e, m, mode) ==
  IF ~parse_cose_sign1(env) THEN "MalformedCose"
  ELSE IF ~FromBytes(env.signature) THEN "Crypto"
  ELSE composite_verify(e, m, ToVerify(env), env.signature, mode)

parse_and_verify_mldsa65_only(env, m) ==
  IF ~parse_cose_sign1(env) THEN "MalformedCose"
  ELSE IF Len(env.signature) # 1 \/ HalfLen(env.signature[1]) # 3309 THEN "Crypto"
  ELSE IF ~HalfValid(env.signature, 1, MlSig(m, ToVerify(env))) THEN "InvalidSignature"
  ELSE "none"

(* verify_statement_ed25519: header checks, then the caller's key.          *)
verify_statement_ed25519(env, e) ==
  IF ~parse_cose_sign1(env) THEN "MalformedCose"
  ELSE IF HeaderError(env.protected) # "none" THEN HeaderError(env.protected)
  ELSE parse_and_verify_ed25519(env, e)

(* A trust store as far as keys go: the keys it can answer with, and        *)
(* whether it looks at the kid it is asked for. The stores of the command   *)
(* line and of the bindings hold the caller's key and answer any kid.       *)
KeyTable == [by_kid : BOOLEAN, keys : SUBSET Material]
Resolve(table, alg, kid) ==
  {k \in table.keys : k.alg = alg /\ (table.by_kid => KidOf(k) = kid)}

(* The signature part of verify_statement_with_warnings: the algorithm of   *)
(* the header decides which key is looked up and which scheme is verified.  *)
VerifyUnder(env, k) ==
  IF k.alg = -8 THEN parse_and_verify_ed25519(env, k.ed)
  ELSE IF k.alg = -39 THEN parse_and_verify_composite(env, k.ed, k.ml, "Hybrid")
  ELSE parse_and_verify_mldsa65_only(env, k.ml)

KeysFor(env, table) ==
  Resolve(table, extract_alg_id(env.protected), extract_kid(env.protected))

(* What a signer emits over a payload and an unprotected header: sign_*     *)
(* with the key's own kid and algorithm in the header.                      *)
Seal(k, p, u, m) ==
  [frame |-> "tag98", tail |-> FALSE, protected |-> p, unprotected |-> u,
   payload |-> m, signature |-> SignatureOf(k, build_sig_structure(p, u, m))]
sign_with_unprotected(k, m, u) == Seal(k, build_protected_header(k.alg, KidOf(k)), u, m)

=============================================================================
