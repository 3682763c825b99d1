----------------------------- MODULE Shredding -----------------------------
(* Cryptographic shredding (shred.rs): encryption under a shredding key,    *)
(* commitments, transport of a key by HPKE, erasure and its record, and the *)
(* consent payload. A ciphertext is known by its key and text: the nonce    *)
(* drawn for each is left out, no property tells two encryptions apart.     *)
EXTENDS Naturals, Sequences, FiniteSets

CONSTANTS
  ShredKeys,   \* the 32-byte keys that may be drawn
  BadLength,   \* bytes of any other length
  Texts,       \* plaintexts
  Programs,    \* the programs that hold keys
  Absent       \* no value

ASSUME ShreddingAssumption ==
  /\ BadLength \notin ShredKeys /\ Absent \notin ShredKeys \cup {BadLength}
  /\ Absent \notin Programs

(* The result of a call: the error code it maps to, 0 for none, and the     *)
(* byte strings it returns.                                                 *)
Ok(outs) == [code |-> 0, outs |-> outs]
Err(code) == [code |-> code, outs |-> <<>>]

Ciphertext == [key : ShredKeys, text : Texts]
Commitment == [of : Ciphertext]
Plaintext == [plain : Texts]

from_bytes(bytes) == bytes \in ShredKeys

encrypt_pii(key, text) ==
  IF ~from_bytes(key) THEN Err(11) ELSE Ok(<<[key |-> key, text |-> text]>>)

decrypt_pii(key, ct) ==
  IF ~from_bytes(key) \/ key # ct.key THEN Err(11) ELSE Ok(<<[plain |-> ct.text]>>)

hash_ciphertext(ct) == [of |-> ct]

shredding_commit(key, text) ==
  LET sealed == encrypt_pii(key, text)
  IN IF sealed.code # 0 THEN sealed
     ELSE Ok(<<sealed.outs[1], hash_ciphertext(sealed.outs[1])>>)

----------------------------------------------------------------------------
(* A key wrapped for the holder of an HPKE private key *)

Wrapped == [to : Programs, key : ShredKeys]

hpke_encrypt_key(to, key) == [to |-> to, key |-> key]

(* A recipient opens it with the private key it has, Absent if none.        *)
OpenWithAny(sk, w) == w.key
hpke_decrypt_key(sk, w) == IF sk = w.to THEN w.key ELSE Absent

----------------------------------------------------------------------------
(* Erasure *)

ErasureRecord == [key_id : ShredKeys, ciphertext_commitment : Commitment]

(* The copies of key that are left when the call drops the one it is given. *)
NothingDropped(copies) == copies
AfterDrop(copies) == copies - 1

(* The record names whatever ciphertext the caller passes.                  *)
erasure_protocol(key, ct) ==
  [key_id |-> key, ciphertext_commitment |-> hash_ciphertext(ct)]

----------------------------------------------------------------------------
(* Consent *)

(* A payload as far as it matters here: predicate and presence of object.   *)
Payload == [predicate : 0..8, object : BOOLEAN]

create_consent_payload == [predicate |-> 7, object |-> FALSE]

(* The statement of verax consent is about a consent payload, and its       *)
(* object is the policy.                                                    *)
ConsentAsIs == create_consent_payload
consent_statement == [create_consent_payload EXCEPT !.object = TRUE]

=============================================================================
