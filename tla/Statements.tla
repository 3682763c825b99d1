---------------------------- MODULE Statements ----------------------------
(* The data every component of verax-core works on: a statement (a         *)
(* COSE_Sign1 envelope around a VeraxPayload) and its content address.     *)
(* A hash is a number; the statements that exist are the set Stmts of      *)
(* their own BLAKE3 hashes, and pool maps each hash to its content, so     *)
(* BLAKE3 is collision free by construction.                               *)
EXTENDS Naturals, Sequences, FiniteSets

CONSTANTS
  Stmts,     \* content hashes of the statements that exist
  Keys,      \* signing keys, named by their kid
  KidHash,   \* BLAKE3(kid) of every key
  None       \* Rust's Option::None

ASSUME StmtsAssumption == Stmts \subseteq Nat
ASSUME NoneAssumption == None \notin Nat /\ None \notin Keys
ASSUME KidHashAssumption ==
  /\ KidHash \in [Keys -> Nat]
  /\ \A k1, k2 \in Keys : KidHash[k1] = KidHash[k2] => k1 = k2

Hash == Nat
Time == Nat
Opt(S) == S \cup {None}

Predicate == {"attests", "authors", "derived_from", "supersedes", "revokes",
              "endorses", "appends", "complies_with", "recovers"}
Algorithm == {"ed25519", "composite", "mldsa65"}

(* What parsing the bytes yields. "malformed": no COSE payload can be      *)
(* extracted; "undecodable": the payload is no VeraxPayload;               *)
(* "noncanonical": it decodes but re-encodes differently; "badheader": the *)
(* protected header is not in canonical order; "badalg": unknown algorithm *)
(* or a kid of the wrong kind for it.                                      *)
Form == {"ok", "malformed", "undecodable", "noncanonical", "badheader", "badalg"}

(* A CT anchor: the log that signed the tree head, whether its signature   *)
(* and the inclusion proof check out, and the tree head's timestamp.       *)
Anchor == [log : Nat, signed : BOOLEAN, included : BOOLEAN, ts : Time]

(* A recovery policy is the list of guardians, or bytes that do not decode. *)
RecoveryPolicy == [ok : BOOLEAN, guardians : SUBSET Hash]

Statement ==
  [form : Form, alg : Algorithm, kid : Keys, signer : Opt(Keys),
   predicate : Predicate, subject : Hash, object : Opt(Hash),
   timestamp : Opt(Time), lineage : Opt(Hash), nonce : BOOLEAN,
   anchor_hash : {"none", "match", "mismatch"},
   recovery_policy : Opt(RecoveryPolicy), anchor : Opt(Anchor)]

(* verify.rs "Validate object field for binary-relationship predicates".   *)
ObjectRequired(s) ==
  \/ s.predicate \in {"derived_from", "supersedes", "revokes", "complies_with"}
  \/ s.predicate = "appends" /\ s.lineage # None

(* A hash can only be embedded in a statement once the hashed statement    *)
(* exists: lineage goes from a later statement to an earlier one.          *)
HashesPrecede(pool) ==
  \A s \in DOMAIN pool : pool[s].lineage \in Stmts => pool[s].lineage < s

=============================================================================
