------------------------------ MODULE Custody ------------------------------
(* Statements from signer to verifier: applications sign with keys of their *)
(* own or through references to the key store, envelopes travel and may     *)
(* arrive damaged or with their parts mixed up, and a recipient that has    *)
(* been given public keys verifies what arrives at one of the entry points  *)
(* of the crate.                                                            *)
EXTENDS KeyStore

CONSTANTS
  OwnKeys,   \* keys applications hold themselves and pass to sign_*
  Headers,   \* protected headers other producers write around a signature
  MaxSent    \* bound: envelopes sent

ASSUME CustodyAssumption ==
  OwnKeys \subseteq Material /\ Headers \subseteq Protected /\ MaxSent \in Nat

VARIABLES
  trusted,  \* keys the recipient has read from the bytes it was given
  given,    \* ghost: the keys whose bytes it was given
  sent,     \* envelopes sent
  signed,   \* ghost: who signed what
  wire,     \* the envelope that arrived, Absent if none
  verdict   \* what the entry point answered for it, Absent if not asked

vars == <<store, trusted, given, sent, signed, wire, verdict>>

Signature == [key : Material, msg : SigStructure]
Accepted == verdict # Absent /\ verdict.result = "none"

Init ==
  /\ StoreInit
  /\ trusted = OwnKeys /\ given = OwnKeys
  /\ sent = {} /\ signed = {} /\ wire = Absent /\ verdict = Absent

Quiet == UNCHANGED <<trusted, given, sent, signed, wire, verdict>>

(* The composition with the key store: its own steps.                       *)
StoreStep == wire = Absent /\ StoreNext /\ Quiet

(* The recipient is given a key's public bytes and reads them back.         *)
KeyFrom(alg, pk) ==
  IF alg = -39 THEN Composite(pk[1], pk[2])
  ELSE IF alg = -38 THEN MlDsa65(pk[1]) ELSE Ed(pk[1])

Publish(r) ==
  /\ wire = Absent /\ r \in refs /\ is_valid(r)
  /\ LET k == KeyFrom(keys[r.kid].alg, public_key(keys[r.kid]))
     IN k \notin trusted /\ trusted' = trusted \cup {k}
  /\ given' = given \cup {keys[r.kid]}
  /\ UNCHANGED <<store, sent, signed, wire, verdict>>

Send(k, p, u, m) ==
  /\ wire = Absent /\ Cardinality(sent) < MaxSent
  /\ sent' = sent \cup {Seal(k, p, u, m)}
  /\ signed' = signed \cup {[key |-> k, msg |-> build_sig_structure(p, u, m)]}
  /\ UNCHANGED <<store, trusted, given, wire, verdict>>

(* sign_ed25519, sign_composite and their _with_unprotected forms, and      *)
(* sign_mldsa65_only, which has none: the header is the key's own.          *)
Sign(k, u, m) ==
  /\ k.alg = -38 => u = EmptyMap
  /\ Send(k, build_protected_header(k.alg, KidOf(k)), u, m)

(* A producer that signs through a reference builds the envelope itself and *)
(* may write a header the crate would not; anchoring takes the raw key, so  *)
(* its unprotected header is empty.                                         *)
SignStored(r, m) ==
  /\ r \in refs /\ is_valid(r)
  /\ LET k == keys[r.kid]
     IN \E p \in Headers \cup {build_protected_header(k.alg, KidOf(k))} : Send(k, p, EmptyMap, m)

(* What may become of envelope e on its way: the frame or the protected     *)
(* header is damaged, bytes are appended; one of its parts or one signature *)
(* half is that of another envelope d; a half is lost.                      *)
Spoilt(e) ==
  {[e EXCEPT !.frame = f] : f \in {"untagged", "cut"}}
  \cup {[e EXCEPT !.tail = TRUE], [e EXCEPT !.protected.whole = FALSE]}
Mixed(e, d) ==
  {[e EXCEPT !.protected = d.protected], [e EXCEPT !.unprotected = d.unprotected],
   [e EXCEPT !.payload = d.payload], [e EXCEPT !.signature = d.signature]}
Spliced(e, d) ==
  {[e EXCEPT !.signature[i] = d.signature[j]] : i \in DOMAIN e.signature, j \in DOMAIN d.signature}
Halved(e) == {[e EXCEPT !.signature = <<e.signature[i]>>] : i \in DOMAIN e.signature}

Damaged(e) == Spoilt(e) \cup Halved(e) \cup UNION {Mixed(e, d) \cup Spliced(e, d) : d \in sent}

Arrive ==
  /\ wire = Absent
  /\ \E e \in sent : wire' \in {e} \cup Damaged(e)
  /\ UNCHANGED <<store, trusted, given, sent, signed, verdict>>

Answer(entry, k, table, mode, result) ==
  /\ wire # Absent /\ verdict = Absent
  /\ verdict' = [entry |-> entry, key |-> k, table |-> table, mode |-> mode,
                 result |-> result]
  /\ UNCHANGED <<store, trusted, given, sent, signed, wire>>

(* The entry points that take the key: no header is looked at, except by    *)
(* verify_statement_ed25519.                                                *)
WithKey(k) ==
  LET none == [by_kid |-> FALSE, keys |-> {}] IN
  \/ /\ k.alg = -8
     /\ \/ Answer("parse_and_verify", k, none, "Hybrid", parse_and_verify_ed25519(wire, k.ed))
        \/ Answer("statement_ed25519", k, none, "Hybrid", verify_statement_ed25519(wire, k.ed))
  \/ /\ k.alg = -39
     /\ \E mode \in {"Hybrid", "ClassicalOnly", "PQOnly"} :
          Answer("parse_and_verify", k, none, mode,
                 parse_and_verify_composite(wire, k.ed, k.ml, mode))
  \/ /\ k.alg = -38
     /\ Answer("parse_and_verify", k, none, "Hybrid", parse_and_verify_mldsa65_only(wire, k.ml))

(* The pipeline against a store: one that files keys by kid, or one that    *)
(* holds a single key and answers every kid with it.                        *)
Tables == {[by_kid |-> TRUE, keys |-> trusted]}
          \cup {[by_kid |-> FALSE, keys |-> {k}] : k \in trusted}

Pipeline(table) ==
  /\ wire # Absent
  /\ LET refused(e) == Answer("pipeline", Absent, table, "Hybrid", e)
     IN IF ~parse_cose_sign1(wire) THEN refused("MalformedCose")
        ELSE IF HeaderError(wire.protected) # "none"
        THEN refused(HeaderError(wire.protected))
        ELSE IF KeysFor(wire, table) = {} THEN refused("Crypto")
        ELSE \E k \in KeysFor(wire, table) :
               Answer("pipeline", k, table, "Hybrid", VerifyUnder(wire, k))

(* The recipient is done with this envelope.                                *)
Done ==
  /\ verdict # Absent
  /\ wire' = Absent /\ verdict' = Absent
  /\ UNCHANGED <<store, trusted, given, sent, signed>>

Next ==
  \/ StoreStep
  \/ \E r \in refs : Publish(r)
  \/ \E k \in OwnKeys, u \in Unprotected, m \in Payloads : Sign(k, u, m)
  \/ \E r \in refs, m \in Payloads : SignStored(r, m)
  \/ Arrive
  \/ \E k \in trusted : WithKey(k)
  \/ \E table \in Tables : Pipeline(table)
  \/ Done

Spec == Init /\ [][Next]_vars

----------------------------------------------------------------------------
(* Properties *)

Verdict == [entry : {"parse_and_verify", "statement_ed25519", "pipeline"},
            key : Material \cup {Absent}, table : KeyTable,
            mode : {"Hybrid", "ClassicalOnly", "PQOnly"},
            result : {"none", "MalformedCose", "Crypto", "InvalidSignature"}]

(* Every variable keeps its type; only a recipient asks for verdicts.       *)
TypeOK ==
  /\ \A k \in DOMAIN keys : k \in Kid /\ keys[k] \in Material
  /\ refs \subseteq KeyReference
  /\ issued \subseteq [ref : KeyReference, material : Material]
  /\ trusted \subseteq Material /\ given \subseteq Material
  /\ sent \subseteq Sealed /\ signed \subseteq Signature
  /\ wire \in Sealed \cup {Absent} /\ verdict \in Verdict \cup {Absent}
  /\ verdict # Absent => wire # Absent

(* Somebody made half h as part of a signature over its message.            *)
Made(h) == \E s \in signed : \E i \in DOMAIN SignatureOf(s.key, s.msg) :
             SignatureOf(s.key, s.msg)[i] = h

(* Whatever entry point accepts an envelope under a key, that key's owner   *)
(* signed exactly its protected header, unprotected header and payload, in  *)
(* that key's own scheme; for a composite key the owners of both halves     *)
(* did, or of the one half a migration mode asks for (cose.rs).             *)
AcceptedAsSigned ==
  Accepted =>
    LET k == verdict.key
        msg == build_sig_structure(wire.protected, wire.unprotected, wire.payload)
    IN /\ k.alg = -8  => Made(EdSig(k.ed, msg))
       /\ k.alg = -38 => Made(MlSig(k.ml, msg))
       /\ k.alg = -39 => /\ verdict.mode # "PQOnly" => Made(EdPhSig(k.ed, msg))
                         /\ verdict.mode # "ClassicalOnly" => Made(MlSig(k.ml, msg))

(* Against a store that files keys by kid, the header of an accepted        *)
(* statement names the key that verified it to every reader, whichever of   *)
(* several entries a reader would take (check_protected_header_determinism, *)
(* validate_algorithm_kid_binding).                                         *)
HeaderNamesKey ==
  Accepted /\ verdict.entry = "pipeline" /\ verdict.table.by_kid =>
    \A i \in DOMAIN wire.protected.entries :
      LET e == wire.protected.entries[i]
      IN /\ e.key = 1 => e.alg = verdict.key.alg
         /\ e.key = 4 => e.kid = KidOf(verdict.key)

(* An envelope made by one of the sign functions and delivered unharmed is  *)
(* accepted by a recipient that has been given its signer's public bytes,   *)
(* so signer, key export and verifier agree on kid and layout.              *)
DeliveredVerifies ==
  \A k \in given, u \in Unprotected, m \in Payloads :
    /\ wire = Seal(k, build_protected_header(k.alg, KidOf(k)), u, m)
    /\ verdict # Absent /\ verdict.entry = "pipeline"
    /\ verdict.table.by_kid
    => verdict.result = "none" /\ verdict.key = k

=============================================================================
