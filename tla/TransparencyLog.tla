-------------------------- MODULE TransparencyLog --------------------------
(* Binding a statement to a transparency log: the log grows and signs tree *)
(* heads, an author obtains a temporal anchor and signs it together with   *)
(* the payload, the envelope travels, and the verifier judges the anchor.  *)
EXTENDS MerkleTree, FiniteSets

CONSTANTS
  Entries,   \* what is submitted to the log, in order
  Contents,  \* payloads, without their anchor_hash
  Stamp,     \* the timestamp in each payload, or None
  None,
  MaxClock,  \* bound: time
  MaxHeads   \* bound: tree heads the log signs

(* What the log hashes: the payload without anchor_hash, or the BLAKE3 of  *)
(* the whole signed envelope.                                              *)
Entry == [of : Contents, kind : {"payload", "envelope"}]
content_hash(c) == [of |-> c, kind |-> "payload"]

ASSUME LogAssumption ==
  /\ Entries \in Seq(Entry)
  /\ Stamp \in [Contents -> Nat \cup {None}]
  /\ MaxClock \in Nat /\ MaxHeads \in Nat

VARIABLES
  when,    \* the time at which each entry was appended
  clock,
  heads,   \* the tree heads the log has signed
  stmt,    \* the envelope, None until it is signed
  bound,   \* ghost: the unprotected header its signer gave it
  verdict  \* "none" until the verifier has answered

vars == <<when, clock, heads, stmt, bound, verdict>>

Log == "log"      \* the log key the verifier trusts
Stranger == "stranger"

Leaves(n) == SubSeq(Entries, 1, n)
Root(n) == PaddedRoot(Leaves(n))
Path(n, i) == PaddedPath(Leaves(n), i)

(* The signature is over timestamp, tree_size and root_hash.               *)
TreeHead(key, ts, n) ==
  [log_pubkey |-> key, timestamp |-> ts, tree_size |-> n, root_hash |-> Root(n),
   signed |-> <<key, ts, n, Root(n)>>]

Proof(n, i, claimed) == [leaf_index |-> claimed, siblings |-> Path(n, i)]

----------------------------------------------------------------------------
(* The verifier: ct.rs and verify_temporal_anchor                          *)

HeadUnchecked(h) == h.log_pubkey = Log
verify_sth_signature(h) ==
  h.log_pubkey = Log /\ h.signed = <<h.log_pubkey, h.timestamp, h.tree_size, h.root_hash>>

IndexUnchecked(a, h) ==
  a.sth.tree_size > 0 /\ compute_root(a.proof, h) = a.sth.root_hash
verify_inclusion(a, h) ==
  /\ a.sth.tree_size > 0
  /\ a.proof.leaf_index < a.sth.tree_size
  /\ compute_root(a.proof, h) = a.sth.root_hash

(* The leaf is the payload as encoded without anchor_hash.                 *)
EncodedAsSigned(s) == IF s.anchor_hash = None THEN content_hash(s.content) ELSE s.anchor_hash
Stripped(s) == content_hash(s.content)

AadIgnored(s) == s.signed.payload = <<s.content, s.anchor_hash>>
(* The COSE signature covers the payload and, as external_aad, the BLAKE3  *)
(* of the unprotected header.                                              *)
SignatureOk(s) ==
  /\ s.signed.payload = <<s.content, s.anchor_hash>>
  /\ s.signed.external_aad = s.unprotected

AnchorOk(s) ==
  IF s.unprotected = None THEN s.anchor_hash = None
  ELSE LET a == s.unprotected
       IN /\ s.anchor_hash \in {None, a}
          /\ verify_sth_signature(a.sth)
          /\ verify_inclusion(a, Stripped(s))
          /\ Stamp[s.content] # None => a.sth.timestamp >= Stamp[s.content]

----------------------------------------------------------------------------

Init ==
  /\ when = <<>> /\ clock = 0 /\ heads = {}
  /\ stmt = None /\ bound = None /\ verdict = "none"

(* Bound: the log is left alone once the statement is signed, since the    *)
(* verifier never asks it anything.                                        *)
LogActs == stmt = None /\ UNCHANGED <<stmt, bound, verdict>>

Tick == LogActs /\ clock < MaxClock /\ clock' = clock + 1 /\ UNCHANGED <<when, heads>>

AppendLeaf ==
  /\ LogActs /\ Len(when) < Len(Entries)
  /\ when' = Append(when, clock) /\ UNCHANGED <<clock, heads>>

SignHead ==
  /\ LogActs /\ Cardinality(heads) < MaxHeads
  /\ heads' = heads \cup {TreeHead(Log, clock, Len(when))} /\ UNCHANGED <<when, clock>>

(* Tree heads at hand: those signed by the log, the same with a field      *)
(* altered on the way, and a head of the same tree by another log.         *)
Damaged(h) ==
  {h, [h EXCEPT !.timestamp = 0], [h EXCEPT !.tree_size = 2 * @],
   TreeHead(Stranger, h.timestamp, h.tree_size)}

(* An anchor file pairs a proof with a head: the proof may come from a     *)
(* smaller or larger tree, or claim another index.                         *)
Paths ==
  UNION {UNION {{Proof(n, i, j) : j \in {i, i + 1, i + Pow[Height(n)]}} : i \in 0..n - 1} :
           n \in 1..Len(when)}
AnchorFiles == [proof : Paths, sth : UNION {Damaged(h) : h \in heads}]

(* sign_ed25519 (a = None) and sign_ed25519_and_anchor.                    *)
SignStatement(c, a) ==
  /\ stmt' = [content |-> c, anchor_hash |-> a, unprotected |-> a,
              signed |-> [payload |-> <<c, a>>, external_aad |-> a]]
  /\ bound' = a

Sign ==
  /\ stmt = None
  /\ \E c \in Contents, a \in {None} \cup AnchorFiles : SignStatement(c, a)
  /\ UNCHANGED <<when, clock, heads, verdict>>

(* The unprotected header is replaced after signing, by no anchor or by    *)
(* one the log would have issued.                                          *)
Reissued ==
  UNION {{[proof |-> Proof(h.tree_size, i, i), sth |-> h] : i \in 0..h.tree_size - 1} :
           h \in heads}
Reattach ==
  /\ stmt # None /\ verdict = "none" /\ stmt.unprotected = bound
  /\ \E a \in {None} \cup Reissued :
       a # bound /\ stmt' = [stmt EXCEPT !.unprotected = a]
  /\ UNCHANGED <<when, clock, heads, bound, verdict>>

Verify ==
  /\ stmt # None /\ verdict = "none"
  /\ verdict' = IF SignatureOk(stmt) /\ AnchorOk(stmt) THEN "accepted" ELSE "rejected"
  /\ UNCHANGED <<when, clock, heads, stmt, bound>>

Next == Tick \/ AppendLeaf \/ SignHead \/ Sign \/ Reattach \/ Verify
Spec == Init /\ [][Next]_vars

----------------------------------------------------------------------------
(* Properties *)

Accepted == verdict = "accepted"
anchor == stmt.unprotected

(* Every variable keeps its type; the log's times never go back.           *)
TypeOK ==
  /\ when \in Seq(0..MaxClock) /\ Len(when) <= Len(Entries)
  /\ \A i, j \in 1..Len(when) : i <= j => when[i] <= when[j]
  /\ clock \in 0..MaxClock /\ verdict \in {"none", "accepted", "rejected"}
  /\ \A h \in heads : h.timestamp \in 0..clock /\ h.tree_size \in 0..Len(when)
  /\ stmt = None => bound = None /\ verdict = "none"

(* What an accepted anchor proves: the payload had been appended to the    *)
(* log by the time its tree head claims, that time has come, and it is     *)
(* not before the statement's own timestamp.                               *)
LoggedInTime ==
  Accepted /\ anchor # None =>
    /\ \E i \in 1..anchor.sth.tree_size :
         Entries[i] = content_hash(stmt.content) /\ when[i] <= anchor.sth.timestamp
    /\ anchor.sth.timestamp <= clock
    /\ Stamp[stmt.content] # None => Stamp[stmt.content] <= anchor.sth.timestamp

(* The index of an accepted proof is the position of the payload in the    *)
(* log, though nothing compares the path's length with the tree's size.    *)
IndexIsPosition ==
  Accepted /\ anchor # None =>
    Entries[anchor.proof.leaf_index + 1] = content_hash(stmt.content)

(* docs/protocol-spec.md:70, anchor_hash and external_aad: an accepted     *)
(* statement carries the unprotected header its signer gave it, be it one  *)
(* without an anchor.                                                      *)
AnchorAsSigned == Accepted => anchor = bound

(* An anchor the log issued: a head it signed and the path of one tree.    *)
Issued(a, entry) ==
  /\ a.sth \in heads
  /\ \E i \in 0..a.sth.tree_size - 1 :
       a.proof = Proof(a.sth.tree_size, i, i) /\ Entries[i + 1] = entry

(* An anchor the padded log issued for the payload, bound by the signer    *)
(* and untouched, is accepted, whatever the log has appended since. (Of an *)
(* RFC 9162 tree, shorter on the right, ct.rs rejects such anchors.)       *)
IssuedAnchorVerifies ==
  /\ verdict # "none" /\ bound # None /\ anchor = bound
  /\ Issued(anchor, content_hash(stmt.content))
  /\ Stamp[stmt.content] # None => Stamp[stmt.content] <= anchor.sth.timestamp
  => Accepted

=============================================================================
