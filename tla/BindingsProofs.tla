--------------------------- MODULE BindingsProofs ---------------------------
(* What Bindings promises, for any number of programs, keys and copies: the *)
(* fate of shredding keys, then the buffers of the FFI (one version string, *)
(* one owner of every buffer, all results or none, whichever allocations    *)
(* fail), and what a verifier says of consent.                              *)
EXTENDS Bindings, FiniteSetTheorems, TLAPS

USE ShreddingAssumption

(* The steps that change nothing a key's fate depends on.                   *)
CallSteps ==
  /\ UNCHANGED <<held, alive, wraps, records, born, spread>>

LEMMA CallsKeepKeys == CallStep => CallSteps
<1> SUFFICES ASSUME CallStep PROVE CallSteps
  OBVIOUS
<1> USE DEF CallSteps, keyVars
<1>1. CASE \E s \in SignKeys : Consent(s)  BY <1>1 DEF Consent
<1>2. CASE CreateConsent  BY <1>2 DEF CreateConsent
<1>3. CASE \E p \in Programs : \E r \in Requests(p) : CallFfi(p, r) \/ CallDirect(p, r)
  BY <1>3 DEF CallFfi, CallDirect
<1>4. CASE \E p \in Programs : MakeCopy(p) \/ Take(p)  BY <1>4 DEF MakeCopy, Take
<1>5. CASE \E p \in Programs : LoadVersion(p) \/ PublishVersion(p)
  BY <1>5 DEF LoadVersion, PublishVersion
<1>6. CASE \E p \in Programs, F \in Decodable : Decode(p, F)  BY <1>6 DEF Decode
<1>7. CASE \E p \in Programs : DoneReading(p)  BY <1>7 DEF DoneReading
<1> QED BY <1>1, <1>2, <1>3, <1>4, <1>5, <1>6, <1>7 DEF CallStep

----------------------------------------------------------------------------
(* The invariant of the keys. A key that was never copied or wrapped is in  *)
(* one place: at most one program holds it, once, and once erased nobody.   *)

KeysTyped ==
  /\ held \in [Programs -> [ShredKeys -> Nat]]
  /\ wraps \subseteq Wrapped /\ records \subseteq ErasureRecord /\ born \subseteq ShredKeys

HeldIsBorn == \A p \in Programs, k \in ShredKeys : Holds(p, k) => k \in born
WrappedIsSpread == \A w \in wraps : w.key \in spread \cap born
OnePlace ==
  \A p, q \in Programs, k \in ShredKeys :
    k \notin spread /\ Holds(p, k) /\ Holds(q, k) => p = q /\ held[p][k] = 1
ErasedIsGone ==
  \A r \in records :
    /\ r.key_id \in born
    /\ r.key_id \notin spread => \A p \in Programs : ~Holds(p, r.key_id)

KeyInv == KeysTyped /\ HeldIsBorn /\ WrappedIsSpread /\ OnePlace /\ ErasedIsGone

LEMMA KeyInvInit == Init => KeyInv
BY DEF Init, KeyInv, KeysTyped, HeldIsBorn, WrappedIsSpread, OnePlace, ErasedIsGone, Holds

(* hpke_decrypt_key: what a program unwraps was wrapped for it.             *)
LEMMA UnwrapsOwn ==
  ASSUME KeysTyped, NEW p \in Programs, NEW w \in wraps, Unwrap(p, w)
  PROVE  /\ p \in alive /\ w.to = p /\ w.key \in ShredKeys
         /\ held' = [held EXCEPT ![p][w.key] = @ + 1]
         /\ UNCHANGED <<alive, wraps, records, born, spread>>
BY DEF KeysTyped, Unwrap, hpke_decrypt_key, Wrapped

LEMMA KeyInvInductive == KeyInv /\ [Next]_vars => KeyInv'
<1> SUFFICES ASSUME KeyInv, [Next]_vars PROVE KeyInv'
  OBVIOUS
<1> USE DEF KeyInv, KeysTyped, HeldIsBorn, WrappedIsSpread, OnePlace, ErasedIsGone, Holds
<1>1. ASSUME NEW p \in Programs, NEW k \in ShredKeys, Generate(p, k) PROVE KeyInv'
  BY <1>1 DEF Generate
<1>2. ASSUME NEW p \in Programs, NEW k \in ShredKeys, DropKey(p, k) PROVE KeyInv'
  BY <1>2 DEF DropKey
<1>3. ASSUME NEW p \in Programs, NEW q \in Programs, NEW k \in ShredKeys, Copy(p, q, k)
      PROVE  KeyInv'
  BY <1>3 DEF Copy
<1>4. ASSUME NEW p \in Programs, NEW q \in Programs, NEW k \in ShredKeys, Wrap(p, q, k)
      PROVE  KeyInv'
  BY <1>4 DEF Wrap, hpke_encrypt_key, Wrapped
<1>5. ASSUME NEW p \in Programs, NEW w \in wraps, Unwrap(p, w) PROVE KeyInv'
  <2>1. /\ w.to = p /\ p \in alive /\ w.key \in ShredKeys /\ w.key \in spread \cap born
        /\ held' = [held EXCEPT ![p][w.key] = @ + 1]
        /\ UNCHANGED <<alive, wraps, records, born, spread>>
    BY <1>5, UnwrapsOwn
  <2>2. \A q \in Programs, k \in ShredKeys : k # w.key => held'[q][k] = held[q][k]
    BY <2>1
  <2>3. KeysTyped' /\ WrappedIsSpread'
    BY <2>1
  <2>4. HeldIsBorn'
    BY <2>1, <2>2
  <2>5. OnePlace' /\ ErasedIsGone'
    BY <2>1, <2>2
  <2> QED BY <2>3, <2>4, <2>5
<1>6. ASSUME NEW p \in Programs, LosePrivateKey(p) PROVE KeyInv'
  BY <1>6 DEF LosePrivateKey
<1>7. ASSUME NEW p \in Programs, NEW k \in ShredKeys, NEW ct \in Ciphertext, Erase(p, k, ct)
      PROVE  KeyInv'
  BY <1>7 DEF Erase, AfterDrop, erasure_protocol, ErasureRecord, hash_ciphertext, Commitment
<1>8. ASSUME NEW k \in ShredKeys, NEW text \in Texts, CliEncrypt(k, text) PROVE KeyInv'
  BY <1>8 DEF CliEncrypt
<1>9. CASE CallStep \/ UNCHANGED vars
  BY <1>9, CallsKeepKeys DEF CallSteps, vars
<1> QED BY <1>1, <1>2, <1>3, <1>4, <1>5, <1>6, <1>7, <1>8, <1>9 DEF Next, KeyStep

LEMMA KeyInvAlways == Spec => []KeyInv
BY KeyInvInit, KeyInvInductive, PTL DEF Spec

(* Bindings.RecordedErasure: a record about a ciphertext under its own key  *)
(* means the key is lost, unless it was copied, given away or wrapped.      *)
THEOREM ErasureSound == Spec => []RecordedErasure
<1>1. KeyInv => RecordedErasure
  BY DEF KeyInv, ErasedIsGone, WrappedIsSpread, RecordedErasure, Lost
<1> QED BY <1>1, KeyInvAlways, PTL

----------------------------------------------------------------------------
(* A lost key is neither dropped, copied nor wrapped, and what was wrapped  *)
(* of it can be opened by nobody.                                           *)
LEMMA LostStaysLost ==
  ASSUME KeyInv, [Next]_vars, NEW k \in born, Lost(k)
  PROVE  Lost(k)'
<1> USE DEF KeyInv, KeysTyped, Lost, Holds
<1>1. ASSUME NEW p \in Programs, NEW l \in ShredKeys, Generate(p, l) \/ DropKey(p, l)
      PROVE  Lost(k)'
  BY <1>1 DEF Generate, DropKey
<1>2. ASSUME NEW p \in Programs, NEW q \in Programs, NEW l \in ShredKeys, Copy(p, q, l)
      PROVE  Lost(k)'
  BY <1>2 DEF Copy
<1>3. ASSUME NEW p \in Programs, NEW q \in Programs, NEW l \in ShredKeys, Wrap(p, q, l)
      PROVE  Lost(k)'
  BY <1>3 DEF Wrap, hpke_encrypt_key
<1>4. ASSUME NEW p \in Programs, NEW w \in wraps, Unwrap(p, w) PROVE Lost(k)'
  BY <1>4, UnwrapsOwn
<1>5. ASSUME NEW p \in Programs, LosePrivateKey(p) PROVE Lost(k)'
  BY <1>5 DEF LosePrivateKey
<1>6. ASSUME NEW p \in Programs, NEW l \in ShredKeys, NEW ct \in Ciphertext, Erase(p, l, ct)
      PROVE  Lost(k)'
  BY <1>6 DEF Erase, AfterDrop
<1>7. ASSUME NEW l \in ShredKeys, NEW text \in Texts, CliEncrypt(l, text) PROVE Lost(k)'
  BY <1>7 DEF CliEncrypt
<1>8. CASE CallStep \/ UNCHANGED vars
  BY <1>8, CallsKeepKeys DEF CallSteps, vars
<1> QED BY <1>1, <1>2, <1>3, <1>4, <1>5, <1>6, <1>7, <1>8 DEF Next, KeyStep

(* Bindings.OnceLostForever: a key that was lost stays lost.                *)
THEOREM LossIsFinal == Spec => OnceLostForever
<1>1. KeyInv /\ [Next]_vars => [\A k \in born : Lost(k) => Lost(k)']_vars
  BY LostStaysLost
<1> QED BY <1>1, KeyInvAlways, PTL DEF Spec, OnceLostForever

----------------------------------------------------------------------------
(* The buffers of the FFI *)

USE BindingsAssumption, BytesAssumption

(* What a result may be: at most two byte strings.                          *)
Outs == {s \in Seq(Bytes) : Len(s) <= 2}

LEMMA OutsIntro ==
  /\ <<>> \in Outs
  /\ \A a \in Bytes : <<a>> \in Outs
  /\ \A a, b \in Bytes : <<a, b>> \in Outs
BY DEF Outs

LEMMA OutsElim == \A s \in Outs : s \in Seq(Bytes) /\ Len(s) <= 2
<1>1. \A s \in Outs : s \in Seq(Bytes)
  BY DEF Outs
<1>2. \A s \in Outs : Len(s) <= 2
  BY DEF Outs
<1> QED BY <1>1, <1>2

(* A request whose data is of the kind its function takes.                  *)
Fits(r) ==
  /\ r \in Request
  /\ r.op \in {"verify_ed25519", "verify_composite", "verify_mldsa65_only", "verify_full"}
       => r.data \in Stmt
  /\ r.op \in {"sign_ed25519", "sign_composite"} => r.data \in Payload /\ r.key \in SignKeys
  /\ r.op \in {"encrypt_pii", "shredding_commit"} => r.data \in Texts
  /\ r.op = "decrypt_pii" => r.data \in Ciphertext
  /\ r.op = "encode_payload" => r.data \in [number : Nat]

Answered(x) == x.code \in 0..18 /\ x.outs \in Outs /\ (x.code = 0 => x.outs # <<>>)

LEMMA ErrAnswered == \A c \in 1..18 : Answered(Err(c))
BY OutsIntro DEF Answered, Err

LEMMA OkAnswered ==
  /\ \A a \in Bytes : Answered(Ok(<<a>>))
  /\ \A a, b \in Bytes : Answered(Ok(<<a, b>>))
BY OutsIntro DEF Answered, Ok

LEMMA CheckedAnswered ==
  ASSUME NEW r, NEW c \in 1..18, NEW x, Answered(x)
  PROVE  Answered(Checked(r, c, x))
BY ErrAnswered DEF Checked

LEMMA VerifyAnswered ==
  ASSUME NEW r, r.data \in Stmt, NEW scheme \in Schemes
  PROVE  Answered(verify(scheme, r))
<1>1. r.data.payload \in Bytes
  BY DEF Stmt, Bytes
<1>2. Answered(Ok(<<r.data.payload>>))
  BY <1>1, OkAnswered
<1> QED BY <1>2, ErrAnswered DEF verify

LEMMA SignAnswered ==
  ASSUME NEW r, r.data \in Payload, r.key \in SignKeys, NEW scheme \in Schemes
  PROVE  Answered(sign(scheme, r))
<1>1. [scheme |-> scheme, key |-> r.key, payload |-> r.data] \in Bytes
  BY DEF Stmt, Bytes
<1> QED BY <1>1, OkAnswered DEF sign

LEMMA EncryptAnswered ==
  ASSUME NEW key, NEW text \in Texts
  PROVE  Answered(encrypt_pii(key, text)) /\ Answered(shredding_commit(key, text))
<1>1. CASE key \notin ShredKeys
  BY <1>1, ErrAnswered DEF encrypt_pii, shredding_commit, from_bytes, Err
<1>2. CASE key \in ShredKeys
  <2> DEFINE ct == [key |-> key, text |-> text]
  <2>1. ct \in Bytes /\ [of |-> ct] \in Bytes
    BY <1>2 DEF Bytes, Ciphertext, Commitment
  <2>2. encrypt_pii(key, text) = Ok(<<ct>>)
    BY <1>2 DEF encrypt_pii, from_bytes
  <2>3. shredding_commit(key, text) = Ok(<<ct, [of |-> ct]>>)
    BY <2>2 DEF shredding_commit, hash_ciphertext, Ok
  <2> QED BY <2>1, <2>2, <2>3, OkAnswered
<1> QED BY <1>1, <1>2

LEMMA DecryptAnswered ==
  ASSUME NEW key, NEW ct \in Ciphertext
  PROVE  Answered(decrypt_pii(key, ct))
<1>1. [plain |-> ct.text] \in Bytes
  BY DEF Ciphertext, Bytes, Plaintext
<1>2. Answered(Ok(<<[plain |-> ct.text]>>))
  BY <1>1, OkAnswered
<1> QED BY <1>2, ErrAnswered DEF decrypt_pii

LEMMA EncodeAnswered ==
  ASSUME NEW r, r.data \in [number : Nat]
  PROVE  Answered(encode_payload(r))
<1>1. PICK n : n = r.data.number % 256
  OBVIOUS
<1>2. n \in 0..8 => [predicate |-> n, object |-> FALSE] \in Bytes
  BY DEF Bytes, Payload
<1>3. n \in 0..8 => Answered(Ok(<<[predicate |-> n, object |-> FALSE]>>))
  BY <1>2, OkAnswered
<1> QED BY <1>1, <1>3, ErrAnswered DEF encode_payload

LEMMA VerifyFullAnswered ==
  ASSUME NEW r, r.data \in Stmt
  PROVE  Answered(verify_full(r))
<1>1. r.data.payload \in Bytes /\ [warnings |-> TRUE] \in Bytes
  BY DEF Stmt, Bytes, Warnings
<1>2. Answered(Ok(<<r.data.payload, [warnings |-> TRUE]>>))
  BY <1>1, OkAnswered
<1> QED BY <1>2, ErrAnswered DEF verify_full

(* Every function answers a code and at most two byte strings, and with     *)
(* code 0 at least one.                                                     *)
LEMMA AnswerAnswered == ASSUME NEW r, Fits(r) PROVE Answered(Answer(r))
<1> USE DEF Fits, Schemes
<1>1. CASE r.op = "verify_ed25519"
  BY <1>1, VerifyAnswered, CheckedAnswered DEF Answer, verax_verify_ed25519
<1>2. CASE r.op = "verify_composite"
  BY <1>2, VerifyAnswered, CheckedAnswered DEF Answer, verax_verify_composite
<1>3. CASE r.op = "verify_mldsa65_only"
  BY <1>3, VerifyAnswered, CheckedAnswered DEF Answer, verax_verify_mldsa65_only
<1>4. CASE r.op = "sign_ed25519"
  BY <1>4, SignAnswered, CheckedAnswered DEF Answer, verax_sign_ed25519
<1>5. CASE r.op = "sign_composite"
  BY <1>5, SignAnswered, CheckedAnswered DEF Answer, verax_sign_composite
<1>6. CASE r.op = "encrypt_pii"
  BY <1>6, EncryptAnswered, CheckedAnswered DEF Answer, verax_encrypt_pii
<1>7. CASE r.op = "decrypt_pii"
  BY <1>7, DecryptAnswered, CheckedAnswered DEF Answer, verax_decrypt_pii
<1>8. CASE r.op = "shredding_commit"
  BY <1>8, EncryptAnswered, CheckedAnswered DEF Answer, verax_shredding_commit
<1>9. CASE r.op = "encode_payload"
  BY <1>9, EncodeAnswered, CheckedAnswered DEF Answer, verax_encode_payload
<1>10. CASE r.op = "verify_full"
  BY <1>10, VerifyFullAnswered, CheckedAnswered DEF Answer, verax_verify_full
<1> QED
  BY <1>1, <1>2, <1>3, <1>4, <1>5, <1>6, <1>7, <1>8, <1>9, <1>10 DEF Request, FfiOps

LEMMA AnswerToAnswered ==
  ASSUME NEW p, NEW r, Fits(r)
  PROVE  Answered(AnswerTo(p, r))
<1>1. Answered(Answer(r))
  BY AnswerAnswered
<1>2. Answered(Answer(GoRequest(r)))
  <2>1. CASE r.data = NoText
    <3>1. Fits([r EXCEPT !.bad = "null"])
      BY DEF Fits, Request
    <3> QED BY <2>1, <3>1, AnswerAnswered DEF GoRequest
  <2>2. CASE r.data # NoText
    BY <2>2, <1>1 DEF GoRequest
  <2> QED BY <2>1, <2>2
<1>3. Answered(PyAnswer(r)) /\ Answered(NodeAnswer(r))
  BY <1>1, ErrAnswered DEF PyAnswer, NodeAnswer, Raised
<1> QED BY <1>1, <1>2, <1>3 DEF AnswerTo

LEMMA RequestsFit ==
  ASSUME Predicates \subseteq [number : Nat], pool \subseteq Bytes,
         NEW p \in Programs, NEW r \in Requests(p)
  PROVE  Fits(r)
BY DEF Requests, Asked, Fits, Request, Among, HeldBy, Offered, Mistakes, FfiOps, Bytes

----------------------------------------------------------------------------
(* The invariant. Program p owns address a as the i-th buffer of its call.  *)
Owns(p, i, a) == i \in DOMAIN thread[p].made /\ thread[p].made[i] = a

String == [version |-> "verax-core"]

BuffersTyped ==
  /\ pool \subseteq Bytes /\ heap \in [Ptrs -> Bytes \cup {Absent}]
  /\ version \in Ptrs \cup {Absent} /\ shown \subseteq Ptrs
  /\ thread \in [Programs -> Thread]

(* What a call has made and wants, by its place in the code.                *)
CallShape(t) ==
  /\ t.pc \in {"idle", "read"} => t.made = <<>>
  /\ t.pc = "copying" => t.want \in Outs /\ t.code = 0 /\ Len(t.made) < Len(t.want)
  /\ t.pc = "told" => t.want \in Outs /\ Len(t.made) <= Len(t.want)
  /\ t.pc = "racing" => \E a \in Ptrs : t.made = <<a>> /\ heap[a] = String

(* The buffers made so far hold what is wanted, except where                *)
(* verax_verify_full overlooked that there is none.                         *)
Copied(t) ==
  t.pc \in {"copying", "told"} =>
    \A i \in DOMAIN t.made :
      IF t.made[i] = Absent THEN t.req.op = "verify_full" ELSE heap[t.made[i]] = t.want[i]

Shapes == \A p \in Programs :
  /\ CallShape(thread[p]) /\ Copied(thread[p])
  /\ InC(p) /\ thread[p].pc = "told" /\ thread[p].code = 0
       => Len(thread[p].made) = Len(thread[p].want)

OneOwner ==
  \A p, q \in Programs, i, j \in 1..2, a \in Ptrs :
    Owns(p, i, a) /\ Owns(q, j, a) => p = q /\ i = j
OwnedIsUsed ==
  \A p \in Programs, i \in 1..2, a \in Ptrs : Owns(p, i, a) => heap[a] # Absent /\ a # version
UsedIsOwned ==
  \A a \in Ptrs : heap[a] # Absent => a = version \/ \E p \in Programs, i \in 1..2 : Owns(p, i, a)
OneVersion ==
  /\ version # Absent => heap[version] = String
  /\ \A a \in shown : a = version

BufferInv ==
  BuffersTyped /\ Shapes /\ OneOwner /\ OwnedIsUsed /\ UsedIsOwned /\ OneVersion

LEMMA AtMostTwo ==
  ASSUME BuffersTyped, Shapes, NEW p \in Programs
  PROVE  /\ thread[p] \in Thread /\ thread[p].made \in Seq(Ptrs \cup {Absent})
         /\ DOMAIN thread[p].made = 1..Len(thread[p].made) /\ Len(thread[p].made) \in 0..2
<1> DEFINE m == thread[p].made
           w == thread[p].want
<1>1. /\ thread[p] \in Thread /\ m \in Seq(Ptrs \cup {Absent}) /\ w \in Seq(Bytes \cup Seen)
      /\ thread[p].pc \in {"idle", "copying", "told", "racing", "read"}
  BY DEF BuffersTyped, Thread
<1>2. CallShape(thread[p])
  BY DEF Shapes
<1>3. Len(m) \in 0..2
  <2>1. CASE m = <<>>
    BY <2>1
  <2>2. CASE w \in Outs /\ Len(m) <= Len(w)
    <3>1. Len(m) \in Nat /\ Len(w) \in Nat
      BY <1>1
    <3>2. Len(w) <= 2
      BY <2>2, OutsElim
    <3>3. \A x, y \in Nat : x <= y /\ y <= 2 => x \in 0..2
      OBVIOUS
    <3> HIDE DEF m, w
    <3> QED BY <2>2, <3>1, <3>2, <3>3
  <2>3. CASE \E a \in Ptrs : m = <<a>>
    BY <2>3
  <2>4. Len(m) < Len(w) => Len(m) <= Len(w)
    BY <1>1
  <2> QED BY <1>1, <1>2, <2>1, <2>2, <2>3, <2>4 DEF CallShape
<1> QED BY <1>1, <1>3

LEMMA BufferInvInit == Init => BufferInv
<1> SUFFICES ASSUME Init PROVE BufferInv
  OBVIOUS
<1>1. \A p \in Programs : thread[p] = Idle
  BY DEF Init
<1>2. Idle \in Thread
  BY DEF Idle, Thread
<1>3. BuffersTyped
  BY <1>2 DEF Init, BuffersTyped
<1>4. Shapes
  BY <1>1 DEF Shapes, CallShape, Copied, Idle
<1>5. OneOwner /\ OwnedIsUsed
  BY <1>1 DEF OneOwner, OwnedIsUsed, Owns, Idle
<1>6. UsedIsOwned /\ OneVersion
  BY DEF Init, UsedIsOwned, OneVersion
<1> QED BY <1>3, <1>4, <1>5, <1>6 DEF BufferInv

(* The call of another program is untouched by what is done to addresses it *)
(* does not own.                                                            *)
LEMMA OthersKept ==
  ASSUME BufferInv, NEW q \in Programs, thread'[q] = thread[q],
         \A i \in 1..2, a \in Ptrs : Owns(q, i, a) => heap'[a] = heap[a]
  PROVE  CallShape(thread[q])' /\ Copied(thread[q])'
<1>1. /\ CallShape(thread[q]) /\ Copied(thread[q])
      /\ thread[q] \in Thread /\ thread[q].made \in Seq(Ptrs \cup {Absent})
      /\ DOMAIN thread[q].made \subseteq 1..2
  BY AtMostTwo DEF BufferInv, Shapes
<1>2. \A i \in DOMAIN thread[q].made :
        thread[q].made[i] # Absent =>
          thread[q].made[i] \in Ptrs /\ heap'[thread[q].made[i]] = heap[thread[q].made[i]]
  BY <1>1 DEF Owns
<1>3. Copied(thread[q])'
  BY <1>1, <1>2 DEF Copied
<1>4. CallShape(thread[q])'
  BY <1>1, <1>2 DEF CallShape
<1> QED BY <1>3, <1>4

(* A call that gives up its buffers, none or some, leaves the rest alone.   *)
LEMMA Released ==
  ASSUME BufferInv, NEW p \in Programs, NEW t \in Thread,
         thread' = [thread EXCEPT ![p] = t], t.made = <<>>,
         t.pc \in {"copying", "told"} => t.want \in Outs,
         t.pc = "copying" => t.code = 0 /\ t.want # <<>>,
         t.pc = "told" /\ InC(p) => t.code # 0,
         t.pc # "racing",
         \A a \in Ptrs : heap'[a] = IF \E i \in 1..2 : Owns(p, i, a) THEN Absent ELSE heap[a],
         heap' \in [Ptrs -> Bytes \cup {Absent}],
         version' = version, \A a \in shown' : a \in Ptrs /\ a = version,
         pool' \subseteq Bytes
  PROVE  BufferInv'
<1>1. \A q \in Programs : thread'[q] = IF q = p THEN t ELSE thread[q]
  BY DEF BufferInv, BuffersTyped
<1>2. BuffersTyped'
  BY <1>1 DEF BufferInv, BuffersTyped
<1>3. \A q \in Programs, i \in 1..2, a \in Ptrs : Owns(q, i, a)' <=> q # p /\ Owns(q, i, a)
  BY <1>1 DEF Owns
<1>4. \A q \in Programs \ {p}, i \in 1..2, a \in Ptrs :
        Owns(q, i, a) => heap'[a] = heap[a]
  BY DEF BufferInv, OneOwner
<1>5. Shapes'
  <2>1. \A q \in Programs \ {p} : CallShape(thread[q])' /\ Copied(thread[q])'
    BY <1>1, <1>4, OthersKept
  <2>2. CallShape(t)' /\ Copied(t)'
    BY OutsElim DEF CallShape, Copied
  <2> QED BY <1>1, <2>1, <2>2 DEF Shapes, BufferInv, InC
<1>6. OneOwner' /\ OwnedIsUsed'
  BY <1>3, <1>4 DEF OneOwner, OwnedIsUsed, BufferInv
<1>7. UsedIsOwned'
  BY <1>3 DEF UsedIsOwned, BufferInv
<1>8. OneVersion'
  BY DEF OneVersion, BufferInv, BuffersTyped, OwnedIsUsed
<1> QED BY <1>2, <1>5, <1>6, <1>7, <1>8 DEF BufferInv

LEMMA IdleOwnsNothing ==
  ASSUME BufferInv, NEW p \in Programs, thread[p].pc \in {"idle", "read"}
  PROVE  thread[p].made = <<>> /\ \A i \in 1..2, a \in Ptrs : ~Owns(p, i, a)
BY DEF BufferInv, Shapes, CallShape, Owns

LEMMA IdleTyped == Idle \in Thread /\ Idle.made = <<>> /\ Idle.pc = "idle"
BY DEF Idle, Thread

(* A call of a binding begins.                                              *)
LEMMA CallKeeps ==
  ASSUME BufferInv, NEW p \in Programs, NEW r \in Requests(p),
         CallFfi(p, r) \/ CallDirect(p, r)
  PROVE  BufferInv'
<1> DEFINE answer == AnswerTo(p, r)
           t == [pc |-> IF InC(p) /\ answer.code = 0 THEN "copying" ELSE "told",
                 req |-> Recalled(r), code |-> answer.code, want |-> answer.outs,
                 made |-> <<>>]
<1>1. thread' = [thread EXCEPT ![p] = t] /\ thread[p].pc = "idle"
      /\ UNCHANGED <<pool, heap, version, shown>>
  BY DEF CallFfi, CallDirect, keyVars
<1>2. Answered(answer) /\ r \in Request
  BY RequestsFit, AnswerToAnswered DEF BufferInv, BuffersTyped, Fits
<1>3. t \in Thread
  BY <1>2 DEF Answered, Outs, Thread, Recalled
<1>4. answer.outs \in Outs /\ (answer.code = 0 => answer.outs # <<>>)
  BY <1>2 DEF Answered
<1> HIDE DEF answer
<1>5. /\ t.made = <<>> /\ t.pc # "racing" /\ t.want \in Outs
      /\ t.pc = "copying" => t.code = 0 /\ t.want # <<>>
      /\ t.pc = "told" /\ InC(p) => t.code # 0
  BY <1>4
<1>6. \A a \in shown' : a \in Ptrs /\ a = version
  BY <1>1 DEF BufferInv, BuffersTyped, OneVersion
<1> HIDE DEF t
<1> QED BY <1>1, <1>3, <1>5, <1>6, IdleOwnsNothing, Released DEF BufferInv, BuffersTyped

(* A payload is decoded.                                                    *)
LEMMA DecodeKeeps ==
  ASSUME BufferInv, NEW p \in Programs, NEW F \in Decodable, Decode(p, F)
  PROVE  BufferInv'
<1>1. PICK seen \in Seen, code \in {0, 12} :
        thread' = [thread EXCEPT ![p] =
          [pc |-> "read", req |-> [op |-> "payload_decode", fields |-> F], code |-> code,
           want |-> IF code = 0 THEN <<seen>> ELSE <<>>, made |-> <<>>]]
  BY DEF Decode, DecodePayload, payload_decode, Seen
<1> DEFINE results == IF code = 0 THEN <<seen>> ELSE <<>>
           t == [pc |-> "read", req |-> [op |-> "payload_decode", fields |-> F], code |-> code,
                 want |-> results, made |-> <<>>]
<1>2. F \in SUBSET Field
  BY DEF Field
<1>3. t \in Thread /\ t.made = <<>> /\ t.pc = "read"
  <2>1. <<seen>> \in Seq(Bytes \cup Seen) /\ <<>> \in Seq(Bytes \cup Seen)
    OBVIOUS
  <2>2. results \in Seq(Bytes \cup Seen)
    BY <2>1
  <2>3. code \in 0..18
    OBVIOUS
  <2> HIDE DEF results
  <2> QED BY <1>2, <2>2, <2>3 DEF Thread
<1>4. /\ thread' = [thread EXCEPT ![p] = t]
      /\ thread[p].pc = "idle" /\ UNCHANGED <<pool, heap, version, shown>>
  BY <1>1 DEF Decode, keyVars
<1>5. \A a \in shown' : a \in Ptrs /\ a = version
  BY <1>4 DEF BufferInv, BuffersTyped, OneVersion
<1> HIDE DEF t
<1> QED BY <1>3, <1>4, <1>5, IdleOwnsNothing, Released DEF BufferInv, BuffersTyped

LEMMA DoneReadingKeeps ==
  ASSUME BufferInv, NEW p \in Programs, DoneReading(p)
  PROVE  BufferInv'
<1>1. thread' = [thread EXCEPT ![p] = Idle] /\ thread[p].pc = "read"
      /\ UNCHANGED <<pool, heap, version, shown>>
  BY DEF DoneReading, keyVars
<1>2. \A a \in shown' : a \in Ptrs /\ a = version
  BY <1>1 DEF BufferInv, BuffersTyped, OneVersion
<1> QED
  BY <1>1, <1>2, IdleOwnsNothing, IdleTyped, Released DEF BufferInv, BuffersTyped

(* verax_free of every buffer of a call.                                    *)
LEMMA FreesOwned ==
  ASSUME BufferInv, NEW p \in Programs, NEW a \in Ptrs
  PROVE  (\E i \in DOMAIN thread[p].made : thread[p].made[i] = a)
           <=> \E i \in 1..2 : Owns(p, i, a)
BY AtMostTwo DEF BufferInv, Owns

LEMMA TakeKeeps ==
  ASSUME BufferInv, NEW p \in Programs, Take(p)
  PROVE  BufferInv'
<1>1. /\ thread' = [thread EXCEPT ![p] = Idle]
      /\ heap' = [a \in Ptrs |-> IF \E i \in DOMAIN thread[p].made : thread[p].made[i] = a
                               THEN Absent ELSE heap[a]]
      /\ UNCHANGED <<version, shown>>
  BY DEF Take, keyVars
<1>2. pool' \subseteq Bytes
  BY DEF Take, Bytes, BufferInv, BuffersTyped
<1>3. \A a \in Ptrs : heap'[a] = IF \E i \in 1..2 : Owns(p, i, a) THEN Absent ELSE heap[a]
  BY <1>1, FreesOwned
<1>4. heap' \in [Ptrs -> Bytes \cup {Absent}]
  BY <1>1 DEF BufferInv, BuffersTyped
<1>5. \A a \in shown' : a \in Ptrs /\ a = version
  BY <1>1 DEF BufferInv, BuffersTyped, OneVersion
<1> QED BY <1>1, <1>2, <1>3, <1>4, <1>5, IdleTyped, Released

(* A copy fails and the call gives up.                                      *)
LEMMA GiveUpKeeps ==
  ASSUME BufferInv, NEW p \in Programs, thread[p].pc = "copying",
         heap' = Freed(thread[p]),
         thread' = [thread EXCEPT ![p] =
           [pc |-> "told", req |-> thread[p].req, code |-> 14, want |-> <<>>, made |-> <<>>]],
         UNCHANGED <<pool, version, shown>>
  PROVE  BufferInv'
<1> DEFINE t == [pc |-> "told", req |-> thread[p].req, code |-> 14, want |-> <<>>, made |-> <<>>]
<1>1. t \in Thread /\ t.made = <<>> /\ t.pc = "told" /\ t.code = 14 /\ t.want = <<>>
  <2>1. thread[p].req \in Request \cup {Absent} \cup [op : {"payload_decode"}, fields : SUBSET Field]
    BY AtMostTwo DEF BufferInv, Thread
  <2>2. 14 \in 0..18 /\ <<>> \in Seq(Bytes \cup Seen) /\ <<>> \in Seq(Ptrs \cup {Absent})
    OBVIOUS
  <2> QED BY <2>1, <2>2 DEF Thread
<1> HIDE DEF t
<1>2. thread' = [thread EXCEPT ![p] = t]
  BY DEF t
<1>3. \A a \in Ptrs : heap'[a] = IF \E i \in 1..2 : Owns(p, i, a) THEN Absent ELSE heap[a]
  BY FreesOwned DEF Freed
<1>4. heap' \in [Ptrs -> Bytes \cup {Absent}]
  BY DEF Freed, BufferInv, BuffersTyped
<1>5. \A a \in shown' : a \in Ptrs /\ a = version
  BY DEF BufferInv, BuffersTyped, OneVersion
<1>6. /\ t.made = <<>> /\ t.pc # "racing" /\ t.want \in Outs
      /\ t.pc = "copying" => t.code = 0 /\ t.want # <<>>
      /\ t.pc = "told" /\ InC(p) => t.code # 0
  BY <1>1, OutsIntro
<1>7. pool' \subseteq Bytes
  BY DEF BufferInv, BuffersTyped
<1> QED BY <1>1, <1>2, <1>3, <1>4, <1>5, <1>6, <1>7, Released

(* Nobody owns a free address.                                              *)
LEMMA FreeIsFree ==
  ASSUME BufferInv, NEW a \in Free
  PROVE  /\ a \in Ptrs /\ heap[a] = Absent /\ a # version
         /\ \A q \in Programs, i \in 1..2 : ~Owns(q, i, a)
<1>1. a \in Ptrs /\ heap[a] = Absent
  BY DEF Free
<1>2. String # Absent
  BY DEF String, Bytes, VersionString
<1>3. a # version
  BY <1>1, <1>2 DEF BufferInv, OneVersion
<1>4. \A q \in Programs, i \in 1..2 : ~Owns(q, i, a)
  BY <1>1 DEF BufferInv, OwnedIsUsed
<1> QED BY <1>1, <1>3, <1>4

(* The next result to copy is there.                                        *)
LEMMA StillWanted ==
  ASSUME BufferInv, NEW p \in Programs, thread[p].pc = "copying"
  PROVE  /\ thread[p].want \in Seq(Bytes) /\ Len(thread[p].want) \in 1..2
         /\ Len(thread[p].made) + 1 \in 1..Len(thread[p].want)
<1> DEFINE t == thread[p]
           n == Len(t.want)
<1>1. /\ t \in Thread /\ t.made \in Seq(Ptrs \cup {Absent})
      /\ DOMAIN t.made = 1..Len(t.made) /\ Len(t.made) \in 0..2
  BY AtMostTwo DEF BufferInv
<1>2. t.want \in Outs /\ t.code = 0 /\ Len(t.made) < n
  BY DEF BufferInv, Shapes, CallShape
<1>3. t.want \in Seq(Bytes) /\ n \in 1..2 /\ Len(t.made) + 1 \in 1..n
  <2>1. t.want \in Seq(Bytes) /\ n <= 2
    BY <1>2, OutsElim
  <2>2. n \in Nat
    BY <2>1
  <2>3. \A x \in 0..2, y \in Nat : x < y /\ y <= 2 => y \in 1..2 /\ x + 1 \in 1..y
    OBVIOUS
  <2> HIDE DEF t, n
  <2> QED BY <1>1, <1>2, <2>1, <2>2, <2>3 DEF t
<1> QED BY <1>3

(* The result whose turn it is, and where the call stands after it.         *)
Turn(t) == t.want[Len(t.made) + 1]
NextPc(t) == IF Len(t.made) + 1 = Len(t.want) THEN "told" ELSE "copying"

(* A copy is made, in a fresh buffer a or, where it is overlooked, in none. *)
LEMMA CopyKeeps ==
  ASSUME BufferInv, NEW p \in Programs, thread[p].pc = "copying",
         NEW a \in Free \cup {Absent},
         a = Absent => thread[p].req.op = "verify_full",
         heap' \in [Ptrs -> Bytes \cup {Absent}],
         \A b \in Ptrs : heap'[b] = IF b = a THEN Turn(thread[p]) ELSE heap[b],
         NEW u, thread' = [thread EXCEPT ![p] = u],
         u \in Thread, u.made = Append(thread[p].made, a), u.want = thread[p].want,
         u.code = thread[p].code, u.req = thread[p].req,
         u.pc = NextPc(thread[p]),
         UNCHANGED <<pool, version, shown>>
  PROVE  BufferInv'
<1> DEFINE t == thread[p]
           n == Len(t.want)
           i == Len(t.made) + 1
<1> USE DEF Turn, NextPc
<1>1. /\ t \in Thread /\ t.made \in Seq(Ptrs \cup {Absent})
      /\ DOMAIN t.made = 1..Len(t.made) /\ Len(t.made) \in 0..2
  BY AtMostTwo DEF BufferInv
<1>2. t.want \in Outs /\ t.code = 0
  BY DEF BufferInv, Shapes, CallShape
<1>3. t.want \in Seq(Bytes) /\ n \in 1..2 /\ i \in 1..n
  BY StillWanted
<1>4. t.want[i] \in Bytes /\ t.want[i] # Absent
  BY <1>3
<1>5. \A q \in Programs : thread'[q] = IF q = p THEN u ELSE thread[q]
  BY DEF BufferInv, BuffersTyped
<1>6. /\ u \in Thread /\ u.made = Append(t.made, a) /\ u.want = t.want /\ u.code = 0
      /\ u.req = t.req /\ u.pc = IF i = n THEN "told" ELSE "copying"
  BY <1>2
<1>7. /\ Len(u.made) = i /\ DOMAIN u.made = 1..i /\ u.made[i] = a
      /\ \A j \in 1..i - 1 : u.made[j] = t.made[j]
  BY <1>1, <1>6 DEF Free
<1>8. \A q \in Programs, j \in 1..2, b \in Ptrs :
        Owns(q, j, b)' <=> Owns(q, j, b) \/ (q = p /\ j = i /\ b = a)
  <2>1. ASSUME NEW q \in Programs, NEW j \in 1..2, NEW b \in Ptrs, q # p
        PROVE  Owns(q, j, b)' <=> Owns(q, j, b)
    BY <1>5, <2>1 DEF Owns
  <2>2. \A j \in 1..2, b \in Ptrs : Owns(p, j, b)' <=> j \in 1..i /\ u.made[j] = b
    BY <1>5, <1>7 DEF Owns
  <2>3. \A j \in 1..2, b \in Ptrs : Owns(p, j, b) <=> j \in 1..i - 1 /\ t.made[j] = b
    BY <1>1 DEF Owns
  <2>4. \A j \in 1..2 : j \in 1..i <=> j \in 1..i - 1 \/ j = i
    BY <1>3
  <2> QED BY <1>3, <1>7, <2>1, <2>2, <2>3, <2>4
<1>9. \A q \in Programs, j \in 1..2, b \in Ptrs : Owns(q, j, b) => heap'[b] = heap[b]
  BY FreeIsFree
<1>10. BuffersTyped'
  <2>1. thread' \in [Programs -> Thread]
    BY <1>6 DEF BufferInv, BuffersTyped
  <2> QED BY <2>1 DEF BufferInv, BuffersTyped
<1>11. Shapes'
  <2>1. \A q \in Programs \ {p} : CallShape(thread[q])' /\ Copied(thread[q])'
    BY <1>5, <1>9, OthersKept
  <2>2. CallShape(u)'
    BY <1>2, <1>3, <1>6, <1>7 DEF CallShape
  <2>3. Copied(u)'
    <3>1. ASSUME NEW j \in 1..i - 1
          PROVE  IF u.made[j] = Absent THEN u.req.op = "verify_full"
                 ELSE heap'[u.made[j]] = u.want[j]
      <4>1. j \in DOMAIN t.made /\ u.made[j] = t.made[j] /\ j \in 1..2
        <5>5. \A x \in 0..2 : (x + 1) - 1 = x /\ x + 1 \in 1..3
          OBVIOUS
        <5> HIDE DEF t
        <5>1. i - 1 = Len(t.made) /\ i \in 1..3
          BY <1>1, <5>5
        <5>2. j \in DOMAIN t.made
          BY <1>1, <5>1
        <5>3. u.made[j] = t.made[j]
          BY <1>7
        <5>4. j \in 1..2
          BY <5>1
        <5> QED BY <5>2, <5>3, <5>4
      <4>2. IF t.made[j] = Absent THEN t.req.op = "verify_full"
            ELSE heap[t.made[j]] = t.want[j]
        BY <4>1 DEF BufferInv, Shapes, Copied
      <4>3. t.made[j] # Absent => t.made[j] \in Ptrs /\ Owns(p, j, t.made[j])
        BY <1>1, <4>1 DEF Owns
      <4> QED BY <1>6, <1>9, <4>1, <4>2, <4>3
    <3>2. IF u.made[i] = Absent THEN u.req.op = "verify_full" ELSE heap'[u.made[i]] = u.want[i]
      BY <1>6, <1>7 DEF Free
    <3> QED BY <1>3, <1>7, <3>1, <3>2 DEF Copied
  <2>4. u.pc = "told" => Len(u.made) = Len(u.want)
    BY <1>6, <1>7
  <2>5. \A q \in Programs \ {p} :
          InC(q) /\ thread'[q].pc = "told" /\ thread'[q].code = 0
            => Len(thread'[q].made) = Len(thread'[q].want)
    BY <1>5 DEF BufferInv, Shapes
  <2> QED BY <1>5, <2>1, <2>2, <2>3, <2>4, <2>5 DEF Shapes, InC
<1>12. OneOwner' /\ OwnedIsUsed'
  <2>1. a # Absent => \A q \in Programs, j \in 1..2 : ~Owns(q, j, a)
    BY FreeIsFree
  <2>2. a = Absent => \A b \in Ptrs : a # b
    OBVIOUS
  <2>3. OneOwner'
    BY <1>8, <2>1, <2>2 DEF BufferInv, OneOwner
  <2>4. OwnedIsUsed'
    BY <1>4, <1>8, <1>9, FreeIsFree DEF BufferInv, OwnedIsUsed
  <2> QED BY <2>3, <2>4
<1>13. UsedIsOwned'
  BY <1>3, <1>8, FreeIsFree DEF BufferInv, UsedIsOwned
<1>14. OneVersion'
  BY FreeIsFree DEF BufferInv, OneVersion, BuffersTyped
<1> QED BY <1>10, <1>11, <1>12, <1>13, <1>14 DEF BufferInv

LEMMA MakeCopyKeeps ==
  ASSUME BufferInv, NEW p \in Programs, MakeCopy(p)
  PROVE  BufferInv'
<1> DEFINE t == thread[p]
           i == Len(t.made) + 1
<1>1. t.pc = "copying" /\ UNCHANGED <<pool, version, shown>>
  BY DEF MakeCopy, keyVars
<1>2. PICK a \in Free \cup {Absent} :
        IF GivesUp(t, a)
        THEN /\ heap' = Freed(t)
             /\ thread' = [thread EXCEPT ![p] =
                  [pc |-> "told", req |-> t.req, code |-> 14, want |-> <<>>, made |-> <<>>]]
        ELSE /\ heap' = [b \in Ptrs |-> IF b = a THEN t.want[i] ELSE heap[b]]
             /\ thread' = [thread EXCEPT ![p] =
                  [t EXCEPT !.pc = IF i = Len(t.want) THEN "told" ELSE "copying",
                            !.made = Append(@, a)]]
  BY DEF MakeCopy, make_copy
<1>3. CASE GivesUp(t, a)
  BY <1>1, <1>2, <1>3, GiveUpKeeps
<1>4. CASE ~GivesUp(t, a)
  <2>1. a = Absent => t.req.op = "verify_full"
    BY <1>4 DEF GivesUp
  <2>2. PICK u : u = [t EXCEPT !.pc = NextPc(t), !.made = Append(@, a)]
    OBVIOUS
  <2>3. thread' = [thread EXCEPT ![p] = u]
    BY <1>2, <1>4, <2>2 DEF NextPc
  <2>4. Turn(t) \in Bytes
    BY <1>1, StillWanted DEF Turn
  <2>5. heap' = [b \in Ptrs |-> IF b = a THEN Turn(t) ELSE heap[b]]
    BY <1>2, <1>4 DEF Turn
  <2>6. t \in Thread /\ t.made \in Seq(Ptrs \cup {Absent})
    BY AtMostTwo DEF BufferInv
  <2>7. Append(t.made, a) \in Seq(Ptrs \cup {Absent})
    BY <2>6 DEF Free
  <2>8. NextPc(t) \in {"idle", "copying", "told", "racing", "read"}
    BY DEF NextPc
  <2>9. /\ u.made = Append(t.made, a) /\ u.want = t.want
        /\ u.code = t.code /\ u.req = t.req /\ u.pc = NextPc(t)
    BY <2>2, <2>6 DEF Thread
  <2>10. u \in Thread
    BY <2>2, <2>6, <2>7, <2>8 DEF Thread
  <2>11. /\ heap' \in [Ptrs -> Bytes \cup {Absent}]
         /\ \A b \in Ptrs : heap'[b] = IF b = a THEN Turn(t) ELSE heap[b]
    BY <2>4, <2>5 DEF BufferInv, BuffersTyped
  <2> QED BY <1>1, <2>1, <2>3, <2>9, <2>10, <2>11, CopyKeeps
<1> QED BY <1>3, <1>4

(* verax_version when the string is there, and when it is not yet.          *)
LEMMA LoadKeeps ==
  ASSUME BufferInv, NEW p \in Programs, LoadVersion(p)
  PROVE  BufferInv'
<1>1. thread[p].pc = "idle" /\ UNCHANGED <<pool, version>>
  BY DEF LoadVersion, keyVars
<1>2. CASE version # Absent
  <2>1. shown' = shown \cup {version} /\ UNCHANGED <<heap, thread>>
    BY <1>2 DEF LoadVersion
  <2>2. \A a \in shown' : a \in Ptrs /\ a = version
    BY <1>2, <2>1 DEF BufferInv, BuffersTyped, OneVersion
  <2>3. BuffersTyped' /\ OneVersion'
    BY <1>1, <2>1, <2>2 DEF BufferInv, BuffersTyped, OneVersion
  <2> QED
    BY <1>1, <2>1, <2>3
    DEF BufferInv, Shapes, CallShape, Copied, OneOwner, OwnedIsUsed, UsedIsOwned, Owns
<1>3. CASE version = Absent
  <2>1. PICK a \in Free :
          /\ heap' = [heap EXCEPT ![a] = String]
          /\ thread' = [thread EXCEPT ![p] =
               [pc |-> "racing", req |-> Absent, code |-> 0, want |-> <<>>, made |-> <<a>>]]
          /\ UNCHANGED shown
    BY <1>3 DEF LoadVersion, String
  <2> DEFINE u == [pc |-> "racing", req |-> Absent, code |-> 0, want |-> <<>>, made |-> <<a>>]
  <2>2. u \in Thread /\ u.pc = "racing" /\ u.made = <<a>>
    <3>1. <<a>> \in Seq(Ptrs \cup {Absent})
      BY DEF Free
    <3>2. 0 \in 0..18 /\ <<>> \in Seq(Bytes \cup Seen)
      OBVIOUS
    <3> QED BY <3>1, <3>2 DEF Thread
  <2>3. String \in Bytes /\ String # Absent
    BY DEF String, Bytes, VersionString
  <2> HIDE DEF u
  <2>4. \A q \in Programs : thread'[q] = IF q = p THEN u ELSE thread[q]
    BY <2>1 DEF BufferInv, BuffersTyped, u
  <2>5. \A q \in Programs, j \in 1..2, b \in Ptrs :
          Owns(q, j, b)' <=> Owns(q, j, b) \/ (q = p /\ j = 1 /\ b = a)
    BY <1>1, <2>2, <2>4, IdleOwnsNothing DEF Owns
  <2>6. /\ heap' \in [Ptrs -> Bytes \cup {Absent}] /\ heap'[a] = String
        /\ \A b \in Ptrs : b # a => heap'[b] = heap[b]
    BY <2>1, <2>3 DEF BufferInv, BuffersTyped, Free
  <2>7. BuffersTyped'
    BY <1>1, <2>1, <2>2, <2>4, <2>6 DEF BufferInv, BuffersTyped, u
  <2>8. \A q \in Programs, j \in 1..2, b \in Ptrs : Owns(q, j, b) => heap'[b] = heap[b]
    BY <2>6, FreeIsFree
  <2>9. Shapes'
    <3>1. \A q \in Programs \ {p} : CallShape(thread[q])' /\ Copied(thread[q])'
      BY <2>4, <2>8, OthersKept
    <3>2. CallShape(u)' /\ Copied(u)'
      BY <2>2, <2>6 DEF CallShape, Copied, Free
    <3> QED BY <2>2, <2>4, <3>1, <3>2 DEF Shapes, BufferInv, InC
  <2>10. OneOwner' /\ OwnedIsUsed'
    BY <1>1, <2>3, <2>5, <2>6, <2>8, FreeIsFree DEF BufferInv, OneOwner, OwnedIsUsed
  <2>11. UsedIsOwned'
    BY <1>1, <2>5, <2>6 DEF BufferInv, UsedIsOwned
  <2>12. OneVersion'
    BY <1>1, <1>3, <2>1 DEF BufferInv, OneVersion
  <2> QED BY <2>7, <2>9, <2>10, <2>11, <2>12 DEF BufferInv
<1> QED BY <1>2, <1>3

(* The winner of the race publishes its string, a loser frees its own.      *)
LEMMA PublishKeeps ==
  ASSUME BufferInv, NEW p \in Programs, PublishVersion(p)
  PROVE  BufferInv'
<1> DEFINE mine == thread[p].made[1]
<1>1. /\ thread[p].pc = "racing" /\ version' = compare_exchange(mine)
      /\ shown' = shown \cup {version'} /\ UNCHANGED pool
      /\ heap' = IF version' = mine THEN heap ELSE Freed(thread[p])
      /\ thread' = [thread EXCEPT ![p] = Idle]
  BY DEF PublishVersion, keyVars
<1>2. mine \in Ptrs /\ thread[p].made = <<mine>> /\ heap[mine] = String /\ Owns(p, 1, mine)
  BY <1>1 DEF BufferInv, Shapes, CallShape, Owns
<1> HIDE DEF mine
<1>3. mine # version
  BY <1>2 DEF BufferInv, OwnedIsUsed
<1>4. CASE version # Absent
  <2>1. version' = version /\ heap' = Freed(thread[p])
    BY <1>1, <1>3, <1>4 DEF compare_exchange
  <2>2. \A a \in Ptrs : heap'[a] = IF \E i \in 1..2 : Owns(p, i, a) THEN Absent ELSE heap[a]
    BY <2>1, FreesOwned DEF Freed
  <2>3. heap' \in [Ptrs -> Bytes \cup {Absent}]
    BY <2>1 DEF Freed, BufferInv, BuffersTyped
  <2>4. \A a \in shown' : a \in Ptrs /\ a = version
    BY <1>1, <1>4, <2>1 DEF BufferInv, BuffersTyped, OneVersion
  <2>5. pool' \subseteq Bytes
    BY <1>1 DEF BufferInv, BuffersTyped
  <2> QED BY <1>1, <2>1, <2>2, <2>3, <2>4, <2>5, IdleTyped, Released
<1>5. CASE version = Absent
  <2>1. version' = mine /\ heap' = heap
    BY <1>1, <1>5 DEF compare_exchange
  <2>2. \A q \in Programs : thread'[q] = IF q = p THEN Idle ELSE thread[q]
    BY <1>1 DEF BufferInv, BuffersTyped
  <2>3. \A q \in Programs, j \in 1..2, b \in Ptrs : Owns(q, j, b)' <=> q # p /\ Owns(q, j, b)
    BY <2>2, IdleTyped DEF Owns
  <2>4. \A j \in 1..2, b \in Ptrs : Owns(p, j, b) => b = mine
    BY <1>2 DEF Owns
  <2>5. shown = {}
    BY <1>5 DEF BufferInv, BuffersTyped, OneVersion
  <2>6. BuffersTyped'
    BY <1>1, <1>2, <2>1, <2>2, IdleTyped DEF BufferInv, BuffersTyped
  <2>7. Shapes'
    <3>1. \A q \in Programs \ {p} : CallShape(thread[q])' /\ Copied(thread[q])'
      BY <2>1, <2>2, OthersKept
    <3>2. CallShape(Idle)' /\ Copied(Idle)'
      BY IdleTyped DEF CallShape, Copied
    <3> QED BY <2>2, <3>1, <3>2, IdleTyped DEF Shapes, BufferInv, InC
  <2>8. OneOwner' /\ OwnedIsUsed'
    BY <1>2, <2>1, <2>3 DEF BufferInv, OneOwner, OwnedIsUsed
  <2>9. UsedIsOwned'
    BY <1>5, <2>1, <2>3, <2>4 DEF BufferInv, UsedIsOwned
  <2>10. OneVersion'
    BY <1>1, <1>2, <2>1, <2>5 DEF OneVersion
  <2> QED BY <2>6, <2>7, <2>8, <2>9, <2>10 DEF BufferInv
<1> QED BY <1>4, <1>5

----------------------------------------------------------------------------
(* The theorems *)

(* Steps that pass byte strings around leave every buffer alone.            *)
LEMMA HandOverKeeps ==
  ASSUME BufferInv, UNCHANGED ffiVars, pool' \subseteq Bytes
  PROVE  BufferInv'
<1>1. UNCHANGED <<heap, thread, version, shown>>
  BY DEF ffiVars
<1> QED
  BY <1>1
  DEF BufferInv, BuffersTyped, Shapes, CallShape, Copied, OneOwner, OwnedIsUsed,
      UsedIsOwned, OneVersion, Owns

LEMMA KeyStepKeeps == ASSUME BufferInv, KeyStep PROVE BufferInv'
<1>1. pool \subseteq Bytes
  BY DEF BufferInv, BuffersTyped
<1>2. UNCHANGED ffiVars /\ pool' \subseteq Bytes
  <2>1. CASE \E p \in Programs, k \in ShredKeys : Generate(p, k) \/ DropKey(p, k)
    BY <1>1, <2>1 DEF Generate, DropKey
  <2>2. CASE \E p, q \in Programs, k \in ShredKeys : Copy(p, q, k) \/ Wrap(p, q, k)
    BY <1>1, <2>2 DEF Copy, Wrap
  <2>3. CASE \E p \in Programs, w \in wraps : Unwrap(p, w)
    BY <1>1, <2>3 DEF Unwrap
  <2>4. CASE \E p \in Programs : LosePrivateKey(p)
    BY <1>1, <2>4 DEF LosePrivateKey
  <2>5. CASE \E p \in Programs, k \in ShredKeys, ct \in Ciphertext \cap pool : Erase(p, k, ct)
    BY <1>1, <2>5 DEF Erase
  <2>6. ASSUME NEW k \in ShredKeys, NEW text \in Texts, CliEncrypt(k, text)
        PROVE  UNCHANGED ffiVars /\ pool' \subseteq Bytes
    <3>1. encrypt_pii(k, text).outs[1] \in Bytes
      BY DEF encrypt_pii, from_bytes, Ok, Ciphertext, Bytes, Err
    <3> QED BY <1>1, <2>6, <3>1 DEF CliEncrypt
  <2> QED BY <2>1, <2>2, <2>3, <2>4, <2>5, <2>6 DEF KeyStep
<1> QED BY <1>2, HandOverKeeps

LEMMA ConsentKeeps ==
  ASSUME BufferInv, CreateConsent \/ \E s \in SignKeys : Consent(s)
  PROVE  BufferInv'
<1>1. create_consent_payload \in Payload /\ consent_statement \in Payload
  <2>1. 7 \in 0..8 /\ FALSE \in BOOLEAN /\ TRUE \in BOOLEAN
    OBVIOUS
  <2>2. create_consent_payload = [predicate |-> 7, object |-> FALSE]
    BY DEF create_consent_payload
  <2>3. create_consent_payload \in Payload
    BY <2>1, <2>2 DEF Payload
  <2>4. \A x \in Payload : [x EXCEPT !.object = TRUE] \in Payload
    BY <2>1 DEF Payload
  <2> QED BY <2>3, <2>4 DEF consent_statement
<1>2. create_consent_payload \in Bytes
  BY <1>1 DEF Bytes
<1>3. \A s \in SignKeys :
        [scheme |-> "ed25519", key |-> s, payload |-> consent_statement] \in Bytes
  BY <1>1 DEF Bytes, Stmt, Schemes
<1>4. UNCHANGED ffiVars /\ pool' \subseteq Bytes
  BY <1>2, <1>3 DEF CreateConsent, Consent, BufferInv, BuffersTyped
<1> QED BY <1>4, HandOverKeeps

LEMMA BufferInvInductive == BufferInv /\ [Next]_vars => BufferInv'
<1> SUFFICES ASSUME BufferInv, [Next]_vars PROVE BufferInv'
  OBVIOUS
<1>1. CASE KeyStep
  BY <1>1, KeyStepKeeps
<1>2. CASE CreateConsent \/ \E s \in SignKeys : Consent(s)
  BY <1>2, ConsentKeeps
<1>3. CASE \E p \in Programs : \E r \in Requests(p) : CallFfi(p, r) \/ CallDirect(p, r)
  BY <1>3, CallKeeps
<1>4. CASE \E p \in Programs : MakeCopy(p) \/ Take(p)
  BY <1>4, MakeCopyKeeps, TakeKeeps
<1>5. CASE \E p \in Programs : LoadVersion(p) \/ PublishVersion(p)
  BY <1>5, LoadKeeps, PublishKeeps
<1>6. CASE \E p \in Programs, F \in Decodable : Decode(p, F)
  BY <1>6, DecodeKeeps
<1>7. CASE \E p \in Programs : DoneReading(p)
  BY <1>7, DoneReadingKeeps
<1>8. CASE UNCHANGED vars
  BY <1>8, HandOverKeeps DEF vars, ffiVars, BufferInv, BuffersTyped
<1> QED BY <1>1, <1>2, <1>3, <1>4, <1>5, <1>6, <1>7, <1>8 DEF Next, CallStep

LEMMA BufferInvAlways == Spec => []BufferInv
BY BufferInvInit, BufferInvInductive, PTL DEF Spec

LEMMA OneElement == \A x : Cardinality({x}) = 1
BY FS_Singleton

LEMMA AtMostOne == ASSUME NEW S, NEW x, S \subseteq {x} PROVE Cardinality(S) <= 1
<1>1. S = {} \/ S = {x}
  OBVIOUS
<1>2. Cardinality(S) = 0 \/ Cardinality(S) = 1
  BY <1>1, FS_EmptySet, OneElement
<1> QED BY <1>2

(* Bindings.VersionIsOne: every caller of verax_version, racing for the     *)
(* first string or not, gets the same one, and nobody ever frees it.        *)
THEOREM OneVersionString == Spec => []VersionIsOne
<1>1. BufferInv => VersionIsOne
  <2> SUFFICES ASSUME BufferInv PROVE VersionIsOne
    OBVIOUS
  <2>1. shown \subseteq {version} /\ shown \subseteq Ptrs
    BY DEF BufferInv, BuffersTyped, OneVersion
  <2>2. \A a \in shown : heap[a] = [version |-> "verax-core"]
    BY <2>1 DEF BufferInv, OneVersion, String
  <2> QED BY <2>1, <2>2, AtMostOne DEF VersionIsOne
<1> QED BY <1>1, BufferInvAlways, PTL

(* Bindings.EveryBufferOwned: a buffer is in use exactly if one call, one   *)
(* caller or the version string owns it, so that none leaks and none is     *)
(* freed twice.                                                             *)
THEOREM BuffersOwned == Spec => []EveryBufferOwned
<1>1. ASSUME BufferInv, NEW a \in Ptrs
      PROVE  Cardinality(Owners(a)) = IF heap[a] = Absent THEN 0 ELSE 1
  <2> DEFINE calling == {o \in Programs \X (1..2) :
                           o[2] \in DOMAIN thread[o[1]].made /\ thread[o[1]].made[o[2]] = a}
  <2>1. \A o \in Programs \X (1..2) : o \in calling <=> Owns(o[1], o[2], a)
    BY DEF Owns
  <2>2. Owners(a) = calling \cup (IF version = a THEN {<<Absent, 0>>} ELSE {})
    BY DEF Owners
  <2> HIDE DEF calling
  <2>3. calling \subseteq Programs \X (1..2)
    BY DEF calling
  <2>4. CASE heap[a] = Absent
    <3>1. a \in Free
      BY <2>4 DEF Free
    <3>2. calling = {} /\ version # a
      BY <2>1, <2>3, <3>1, FreeIsFree, <1>1
    <3> QED BY <2>2, <2>4, <3>2, FS_EmptySet
  <2>5. CASE heap[a] # Absent /\ version = a
    <3>1. calling = {}
      BY <1>1, <2>1, <2>3, <2>5 DEF BufferInv, OwnedIsUsed
    <3>2. Owners(a) = {<<Absent, 0>>}
      BY <2>2, <2>5, <3>1
    <3> QED BY <2>5, <3>2, OneElement
  <2>6. CASE heap[a] # Absent /\ version # a
    <3>1. PICK p \in Programs, i \in 1..2 : Owns(p, i, a)
      BY <1>1, <2>6 DEF BufferInv, UsedIsOwned
    <3>2. \A o \in calling : o[1] = p /\ o[2] = i
      BY <1>1, <2>1, <2>3, <3>1 DEF BufferInv, OneOwner
    <3>3. <<p, i>> \in calling
      BY <2>1, <3>1
    <3>4. calling = {<<p, i>>}
      BY <2>3, <3>2, <3>3
    <3>5. Owners(a) = {<<p, i>>}
      BY <2>2, <2>6, <3>4
    <3> QED BY <2>6, <3>5, OneElement
  <2> QED BY <2>4, <2>5, <2>6
<1>2. BufferInv => EveryBufferOwned
  BY <1>1 DEF EveryBufferOwned
<1> QED BY <1>2, BufferInvAlways, PTL

(* Bindings.AllOrNothing: a call that reports success has handed over every *)
(* result in a buffer that still holds it.                                  *)
THEOREM AllOrNothingSound == Spec => []AllOrNothing
<1>1. BufferInv => AllOrNothing
  <2> SUFFICES ASSUME BufferInv, NEW p \in Programs,
                      thread[p].pc = "told", thread[p].code = 0, InC(p),
                      thread[p].req.op # "verify_full",
                      NEW i \in DOMAIN thread[p].want
               PROVE  /\ i \in DOMAIN thread[p].made /\ thread[p].made[i] # Absent
                      /\ heap[thread[p].made[i]] = thread[p].want[i]
    BY DEF AllOrNothing
  <2>1. Len(thread[p].made) = Len(thread[p].want) /\ thread[p].want \in Outs
    BY DEF BufferInv, Shapes, CallShape
  <2>2. DOMAIN thread[p].want = 1..Len(thread[p].want)
    BY <2>1, OutsElim
  <2>3. DOMAIN thread[p].made = 1..Len(thread[p].made)
    BY AtMostTwo DEF BufferInv
  <2>4. i \in DOMAIN thread[p].made
    BY <2>1, <2>2, <2>3
  <2> QED BY <2>4 DEF BufferInv, Shapes, Copied
<1> QED BY <1>1, BufferInvAlways, PTL

----------------------------------------------------------------------------
(* What a verifier says of consent, of the statement of verax consent and   *)
(* of the bare consent payload. The answer is right when the call is made;  *)
(* after that only a call that gives up changes its code, which             *)
(* verax_verify_full never does.                                            *)

AboutConsent(r) ==
  /\ r # Absent /\ r.op = "verify_full"
  /\ r.data = [scheme |-> "ed25519", key |-> r.key, payload |-> consent_statement]

AboutPayload(r) ==
  /\ r # Absent /\ r.op = "verify_full"
  /\ r.data.payload = create_consent_payload

ConsentInv ==
  \A p \in Programs :
    thread[p].pc \in {"copying", "told"}
    => /\ AboutConsent(thread[p].req) => thread[p].code = 0
       /\ AboutPayload(thread[p].req) => thread[p].code # 0

(* Full verification has nothing against a consent statement, whatever the  *)
(* language of the program that asks.                                       *)
LEMMA ConsentVerifies ==
  ASSUME NEW p \in Programs, NEW r, Fits(r), r.bad = "none", AboutConsent(r)
  PROVE  AnswerTo(p, r).code = 0
<1>1. r.op = "verify_full" /\ r.data \in Stmt
  BY DEF AboutConsent, Fits
<1>2. /\ r.data.scheme = "ed25519" /\ r.data.key = r.key
      /\ r.data.payload = consent_statement
  BY DEF AboutConsent
<1>3. consent_statement.object
  BY DEF consent_statement, create_consent_payload
<1>4. verify_full(r).code = 0
  BY <1>2, <1>3 DEF verify_full, ObjectMissing, Ok
<1>5. Answer(r).code = 0
  BY <1>1, <1>4 DEF Answer, verax_verify_full, Checked
<1>6. GoRequest(r) = r
  BY <1>1, StmtAssumption DEF GoRequest
<1>7. PyAnswer(r) = Answer(r) /\ NodeAnswer(r) = Answer(r)
  BY <1>1 DEF PyAnswer, NodeAnswer
<1> QED BY <1>5, <1>6, <1>7 DEF AnswerTo

(* It has something against the consent payload, whatever scheme and key    *)
(* signed it.                                                               *)
LEMMA BarePayloadRefused ==
  ASSUME NEW p \in Programs, NEW r, Fits(r), r.bad = "none", AboutPayload(r)
  PROVE  AnswerTo(p, r).code # 0
<1>1. r.op = "verify_full" /\ r.data \in Stmt
  BY DEF AboutPayload, Fits
<1>2. ObjectMissing(r.data.payload)
  BY DEF AboutPayload, ObjectMissing, create_consent_payload
<1>3. verify_full(r).code # 0
  BY <1>2 DEF verify_full, Err
<1>4. Answer(r).code # 0
  BY <1>1, <1>3 DEF Answer, verax_verify_full, Checked
<1>5. GoRequest(r) = r
  BY <1>1, StmtAssumption DEF GoRequest
<1>6. PyAnswer(r) = Answer(r) /\ NodeAnswer(r) = Answer(r)
  BY <1>1 DEF PyAnswer, NodeAnswer
<1> QED BY <1>4, <1>5, <1>6 DEF AnswerTo

LEMMA ConsentInvInductive == BufferInv /\ ConsentInv /\ [Next]_vars => ConsentInv'
<1> SUFFICES ASSUME BufferInv, ConsentInv, [Next]_vars PROVE ConsentInv'
  OBVIOUS
<1> DEFINE Right(t) == t.pc \in {"copying", "told"}
                       => /\ AboutConsent(t.req) => t.code = 0
                          /\ AboutPayload(t.req) => t.code # 0
<1>1. ConsentInv <=> \A p \in Programs : Right(thread[p])
  BY DEF ConsentInv
<1>2. ConsentInv' <=> \A p \in Programs : Right(thread'[p])
  BY DEF ConsentInv, AboutConsent, AboutPayload
<1>3. ASSUME NEW p \in Programs, NEW t, thread' = [thread EXCEPT ![p] = t], Right(t)
      PROVE  ConsentInv'
  <2>1. \A q \in Programs : thread'[q] = IF q = p THEN t ELSE thread[q]
    BY <1>3 DEF BufferInv, BuffersTyped
  <2> HIDE DEF Right
  <2> QED BY <1>1, <1>2, <1>3, <2>1
<1>4. CASE UNCHANGED thread
  BY <1>4 DEF ConsentInv
<1>5. CASE KeyStep
  BY <1>4, <1>5
  DEF KeyStep, Generate, DropKey, Copy, Wrap, Unwrap, LosePrivateKey, Erase, CliEncrypt, ffiVars
<1>6. CASE CreateConsent \/ \E s \in SignKeys : Consent(s)
  BY <1>4, <1>6 DEF CreateConsent, Consent, ffiVars
<1>7. ASSUME NEW p \in Programs, NEW r \in Requests(p), CallFfi(p, r) \/ CallDirect(p, r)
      PROVE  ConsentInv'
  <2>1. Fits(r)
    BY <1>7, RequestsFit DEF BufferInv, BuffersTyped
  <2>2. PICK t : /\ thread' = [thread EXCEPT ![p] = t]
                 /\ t.req = Recalled(r) /\ t.code = AnswerTo(p, r).code
    <3> DEFINE u(pc) == [pc |-> pc, req |-> Recalled(r), code |-> AnswerTo(p, r).code,
                         want |-> AnswerTo(p, r).outs, made |-> <<>>]
    <3>1. thread' = [thread EXCEPT ![p] = u("copying")] \/ thread' = [thread EXCEPT ![p] = u("told")]
      BY <1>7 DEF CallFfi, CallDirect
    <3>2. \A pc : u(pc).req = Recalled(r) /\ u(pc).code = AnswerTo(p, r).code
      OBVIOUS
    <3> HIDE DEF u
    <3> QED BY <3>1, <3>2
  <2>3. CASE r.bad = "none"
    <3>1. AboutConsent(t.req) => t.code = 0
      BY <2>1, <2>2, <2>3, ConsentVerifies DEF Recalled
    <3>2. AboutPayload(t.req) => t.code # 0
      BY <2>1, <2>2, <2>3, BarePayloadRefused DEF Recalled
    <3> QED BY <1>3, <2>2, <3>1, <3>2
  <2>4. CASE r.bad # "none"
    <3>1. ~AboutConsent(t.req) /\ ~AboutPayload(t.req)
      BY <2>2, <2>4 DEF Recalled, AboutConsent, AboutPayload
    <3> QED BY <1>3, <2>2, <3>1
  <2> QED BY <2>3, <2>4
<1>8. ASSUME NEW p \in Programs, MakeCopy(p) PROVE ConsentInv'
  <2> DEFINE t == thread[p]
  <2>1. t.pc = "copying" /\ Right(t) /\ t \in Thread
    BY <1>8, <1>1 DEF MakeCopy, BufferInv, BuffersTyped
  <2>2. PICK a :
          IF GivesUp(t, a)
          THEN thread' = [thread EXCEPT ![p] =
                 [pc |-> "told", req |-> t.req, code |-> 14, want |-> <<>>, made |-> <<>>]]
          ELSE thread' = [thread EXCEPT ![p] =
                 [t EXCEPT !.pc = IF Len(t.made) + 1 = Len(t.want) THEN "told" ELSE "copying",
                           !.made = Append(@, a)]]
    BY <1>8 DEF MakeCopy
  <2>3. CASE GivesUp(t, a)
    <3>1. ~AboutConsent(t.req) /\ ~AboutPayload(t.req)
      BY <2>3 DEF GivesUp, AboutConsent, AboutPayload
    <3> QED BY <1>3, <2>2, <2>3, <3>1
  <2>4. CASE ~GivesUp(t, a)
    <3>1. PICK u : u = [t EXCEPT !.pc = IF Len(t.made) + 1 = Len(t.want) THEN "told" ELSE "copying",
                                 !.made = Append(@, a)]
      OBVIOUS
    <3>2. u.req = t.req /\ u.code = t.code
      BY <2>1, <3>1 DEF Thread
    <3>3. thread' = [thread EXCEPT ![p] = u]
      BY <2>2, <2>4, <3>1
    <3> QED BY <1>3, <2>1, <3>2, <3>3
  <2> QED BY <2>3, <2>4
<1>9. ASSUME NEW p \in Programs, Take(p) \/ PublishVersion(p) \/ DoneReading(p)
      PROVE  ConsentInv'
  <2>1. thread' = [thread EXCEPT ![p] = Idle] /\ Right(Idle)
    BY <1>9, IdleTyped DEF Take, PublishVersion, DoneReading
  <2> QED BY <1>3, <2>1
<1>10. ASSUME NEW p \in Programs, LoadVersion(p) PROVE ConsentInv'
  <2>1. \/ UNCHANGED thread
        \/ \E t : t.pc = "racing" /\ thread' = [thread EXCEPT ![p] = t]
    BY <1>10 DEF LoadVersion
  <2> QED BY <1>3, <1>4, <2>1
<1>11. ASSUME NEW p \in Programs, NEW F \in Decodable, Decode(p, F) PROVE ConsentInv'
  <2>1. \E t : t.pc = "read" /\ thread' = [thread EXCEPT ![p] = t]
    BY <1>11 DEF Decode
  <2> QED BY <1>3, <2>1
<1>12. CASE UNCHANGED vars
  BY <1>4, <1>12 DEF vars
<1> QED
  BY <1>5, <1>6, <1>7, <1>8, <1>9, <1>10, <1>11, <1>12 DEF Next, CallStep

(* Bindings.ConsentAccepted: full verification accepts the statement of     *)
(* verax consent under its own key in every binding, and a statement of the *)
(* bare consent payload in none.                                            *)
THEOREM ConsentIsAccepted == Spec => []ConsentAccepted
<1>1. Init => ConsentInv
  BY IdleTyped DEF Init, ConsentInv
<1>2. ConsentInv => ConsentAccepted
  BY DEF ConsentInv, AboutConsent, AboutPayload, ConsentAccepted
<1> QED BY <1>1, <1>2, ConsentInvInductive, BufferInvAlways, PTL DEF Spec

----------------------------------------------------------------------------
(* The types *)

Bounded ==
  /\ held \in [Programs -> [ShredKeys -> 0..MaxCopies]] /\ alive \subseteq Programs
  /\ spread \subseteq born /\ calls \in 0..MaxCalls /\ ops \in 0..MaxOps

LEMMA Counted == /\ Begin /\ ops \in 0..MaxOps => ops' \in 0..MaxOps
                 /\ BeginCall /\ calls \in 0..MaxCalls => calls' \in 0..MaxCalls
BY DEF Begin, BeginCall

LEMMA CallsCounted ==
  ASSUME CallStep, ops \in 0..MaxOps, calls \in 0..MaxCalls
  PROVE  ops' \in 0..MaxOps /\ calls' \in 0..MaxCalls
<1>1. CASE CreateConsent \/ \E s \in SignKeys : Consent(s)
  BY <1>1, Counted DEF CreateConsent, Consent, ffiVars
<1>2. CASE \E p \in Programs : \E r \in Requests(p) : CallFfi(p, r) \/ CallDirect(p, r)
  BY <1>2, Counted DEF CallFfi, CallDirect, BeginCall
<1>3. CASE \E p \in Programs : MakeCopy(p) \/ Take(p) \/ PublishVersion(p) \/ DoneReading(p)
  BY <1>3 DEF MakeCopy, Take, PublishVersion, DoneReading
<1>4. CASE \E p \in Programs : LoadVersion(p)
  BY <1>4, Counted DEF LoadVersion, BeginCall
<1>5. CASE \E p \in Programs, F \in Decodable : Decode(p, F)
  BY <1>5, Counted DEF Decode, BeginCall
<1> QED BY <1>1, <1>2, <1>3, <1>4, <1>5 DEF CallStep

LEMMA BoundedInductive == KeyInv /\ Bounded /\ [Next]_vars => Bounded'
<1> SUFFICES ASSUME KeyInv, Bounded, [Next]_vars PROVE Bounded'
  OBVIOUS
<1> USE DEF Bounded
<1>1. ASSUME NEW p \in Programs, NEW k \in ShredKeys, Generate(p, k) \/ DropKey(p, k)
      PROVE  Bounded'
  <2>1. PICK n \in 0..MaxCopies : held' = [held EXCEPT ![p][k] = n]
    <3>1. CASE Generate(p, k)
      <4>1. 1 \in 0..MaxCopies
        OBVIOUS
      <4>2. held' = [held EXCEPT ![p][k] = 1]
        BY <3>1 DEF Generate
      <4> QED BY <4>1, <4>2
    <3>2. CASE DropKey(p, k)
      <4>1. held[p][k] - 1 \in 0..MaxCopies
        BY <3>2 DEF DropKey, Holds
      <4> QED BY <3>2, <4>1 DEF DropKey
    <3> QED BY <1>1, <3>1, <3>2
  <2>2. held' \in [Programs -> [ShredKeys -> 0..MaxCopies]]
    BY <2>1
  <2>3. Begin /\ UNCHANGED <<alive, spread, calls>> /\ born \subseteq born'
    BY <1>1 DEF Generate, DropKey, ffiVars
  <2> QED BY <2>2, <2>3, Counted
<1>2. ASSUME NEW p \in Programs, NEW q \in Programs, NEW k \in ShredKeys,
             Copy(p, q, k) \/ Wrap(p, q, k)
      PROVE  Bounded'
  <2>1. k \in born
    BY <1>2 DEF Copy, Wrap, KeyInv, HeldIsBorn
  <2>2. Begin /\ UNCHANGED <<alive, born, calls>> /\ spread' = spread \cup {k}
    BY <1>2 DEF Copy, Wrap, ffiVars
  <2>3. CASE Wrap(p, q, k)
    BY <2>1, <2>2, <2>3, Counted DEF Wrap
  <2>4. CASE Copy(p, q, k)
    <3>1. held[q][k] + 1 \in 0..MaxCopies /\ held' = [held EXCEPT ![q][k] = @ + 1]
      BY <2>4 DEF Copy
    <3> QED BY <2>1, <2>2, <3>1, Counted
  <2> QED BY <1>2, <2>3, <2>4
<1>3. ASSUME NEW p \in Programs, NEW w \in wraps, Unwrap(p, w) PROVE Bounded'
  <2>1. w.key \in ShredKeys /\ held' = [held EXCEPT ![p][w.key] = @ + 1]
    BY <1>3, UnwrapsOwn DEF KeyInv
  <2>2. held[p][w.key] < MaxCopies
    <3>1. p \in alive /\ w.to = p
      BY <1>3, UnwrapsOwn DEF KeyInv
    <3>2. hpke_decrypt_key(IF p \in alive THEN p ELSE Absent, w) = w.key
      BY <3>1 DEF hpke_decrypt_key
    <3> QED BY <1>3, <3>2 DEF Unwrap
  <2>3. held[p][w.key] + 1 \in 0..MaxCopies
    BY <2>1, <2>2
  <2>4. held' \in [Programs -> [ShredKeys -> 0..MaxCopies]]
    BY <2>1, <2>3
  <2>5. Begin /\ UNCHANGED <<alive, born, spread, calls>>
    BY <1>3 DEF Unwrap, ffiVars
  <2> QED BY <2>4, <2>5, Counted
<1>4. ASSUME NEW p \in Programs, LosePrivateKey(p) PROVE Bounded'
  BY <1>4, Counted DEF LosePrivateKey, ffiVars
<1>5. ASSUME NEW p \in Programs, NEW k \in ShredKeys, NEW ct \in Ciphertext, Erase(p, k, ct)
      PROVE  Bounded'
  <2>1. held[p][k] \in 0..MaxCopies /\ held[p][k] > 0
    BY <1>5 DEF Erase, Holds
  <2>2. AfterDrop(held[p][k]) \in 0..MaxCopies
    BY <2>1 DEF AfterDrop
  <2>3. held' \in [Programs -> [ShredKeys -> 0..MaxCopies]]
    BY <1>5, <2>2 DEF Erase
  <2>4. Begin /\ UNCHANGED <<alive, born, spread, calls>>
    BY <1>5 DEF Erase, ffiVars
  <2> QED BY <2>3, <2>4, Counted
<1>6. ASSUME NEW k \in ShredKeys, NEW text \in Texts, CliEncrypt(k, text) PROVE Bounded'
  BY <1>6, Counted DEF CliEncrypt, ffiVars
<1>7. CASE CallStep
  BY <1>7, CallsKeepKeys, CallsCounted DEF CallSteps
<1>8. CASE UNCHANGED vars
  BY <1>8 DEF vars
<1> QED BY <1>1, <1>2, <1>3, <1>4, <1>5, <1>6, <1>7, <1>8 DEF Next, KeyStep

(* Bindings.TypeOK: every variable keeps its type.                          *)
THEOREM BindingsTypeCorrect == Spec => []TypeOK
<1>1. Init => Bounded
  BY DEF Init, Bounded
<1>2. Spec => []Bounded
  BY <1>1, BoundedInductive, KeyInvAlways, PTL DEF Spec
<1>3. KeyInv /\ BufferInv /\ Bounded => TypeOK
  BY DEF KeyInv, KeysTyped, BufferInv, BuffersTyped, Bounded, TypeOK
<1> QED BY <1>2, <1>3, KeyInvAlways, BufferInvAlways, PTL

=============================================================================
