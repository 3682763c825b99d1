------------------------------ MODULE Bindings ------------------------------
(* Programs in Rust, C, Go, Python and Node that use one verax-core: they   *)
(* draw, hand over, wrap and erase shredding keys, and encode, sign, verify, *)
(* encrypt and commit through their binding. C and Go go through the FFI,   *)
(* whose results are buffers on a heap that all threads of the process      *)
(* share and whose allocation may fail; the others get values.              *)
EXTENDS Shredding

CONSTANTS
  Lang,        \* the language of every program
  SignKeys,    \* keys statements are signed with
  Predicates,  \* numbers passed to verax_encode_payload
  Ops,         \* the functions programs call
  Decodable,   \* fields of the payloads that are decoded
  NoText,      \* the empty plaintext
  Ptrs,        \* addresses malloc may return
  MaxCopies,   \* bound: copies of a key a program holds
  MaxCalls,    \* bound: calls of a binding among them
  MaxOps       \* bound: operations begun

FfiOps == {"verify_ed25519", "verify_composite", "verify_mldsa65_only",
           "sign_ed25519", "sign_composite", "encrypt_pii", "decrypt_pii",
           "shredding_commit", "encode_payload", "verify_full"}

ASSUME BindingsAssumption ==
  /\ Lang \in [Programs -> {"rust", "c", "go", "python", "node"}]
  /\ Predicates \subseteq [number : Nat] /\ Ops \subseteq FfiOps
  /\ Decodable \subseteq SUBSET {"timestamp", "object", "nonce", "lineage"}
  /\ Absent \notin Ptrs /\ MaxCopies \in Nat \ {0} /\ MaxCalls \in Nat /\ MaxOps \in Nat

VARIABLES
  held,     \* copies of each shredding key a program holds
  alive,    \* Rust programs that still have their HPKE private key
  wraps,    \* wrapped keys under way
  records,  \* erasure records
  pool,     \* payloads, statements, ciphertexts programs pass around
  born,     \* ghost: keys drawn so far
  spread,   \* ghost: keys copied, given away or wrapped
  heap,     \* what the buffer at an address holds, Absent if free
  thread,   \* the call each program is in
  version,  \* VERSION_CSTRING
  shown,    \* ghost: what verax_version has returned
  calls,    \* calls of a binding begun
  ops       \* operations begun, calls among them

keyVars == <<held, alive, wraps, records, born, spread>>
ffiVars == <<heap, thread, version, shown, calls>>
vars == <<held, alive, wraps, records, pool, born, spread,
          heap, thread, version, shown, calls, ops>>

Schemes == {"ed25519", "composite", "mldsa65"}
Stmt == [scheme : Schemes, key : SignKeys, payload : Payload]
Warnings == [warnings : BOOLEAN]
VersionString == [version : {"verax-core"}]
Bytes == Payload \cup Stmt \cup Ciphertext \cup Commitment \cup Plaintext
         \cup Warnings \cup VersionString

ASSUME BytesAssumption == Absent \notin Bytes

(* No statement is the empty byte string.                                   *)
ASSUME StmtAssumption == NoText \notin Stmt

(* Byte strings of length 0: no warnings, and an empty plaintext.           *)
IsEmpty(bytes) == bytes \in {[warnings |-> FALSE], [plain |-> NoText]}

Request == [op : FfiOps, bad : {"none", "null", "length"},
            key : ShredKeys \cup SignKeys \cup {BadLength, Absent},
            data : Texts \cup Bytes \cup [number : Nat]]
Idle == [pc |-> "idle", req |-> Absent, code |-> 0, want |-> <<>>, made |-> <<>>]
InC(p) == Lang[p] \in {"c", "go"}
Free == {a \in Ptrs : heap[a] = Absent}
Holds(p, k) == held[p][k] > 0

----------------------------------------------------------------------------
(* The functions *)

(* A signature of another scheme has another length; a wrong one is Crypto  *)
(* where it comes from ed25519_dalek, else InvalidSignature.                *)
verify(scheme, r) ==
  IF r.data.scheme # scheme THEN Err(IF scheme = "ed25519" THEN 1 ELSE 11)
  ELSE IF r.data.key # r.key THEN Err(IF scheme = "ed25519" THEN 11 ELSE 3)
  ELSE Ok(<<r.data.payload>>)

sign(scheme, r) == Ok(<<[scheme |-> scheme, key |-> r.key, payload |-> r.data]>>)

(* predicate as u8, then Predicate::from_u8.                                *)
PredicateUnchecked(r) == Ok(<<[predicate |-> r.data.number % 256, object |-> FALSE]>>)
encode_payload(r) ==
  LET n == r.data.number % 256
  IN IF n \in 0..8 THEN Ok(<<[predicate |-> n, object |-> FALSE]>>) ELSE Err(10)

ObjectMissing(p) == p.predicate \in {2, 3, 4, 7} /\ ~p.object

(* Without anchor there is always a warning.                                *)
verify_full(r) ==
  IF r.data.scheme # "ed25519" THEN Err(11)
  ELSE IF r.data.key # r.key THEN Err(11)
  ELSE IF ObjectMissing(r.data.payload) THEN Err(15)
  ELSE Ok(<<r.data.payload, [warnings |-> TRUE]>>)

(* The FFI functions: their checks, then the core. A null pointer comes     *)
(* first, then the length of a key, a seed or the subject; verify_full has  *)
(* no key if its length is wrong.                                           *)
Checked(r, lengthCode, answer) ==
  IF r.bad = "null" THEN Err(12) ELSE IF r.bad = "length" THEN Err(lengthCode) ELSE answer

verax_verify_ed25519(r) == Checked(r, 10, verify("ed25519", r))
verax_verify_composite(r) == Checked(r, 10, verify("composite", r))
verax_verify_mldsa65_only(r) == Checked(r, 10, verify("mldsa65", r))
verax_sign_ed25519(r) == Checked(r, 10, sign("ed25519", r))
verax_sign_composite(r) == Checked(r, 10, sign("composite", r))
verax_encrypt_pii(r) == Checked(r, 11, encrypt_pii(r.key, r.data))
verax_decrypt_pii(r) == Checked(r, 11, decrypt_pii(r.key, r.data))
verax_shredding_commit(r) == Checked(r, 11, shredding_commit(r.key, r.data))
verax_encode_payload(r) == Checked(r, 10, encode_payload(r))
verax_verify_full(r) == Checked(r, 11, verify_full(r))

Answer(r) ==
  CASE r.op = "verify_ed25519"      -> verax_verify_ed25519(r)
    [] r.op = "verify_composite"    -> verax_verify_composite(r)
    [] r.op = "verify_mldsa65_only" -> verax_verify_mldsa65_only(r)
    [] r.op = "sign_ed25519"        -> verax_sign_ed25519(r)
    [] r.op = "sign_composite"      -> verax_sign_composite(r)
    [] r.op = "encrypt_pii"         -> verax_encrypt_pii(r)
    [] r.op = "decrypt_pii"         -> verax_decrypt_pii(r)
    [] r.op = "shredding_commit"    -> verax_shredding_commit(r)
    [] r.op = "encode_payload"      -> verax_encode_payload(r)
    [] r.op = "verify_full"         -> verax_verify_full(r)

(* Go passes the first byte's address, and null for an empty slice.         *)
GoRequest(r) == IF r.data = NoText THEN [r EXCEPT !.bad = "null"] ELSE r

(* Python and Node have neither null nor verify_mldsa65_only; what they     *)
(* raise for a wrong length has no code, and encode_payload takes a name.   *)
Raised == Err(10)
PyAnswer(r) ==
  IF r.op = "encode_payload" /\ r.data.number > 8 THEN Raised ELSE Answer(r)
NodeAnswer(r) == PyAnswer(r)

(* What program p is answered; a Rust caller's arguments have their types.  *)
Offered(p) == IF Lang[p] \in {"python", "node"} THEN Ops \ {"verify_mldsa65_only"} ELSE Ops
Mistakes(p) ==
  {"none"} \cup (IF Lang[p] = "rust" THEN {} ELSE {"length"}) \cup IF InC(p) THEN {"null"} ELSE {}

AnswerTo(p, r) ==
  CASE Lang[p] = "go"     -> Answer(GoRequest(r))
    [] Lang[p] = "python" -> PyAnswer(r)
    [] Lang[p] = "node"   -> NodeAnswer(r)
    [] OTHER              -> Answer(r)

----------------------------------------------------------------------------
(* verax_payload_decode. lib.rs writes ten outputs, verax_core.h declares   *)
(* nine: without out_has_timestamp every later pointer is one to the left   *)
(* and the last is whatever stands there.                                   *)

Field == {"timestamp", "object", "nonce", "lineage"}

(* What a caller sees of each field: nothing, its value, or another one.    *)
Seen == [Field -> {"absent", "right", "wrong"}]
payload_decode(F) == [f \in Field |-> IF f \in F THEN "right" ELSE "absent"]

(* The flag of object is overwritten with the timestamp, that of nonce with *)
(* the object, that of lineage with the nonce; the timestamp is the flag.   *)
MayBeSet(f, F) ==
  \/ f = "object" /\ "timestamp" \in F
  \/ f = "nonce" /\ "object" \in F
  \/ f = "lineage" /\ "nonce" \in F

DecodePayload(F) ==
  {seen \in Seen :
     /\ \A f \in Field \ {"timestamp"} :
          seen[f] # "right" /\ (seen[f] = "wrong" => MayBeSet(f, F))
     /\ seen["timestamp"] =
          IF "timestamp" \in F \/ \E f \in Field \ {"timestamp"} : seen[f] # "absent"
          THEN "wrong" ELSE "absent"}

----------------------------------------------------------------------------
(* Actions *)

Init ==
  /\ held = [p \in Programs |-> [k \in ShredKeys |-> 0]]
  /\ alive = {p \in Programs : Lang[p] = "rust"}
  /\ wraps = {} /\ records = {} /\ pool = {} /\ born = {} /\ spread = {}
  /\ heap = [a \in Ptrs |-> Absent]
  /\ thread = [p \in Programs |-> Idle]
  /\ version = Absent /\ shown = {} /\ calls = 0 /\ ops = 0

Begin == ops < MaxOps /\ ops' = ops + 1
BeginCall == Begin /\ calls < MaxCalls /\ calls' = calls + 1

(* A program draws a key.                                                   *)
Generate(p, k) ==
  /\ Begin /\ k \notin born
  /\ held' = [held EXCEPT ![p][k] = 1] /\ born' = born \cup {k}
  /\ UNCHANGED <<alive, wraps, records, pool, spread, ffiVars>>

(* clone, or to_bytes handed to another program.                            *)
Copy(p, q, k) ==
  /\ Begin /\ Holds(p, k) /\ held[q][k] < MaxCopies
  /\ held' = [held EXCEPT ![q][k] = @ + 1] /\ spread' = spread \cup {k}
  /\ UNCHANGED <<alive, wraps, records, pool, born, ffiVars>>

(* No binding exports HPKE: sender and recipient are Rust programs.         *)
Wrap(p, q, k) ==
  /\ Begin /\ Lang[p] = "rust" /\ Lang[q] = "rust" /\ Holds(p, k)
  /\ hpke_encrypt_key(q, k) \notin wraps
  /\ wraps' = wraps \cup {hpke_encrypt_key(q, k)} /\ spread' = spread \cup {k}
  /\ UNCHANGED <<held, alive, records, pool, born, ffiVars>>

Unwrap(p, w) ==
  LET k == hpke_decrypt_key(IF p \in alive THEN p ELSE Absent, w)
  IN /\ Begin /\ w \in wraps /\ k # Absent /\ held[p][k] < MaxCopies
     /\ held' = [held EXCEPT ![p][k] = @ + 1]
     /\ UNCHANGED <<alive, wraps, records, pool, born, spread, ffiVars>>

(* A program destroys its HPKE private key.                                 *)
LosePrivateKey(p) ==
  /\ Begin /\ p \in alive /\ alive' = alive \ {p}
  /\ UNCHANGED <<held, wraps, records, pool, born, spread, ffiVars>>

(* A copy goes out of scope: zeroize(drop).                                 *)
DropKey(p, k) ==
  /\ Begin /\ Holds(p, k)
  /\ held' = [held EXCEPT ![p][k] = @ - 1]
  /\ UNCHANGED <<alive, wraps, records, pool, born, spread, ffiVars>>

Erase(p, k, ct) ==
  /\ Begin /\ Lang[p] = "rust" /\ Holds(p, k)
  /\ held' = [held EXCEPT ![p][k] = AfterDrop(@)]
  /\ records' = records \cup {erasure_protocol(k, ct)}
  /\ UNCHANGED <<alive, wraps, pool, born, spread, ffiVars>>

(* verax encrypt draws a key that nobody gets to see.                       *)
CliEncrypt(k, text) ==
  /\ Begin /\ k \notin born
  /\ born' = born \cup {k} /\ pool' = pool \cup {encrypt_pii(k, text).outs[1]}
  /\ UNCHANGED <<held, alive, wraps, records, spread, ffiVars>>

(* verax consent.                                                           *)
Consent(s) ==
  /\ Begin
  /\ pool' = pool \cup {[scheme |-> "ed25519", key |-> s, payload |-> consent_statement]}
  /\ UNCHANGED <<keyVars, ffiVars>>

(* An application that signs what create_consent_payload returns.           *)
CreateConsent ==
  /\ Begin /\ pool' = pool \cup {create_consent_payload}
  /\ UNCHANGED <<keyVars, ffiVars>>

(* What program p may ask for: the data is in the pool, a shredding key is  *)
(* one it holds, a null or a wrong length may stand anywhere.               *)
Among(kind) == {b \in pool : b \in kind}
HeldBy(p) == {k \in ShredKeys : Holds(p, k)}

Asked(p, functions, keys, inputs) ==
  [op : Offered(p) \cap functions, bad : Mistakes(p), key : keys, data : inputs]

Requests(p) ==
  Asked(p, {"verify_ed25519", "verify_composite", "verify_mldsa65_only", "verify_full"},
        SignKeys, Among(Stmt))
  \cup Asked(p, {"sign_ed25519", "sign_composite"}, SignKeys, Among(Payload))
  \cup Asked(p, {"encrypt_pii", "shredding_commit"}, HeldBy(p), Texts)
  \cup Asked(p, {"decrypt_pii"}, HeldBy(p), Among(Ciphertext))
  \cup Asked(p, {"encode_payload"}, {Absent}, Predicates)

(* A refusal at the entry does not depend on the rest of the request.       *)
Recalled(r) == IF r.bad = "none" THEN r ELSE Absent

(* A call of C or Go: refused at once, or its results are to be copied.     *)
CallFfi(p, r) ==
  LET answer == AnswerTo(p, r)
  IN /\ BeginCall /\ InC(p) /\ thread[p].pc = "idle" /\ r \in Requests(p)
     /\ thread' = [thread EXCEPT ![p] =
          [pc |-> IF answer.code = 0 THEN "copying" ELSE "told", req |-> Recalled(r),
           code |-> answer.code, want |-> answer.outs, made |-> <<>>]]
     /\ UNCHANGED <<keyVars, pool, heap, version, shown>>

(* A call of Rust, Python or Node.                                          *)
CallDirect(p, r) ==
  LET answer == AnswerTo(p, r)
  IN /\ BeginCall /\ ~InC(p) /\ thread[p].pc = "idle" /\ r \in Requests(p)
     /\ thread' = [thread EXCEPT ![p] =
          [pc |-> "told", req |-> Recalled(r), code |-> answer.code, want |-> answer.outs,
           made |-> <<>>]]
     /\ UNCHANGED <<keyVars, pool, heap, version, shown>>

(* make_copy: null for an empty slice or when malloc fails.                 *)
make_copy(bytes) == IF IsEmpty(bytes) THEN {Absent} ELSE Free \cup {Absent}

(* verax_verify_full looks at no pointer, the others give up at a null.     *)
SecondUnchecked(t, a) == a = Absent /\ t.req.op # "verify_full" /\ Len(t.made) = 0
GivesUp(t, a) == a = Absent /\ t.req.op # "verify_full"

(* The buffers a call has made so far are freed.                            *)
NothingFreed(t) == heap
Freed(t) == [a \in Ptrs |-> IF \E i \in DOMAIN t.made : t.made[i] = a THEN Absent ELSE heap[a]]

MakeCopy(p) ==
  LET t == thread[p]
      i == Len(t.made) + 1
  IN /\ t.pc = "copying"
     /\ \E a \in make_copy(t.want[i]) :
          IF GivesUp(t, a)
          THEN /\ heap' = Freed(t)
               /\ thread' = [thread EXCEPT ![p] =
                    [pc |-> "told", req |-> t.req, code |-> 14, want |-> <<>>, made |-> <<>>]]
          ELSE /\ heap' = [b \in Ptrs |-> IF b = a THEN t.want[i] ELSE heap[b]]
               /\ thread' = [thread EXCEPT ![p] =
                    [t EXCEPT !.pc = IF i = Len(t.want) THEN "told" ELSE "copying",
                              !.made = Append(@, a)]]
     /\ UNCHANGED <<keyVars, pool, version, shown, calls, ops>>

(* The caller copies the buffers, frees them with verax_free and hands on   *)
(* what is of use to others.                                                *)
Take(p) ==
  LET t == thread[p]
      got == IF InC(p) THEN {heap[t.made[i]] : i \in {j \in DOMAIN t.made : t.made[j] # Absent}}
             ELSE {t.want[i] : i \in DOMAIN t.want}
  IN /\ t.pc = "told"
     /\ pool' = pool \cup {b \in got : b \in Payload \cup Stmt \cup Ciphertext}
     /\ heap' = [a \in Ptrs |-> IF \E i \in DOMAIN t.made : t.made[i] = a THEN Absent ELSE heap[a]]
     /\ thread' = [thread EXCEPT ![p] = Idle]
     /\ UNCHANGED <<keyVars, version, shown, calls, ops>>

(* verax_version: the pointer is loaded, and made if null ...               *)
LoadVersion(p) ==
  /\ BeginCall /\ InC(p) /\ thread[p].pc = "idle"
  /\ IF version # Absent
     THEN shown' = shown \cup {version} /\ UNCHANGED <<heap, thread>>
     ELSE /\ \E a \in Free :
               /\ heap' = [heap EXCEPT ![a] = [version |-> "verax-core"]]
               /\ thread' = [thread EXCEPT ![p] =
                    [pc |-> "racing", req |-> Absent, code |-> 0, want |-> <<>>, made |-> <<a>>]]
          /\ UNCHANGED shown
  /\ UNCHANGED <<keyVars, pool, version>>

(* ... and published, if nobody was faster; else the own string is freed.   *)
StoreMine(mine) == mine
compare_exchange(mine) == IF version = Absent THEN mine ELSE version

PublishVersion(p) ==
  LET t == thread[p]
      stored == compare_exchange(t.made[1])
  IN /\ t.pc = "racing"
     /\ version' = stored /\ shown' = shown \cup {stored}
     /\ heap' = IF stored = t.made[1] THEN heap ELSE Freed(t)
     /\ thread' = [thread EXCEPT ![p] = Idle]
     /\ UNCHANGED <<keyVars, pool, calls, ops>>

(* A payload with the fields F is decoded, through the header or directly;  *)
(* the stray pointer may be null.                                           *)
Decode(p, F) ==
  /\ BeginCall /\ thread[p].pc = "idle"
  /\ \E seen \in IF InC(p) THEN DecodePayload(F) ELSE {payload_decode(F)},
        code \in IF InC(p) THEN {0, 12} ELSE {0} :
       thread' = [thread EXCEPT ![p] =
         [pc |-> "read", req |-> [op |-> "payload_decode", fields |-> F], code |-> code,
          want |-> IF code = 0 THEN <<seen>> ELSE <<>>, made |-> <<>>]]
  /\ UNCHANGED <<keyVars, pool, heap, version, shown>>

DoneReading(p) ==
  /\ thread[p].pc = "read" /\ thread' = [thread EXCEPT ![p] = Idle]
  /\ UNCHANGED <<keyVars, pool, heap, version, shown, calls, ops>>

KeyStep ==
  \/ \E p \in Programs, k \in ShredKeys : Generate(p, k) \/ DropKey(p, k)
  \/ \E p, q \in Programs, k \in ShredKeys : Copy(p, q, k) \/ Wrap(p, q, k)
  \/ \E p \in Programs, w \in wraps : Unwrap(p, w)
  \/ \E p \in Programs : LosePrivateKey(p)
  \/ \E p \in Programs, k \in ShredKeys, ct \in Ciphertext \cap pool : Erase(p, k, ct)
  \/ \E k \in ShredKeys, text \in Texts : CliEncrypt(k, text)

CallStep ==
  \/ \E s \in SignKeys : Consent(s)
  \/ CreateConsent
  \/ \E p \in Programs : \E r \in Requests(p) : CallFfi(p, r) \/ CallDirect(p, r)
  \/ \E p \in Programs : MakeCopy(p) \/ Take(p)
  \/ \E p \in Programs : LoadVersion(p) \/ PublishVersion(p)
  \/ \E p \in Programs, F \in Decodable : Decode(p, F)
  \/ \E p \in Programs : DoneReading(p)

Next == KeyStep \/ CallStep

Spec == Init /\ [][Next]_vars

----------------------------------------------------------------------------
(* Properties *)

Thread == [pc : {"idle", "copying", "told", "racing", "read"},
           req : Request \cup {Absent} \cup [op : {"payload_decode"}, fields : SUBSET Field],
           code : 0..18, want : Seq(Bytes \cup Seen), made : Seq(Ptrs \cup {Absent})]

(* Every variable keeps its type.                                           *)
TypeOK ==
  /\ held \in [Programs -> [ShredKeys -> 0..MaxCopies]]
  /\ alive \subseteq Programs /\ wraps \subseteq Wrapped /\ records \subseteq ErasureRecord
  /\ pool \subseteq Bytes /\ born \subseteq ShredKeys /\ spread \subseteq born
  /\ heap \in [Ptrs -> Bytes \cup {Absent}]
  /\ thread \in [Programs -> Thread]
  /\ version \in Ptrs \cup {Absent} /\ shown \subseteq Ptrs 
  /\ calls \in 0..MaxCalls /\ ops \in 0..MaxOps

(* Callers of verax_version that race for the first string all get one      *)
(* pointer, to a string that is never freed (lib.rs:131).                   *)
VersionIsOne ==
  /\ Cardinality(shown) <= 1
  /\ \A a \in shown : heap[a] = [version |-> "verax-core"]

(* A buffer is in use exactly if one call, one caller or the version string *)
(* owns it: none leaks on a path where the second of two allocations fails, *)
(* none has two owners that would both free it.                             *)
Owners(a) ==
  {o \in Programs \X (1..2) : o[2] \in DOMAIN thread[o[1]].made /\ thread[o[1]].made[o[2]] = a}
  \cup (IF version = a THEN {<<Absent, 0>>} ELSE {})

EveryBufferOwned ==
  \A a \in Ptrs : Cardinality(Owners(a)) = IF heap[a] = Absent THEN 0 ELSE 1

(* A call that reports success has handed over every result, each in a      *)
(* buffer that still holds it, however other threads' calls interleave;     *)
(* verax_verify_full is the exception, it ignores a failed allocation.      *)
AllOrNothing ==
  \A p \in Programs :
    LET t == thread[p]
    IN /\ t.pc = "told" /\ t.code = 0 /\ InC(p) /\ t.req.op # "verify_full"
       => \A i \in DOMAIN t.want :
            i \in DOMAIN t.made /\ t.made[i] # Absent /\ heap[t.made[i]] = t.want[i]

(* Nobody can decrypt what was encrypted under k any more.                  *)
Lost(k) ==
  /\ \A p \in Programs : ~Holds(p, k)
  /\ \A w \in wraps : w.key = k => w.to \notin alive

(* An erasure record about a ciphertext under its own key means what it     *)
(* says, unless the key had been copied, handed over or wrapped: the call   *)
(* drops one copy and looks for no other (shred.rs erasure_protocol).       *)
RecordedErasure ==
  \A r \in records :
    /\ r.ciphertext_commitment.of.key = r.key_id
    /\ r.key_id \notin spread
    => Lost(r.key_id)

(* A key that was lost stays lost, whichever wrapped copies are still about *)
(* and whoever opens them.                                                  *)
OnceLostForever == [][\A k \in born : Lost(k) => Lost(k)']_vars

(* The statement of verax consent is accepted by full verification under    *)
(* its key in every binding; a statement an application makes of the        *)
(* consent payload itself is accepted by none, under no key.                *)
ConsentAccepted ==
  \A p \in Programs :
    LET t == thread[p]
        statement == t.req.data
    IN t.pc = "told" /\ t.req # Absent /\ t.req.op = "verify_full"
       => /\ statement = [scheme |-> "ed25519", key |-> t.req.key, payload |-> consent_statement]
             => t.code = 0
          /\ statement.payload = create_consent_payload => t.code # 0

(* verax_core.h on verax_payload_decode: "Decode a CBOR payload into its    *)
(* fields."                                                                 *)
DecodedAsEncoded ==
  \A p \in Programs :
    LET t == thread[p]
    IN t.pc = "read" /\ t.code = 0 => t.want[1] = payload_decode(t.req.fields)

=============================================================================
