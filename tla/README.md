# A verification development of verax-core

Verax is a provenance protocol: a *statement* is a deterministic CBOR payload in a
signed COSE envelope, statements name each other by the BLAKE3 of their bytes, and a
verifier decides, against a *trust store* and optionally a transparency log, whether a
statement is to be believed. This directory models the parts of the repository that
decide something or keep state, checks them with TLC and proves the main results with
TLAPS. Paths below are relative to the repository's root.

## 1. The system

| Component | Code | State | Operations |
|---|---|---|---|
| Verification pipeline | `crates/verax-core/src/verify.rs` 255-555 | the statement at hand, the current link of the lineage, the warnings | `verify_statement_with_warnings`, `verify_temporal_anchor` |
| Trust store | the trait at `verify.rs` 131-179; implementations in the CLI, FFI, Python and Node crates | keys, statements by hash, a revocation cache with a checkpoint, a log key | `resolve_*`, `fetch_statement`, `is_revoked_in_log`, `is_key_revoked`, `resolve_log_pubkey` |
| Key rotation | `verify.rs` 187-229 | current kid, visited kids | `resolve_rotated_key_default` |
| Payload codec | `cbor.rs` | none | `encode_payload`, `decode_payload`, `is_strictly_deterministic`, `RecoveryPolicy` |
| COSE envelope | `cose.rs`, `statement.rs` | none | sign, parse, verify: Ed25519, composite, ML-DSA, three migration modes |
| Temporal anchors | `ct.rs` | none; the log's leaves and heads are outside | `compute_root`, `verify_inclusion`, `verify_sth_signature` |
| Key directory | `crates/verax-cli/src/commands/key.rs`, `sign.rs` | the files of `.verax/keys` | generate, import, rotate, export, list, sign |
| Key store | `hsm.rs` | a map from kid to key material | generate, sign, delete, list; references that outlive the key |
| Shredding and consent | `shred.rs` | a key in memory | encrypt, decrypt, `erasure_protocol`, `create_consent_payload` |
| Verify command | `commands/verify.rs` | a store built from files | one verification, its report and exit status |
| Bindings | `verax-core-ffi`, `-go`, `-python`, `-node` | buffers handed to the caller, one lazily made string | the core's operations on byte arrays |
| The rest | `graph`, `lint`, `inspect`, `log`, `did`, `doctor`, tutorials | project files | reading and printing |

How they interact. A signer encodes a payload (codec), signs it (envelope) with a key
from the key directory, possibly after a log has given it an anchor, and the bytes
travel. A verifier parses them, asks the trust store for the key, fetches the lineage
and the objects of REVOKES and RECOVERS from it by hash, checks the anchor, and asks it
for the revocation status. Everything the pipeline believes about other statements
comes from calls to a trait object that "may be a local cache, remote node, HSM, etc."
(`verify.rs` 30-33), made one after another within one verification. The bindings
decode CBOR they are given and sign the result; C and Go do so through buffers of one
heap that all threads share. Keys are held by applications or in a key store that
hands out references, and reach a verifier as exported bytes. Several CLI processes
share one key directory that nothing locks.

What is hard here:

- *A store that moves.* Up to `MAX_LINEAGE_DEPTH` fetches, two status queries and a
  key rotation walk happen at different times. The tests use stores that never change.
- *Rules about chains enforced edge by edge.* Order and subject of a lineage are
  compared between neighbours only.
- *Knowledge with a date.* The revocation cache answers up to a checkpoint, an anchor
  proves presence at the time of a tree head, and the log goes on growing.
- *Two definitions of canonical.* The decoder checks some rules, re-encoding others.
- *Files.* Truncate and write, no temporary names, no locks, names made from the clock;
  `verax verify` reads several of them one after another.
- *Names that outlive things.* A reference to a deleted key, a copy of an erased one, a
  buffer whose sibling could not be allocated.
- *The same message, rebuilt.* Signer and verifier each put together the bytes that are
  signed, and a kid is hashed in two orders.
- *Five front ends.* The command line and four bindings each build a trust store and
  map errors by rules of their own.

What makes each part correct:

- pipeline: a verdict without a warning means what it says (`NoWarningMeansProven`),
  the lineage walked is the one committed to, in order and about one subject, REVOKES
  and RECOVERS have their issuer's authority, known revocations are not missed, the
  call ends; and all of it together implements a judgement made in one step;
- rotation: a resolved key is linked to the kid by rotations the store vouches for,
  none of them revoked, and the walk ends;
- anchors: what is accepted was logged in time, and carries the anchor its signer gave;
- codec: what is accepted is canonical, what is signed within the limits is read back;
- envelope and key store: a reference denotes one key for ever, what an entry point
  accepts was signed by the owner of every key half it asked for, the header names the
  key that verified it, and what arrives unharmed at a recipient with the key verifies;
- verify command and stores: targets that are whole on disk are checked, nobody is told
  without reserve that a statement stands which was revoked by the time of its anchor,
  what the report marks as passed is so, or is qualified where it stands, and the front
  ends agree;
- key directory: whatever a key has signed, the key is on disk;
- shredding: a recorded erasure of a key that was never copied means the data is lost,
  lost stays lost, and the command line's consent statements are accepted while one made
  of the bare consent payload never is;
- bindings: every buffer has exactly one owner, a call hands over all its results or
  none, and one version string is shared by all callers.

## 2. Modules

| Module | What it is | Code |
|---|---|---|
| `Statements` | the data: statements, hashes, anchors, policies | `cbor.rs`, `predicate.rs`, `ct.rs` types |
| `Checks` | the checks made between two store calls, as functions of statements | `verify.rs` 255-555 |
| `Verifier` | one call of the pipeline, one action per store call, with the store's world changing between them | `verify.rs` 255-555 |
| `VerifyContract` | what a caller is promised: an abstract specification that judges the statement in one step | - |
| `VerifierProofs` | the pipeline's invariants, and its refinement of the contract, proved | - |
| `KeyRotation`, `KeyRotationProofs` | the rotation resolver and the checks that use it | `verify.rs` 187-229, 276-289 |
| `MerkleTree` | audit paths and the padded tree of the repository's log | `ct.rs` 102-138, `tests/verax_use_cases.rs` |
| `TransparencyLog`, `TransparencyLogProofs` | a log that grows, an author, an envelope that travels, a verifier | `ct.rs`, `verify.rs` 445-544, `cose.rs` 225-290, `statement.rs` 147-167 |
| `Envelope` | signatures, kids, headers and entry points, as operators | `cose.rs`, `verify.rs`, `statement.rs` |
| `KeyStore` | the secure key store and the references it hands out | `hsm.rs` |
| `Custody`, `CustodyProofs` | signers, a wire that damages and mixes, a recipient; extends the two above | `cose.rs`, `hsm.rs`, the CLI's key import |
| `KeyDirectory`, `KeyDirectoryProofs` | CLI processes over one key directory | `key.rs`, `sign.rs` |
| `TrustStores` | the stores of the CLI and the bindings, and a verification against one, as functions | `commands/verify.rs`, `verax-core-ffi`, `-python`, `-node`, `-go` |
| `FrontEnds`, `FrontEndsProofs` | `verax verify` file by file, its report and exit status, and the bindings beside it | `commands/verify.rs`, `main.rs` |
| `Shredding` | encryption, commitments, HPKE, erasure, consent, as operators | `shred.rs`, `encrypt.rs`, `consent.rs` |
| `Bindings` | programs in five languages over one library: keys, calls, buffers; extends `Shredding` | `verax-core-ffi`, `-go`, `-python`, `-node`, `shred.rs` |
| `BindingsProofs` | key custody, the heap and consent, proved | - |
| `PayloadCodec`, `PayloadCodecProofs` | encoder, decoder and the determinism test | `cbor.rs` |
| `MC*` | instances for TLC | - |

One call is modelled at several depths. `Verifier` takes key resolution as one step
with the answers of the repository's stores, none of which follows rotations (the
trait's default is `resolve_key`); `KeyRotation` opens that step for a store that uses
`resolve_rotated_key_default`, and ends at the signature. `Verifier` takes an anchor as
three facts about it; `TransparencyLog` is where those facts come from. `Verifier` takes
parsing as an outcome (`form`); `PayloadCodec` opens it for the payload and `Envelope`
for the envelope. `FrontEnds` makes the same checks (`Checks`) against stores that
cannot move once built, where the files they are built from do.

### Verifier

`pc` is the place between two store calls; the local computation that follows a call is
part of its action. `path` is the list of statements the lineage loop has walked, the
current one last (the code keeps only that one). `served` is what `fetch_statement`
answers for each hash: the statement itself, nothing, or another statement's bytes.
`Start` is parsing and header checks; `ResolveKey`, `CheckKeyStatus` and
`VerifySignature` the algorithm match (lines 276-333); `WalkLineage` one iteration of
the loop (338-386) and `LineageDone` its two ends; `CheckRevokes` and `CheckRecovers`
389-443; `CheckAnchor` 445-544; `CheckRevocation` 546-554. `ServeOther`, `RevokeKey`,
`LogRevocation`, `Tick`, `RefreshCache` and `Connectivity` are the store's world and
exist only through the trait. That world has a clock, `now`: `revokedAt` is when the
REVOKES of a statement entered the log, and a cache rebuilt at a moment has that moment
as its checkpoint and everything logged before it, and may be consulted long after. A hash is a number and `pool` maps it to its content, so BLAKE3 has no
collisions; a signature is the name of the key that made it. `atStart`, `unstable` and
`outage` are ghosts: what the store knew when the call began, and in which hashes and
when it failed to be what the property assumes.

### VerifyContract

The contract knows nothing of walks, caches or a `pc`. A statement is handed in, and at
some later moment it is accepted or rejected, once. It may be accepted only if it is
authentic, if a line of ancestors leads from it to a root or to the bound
(`LineageHolds`: a function from 0..n to statements, each edge in order and about one
subject), and if its anchor is sound; if it is anchored and was listed as revoked when
the call began, it comes with a warning. `Verifier` implements it with `pc` mapped to
`outcome`.

### KeyRotation

`trail` is `current_kid` of every iteration, so its elements are the `visited` set. Each
of the six store calls (resolve, two status queries of the loop, fetch, resolve of the
predecessor, the verifier's own status query) is an action.

### TransparencyLog and MerkleTree

A hash is the term it was computed from, which makes SHA-256 free of collisions and its
two prefixes two tags. `heads` are the heads the log signed; `AnchorFiles` are what an
author may hold: any path of any tree up to now, claiming its own index or another, with
any signed head, the head altered in one field, or another log's. `SignStatement` binds
the anchor twice as the code does, by `anchor_hash` in the payload and by `external_aad`
in the signature. `Reattach` replaces the unprotected header on the way. `compute_root`
is a function of the number of siblings folded so far, `Levels` of the level and the
position on it, so that theorems can be proved about both.

### Envelope, KeyStore and Custody

`Envelope` has no variables: it is what `cose.rs` and the header checks of `verify.rs`
compute. A key is its algorithm and its halves; a kid is its length and the public keys
it was hashed over, in order; a signature is a sequence of halves, each the scheme, the
key and the `Sig_structure` it was made over, so a half that nobody made cannot appear.
`Ed25519` and `Ed25519ph` halves differ, which is what keeps a composite's half from
passing for a plain signature. A wrong Ed25519 signature is reported as `Crypto`, the
error `ed25519_dalek`'s is converted to (`error.rs` 136), in the other two schemes as
`InvalidSignature`; over the FFI that is 11 or 3.

`keys` of `KeyStore` is the `BTreeMap` of `SoftwareKeyStore`; `refs` are the references
held by callers, which are plain data and survive `delete`; `relist` gives a caller the
references `list_keys` makes up from the map. `Custody` signs with own keys
(`Sign`) and through references (`SignStored`), and moves envelopes over a wire that
may spoil any part of one, exchange parts of two, or cut a composite signature in
halves. Its recipient has read public keys from exported bytes and asks any of the entry
points, against a store that looks keys up by kid or one that has a single key.

### KeyDirectory

Each command is a script of file operations; `fs::write` is two of them, the truncation
and the write. A process may be killed between any two, after which a file of its own
may be empty. The steps of a script are in the order of the calls in the source.

### TrustStores and FrontEnds

`TrustStores` builds each front end's store from the arguments it takes and answers a
verification against it with `Checks`: nothing changes after a store is built, so this
is a function. The differences between the five are definitions of their own: which
arguments a front end can express at all, what it does with a key of the wrong length, a
point off the curve, a checkpoint of zero, a listed hash between spaces.

`FrontEnds` is the command: it reads the statement, tries the chain files in any order,
reads the cache, judges, reports. Between the steps other programs empty, rewrite and
remove the files, so that they are absent, empty, cut short or whole, and revocations
are logged; an empty statement is an error with exit status 1, one cut short is judged.
A report is a set of claims, one for each step it marks as passed: `Sections` are those
of `build_sections`, made of every accepted statement, `ExplainSections` those of
`--explain`. `Fact` says what each of them asserts. `steady` are the statements whose files
were whole all along, a ghost. Beside it an application passes what the command has read
to `verify_full` of one of the bindings.

### Shredding and Bindings

`Shredding` is what `shred.rs` computes, with ideal ciphers: a ciphertext is the key and
the text. In `Bindings` programs draw shredding keys, clone, give, wrap (HPKE), open,
drop and erase them, and call the library. `thread` is the call a program is in; a call
of C or Go computes, then allocates its results one by one (`malloc` may fail at each),
then reports, and the caller frees. `version` is `VERSION_CSTRING`, published by a
compare-and-exchange whose loser frees its own string. Rust, Python and Node calls get
values. A payload's CBOR is the record of its fields; `Decode` is
`verax_payload_decode` as it is reached through the C header.

### PayloadCodec

A payload maps the keys of the fields it has to values; CBOR is the same tree with the
width of each head. Besides what the decoder reads there are three kinds of items that
only `skip_value` meets, under keys nobody knows: text and negative numbers, which it
passes over, and with them a last number or string that the end of the bytes cuts off;
true, null and the unnamed simple values, which it passes over too (`Simple`); false,
undefined, floats and simple values of two bytes, which it refuses (`Other`). The encoder
is `encode_payload`, whose push order, sort and dropped empty map are kept; the decoder
keeps every rejection that such a tree can show.

The functions of the code call themselves on nested values. Here each is a function
defined level by level: `Value[d]` are the values that nest at most `d` deep,
`encode_value[d]` encodes them, `decode_any_value_depth[d]` reads CBOR of that nesting at
every depth counter, and each is made of itself one level down by an operator that is the
body of the code's function (`Encoder`, `ValueReader`, `Skipped`). `MaxNesting` is how
deep the values of an instance nest, apart from the decoder's own limit `MaxDepth`: it
is any number, so that the theorems hold for trees of every size. The two sorts of the
code, stable, are `SortedByKey`: the entry at place `k` is the one that `k - 1` others
come before.

## 3. Runs

Passing runs and their bounds:

| Run | Bounds | Shows |
|---|---|---|
| `pipeline` | chains of up to four statements, loop bound 2; REVOKES and RECOVERS of a target; one statement that is lost or misfiled while the call runs; two keys | type, the committed lineage, order and subject over stretches, issuer's and guardian's authority, implements the contract, so also that the call ends |
| `evidence` | every form, algorithm and anchor of one statement, heads signed or not; a key and a statement being revoked, a cache rebuilt or not at any time of a clock that runs from 0 to 3, outages | known revocations are refused or reported; no warning means a signed head, included, in time, and no REVOKES logged before it |
| `rotation` | three keys, every combination of rotation statements between them, one key learned and forgotten, keys revoked | type, links of the trail, revocations, no kid twice, the walk ends |
| `padded_log` | five entries, two clock ticks, one signed head | an accepted anchor was logged in time, is at its index, is the signer's own; an issued one is accepted |
| `key_files` | three processes, three names, eleven commands | endorsement before the key, keys kept, imports replace nothing settled |
| `codec` | all optional fields; extension maps of up to four entries and four deep with bounds of four; CBOR of every head, type and order, items that are only skipped | canonical form, reading back, importing |
| `custody` | an own Ed25519 and an own ML-DSA key; two composites that share them, in the store; two envelopes, two payloads, a foreign header with two kids | references, acceptance, header, delivery |
| `front_ends` | twelve pairs of statements; seven sets of arguments, some illegible; files absent, empty, cut short or whole; the clock at 0 and 1 | targets, revocations, what the report overclaims and what not, agreement |
| `bindings` | programs in Rust, C, Go and Python; two shredding keys, two copies of each; two texts, one empty; two buffers; two calls among five operations | type, version string, ownership, all or nothing, erasure, loss, consent |

Why the bounds are enough. A lineage bound of two with four statements has chains that
are shorter than, as long as and longer than the bound, stretches of three, and a gap
between two stamped statements. A rule that composes from edges shows at two edges. One
volatile link and one misfiled statement give every answer a fetch can have; a second
would only repeat it at another link. A clock from 0 to 3 puts the cache, the
revocation, the tree head and the call in every order, equal times included. Three keys
are the shortest cycle a rotation walk can be sent into that is not an immediate repeat.
Five entries give trees of one, two, three, four and five leaves, so full trees, odd
ones and two heights of padding; a second head adds no anchor that a head taken later
does not. Three processes are the fewest of which one begins after another ends while a
third is still at work. Depth and entry bounds of four in the codec are met, just missed
and exceeded by its inputs, and four levels (`MaxNesting`) are what these inputs have.
Two composites with a shared half, one of which shares its other half with a plain key,
are every way in which a half can be used out of place; two envelopes are what splicing
needs. A statement and the one it is about are two files, so every order of reading and
writing shows with them. Two buffers are fewer than the two results of a commitment and
a version string need together, so allocation fails at each place; two calls at a time
race for each. The proofs of section 4 have none of these bounds.

Runs that end in a violation check one sentence of the repository each:

| Run | The sentence | What the code does |
|---|---|---|
| `lineage_depth` | a longer lineage is an error (`error.rs` 99) | the loop stops and the statement is accepted |
| `quiet_exit` | `--quiet` returns exit code 0 or 1 (`commands/verify.rs` 50, `main.rs` 22) | `run` returns `Ok` after a refusal, so the status is 0 |
| `c_decode` | decode a payload into its fields (`verax_core.h` 111) | the header declares nine outputs, `lib.rs` 383 writes ten: each value lands one place off |

More of this kind is visible in the models and is not a run of its own:

- revocation is only consulted for anchored statements (`verify.rs` 546; always, says
  `docs/architecture.md` 104), and a REVOKES of a statement that is not at hand is
  accepted unchecked (`CheckRevokes`);
- with a rotation it is the predecessor's signature that verifies, not the active key's
  (`docs/key-rotation.md` 23, 30); the resolver follows one rotation and never a second,
  because `verify.rs` 224 needs the predecessor to be known already (line 45 there says
  to recurse); `key rotate` exchanges subject and object of the statement the document
  describes (`key.rs` 197, `RotationOf`);
- a lineage whose order is broken across an unstamped statement is accepted
  (`verify.rs` 374);
- proofs are those of padded trees, not of RFC 9162 (`ct.rs` 28); the leaf that must be
  logged is the stripped payload's hash, not the statement's (`Stripped`,
  `docs/protocol-spec.md` 107);
- two ephemeral signs in one second share a key file (`docs/getting-started.md` 48);
- arrays, which `cbor.rs` 964 permits, are encoded and signed but refused by the
  decoder; an empty extension map is not read back (`Pushed`), a nested map counts twice
  towards the depth (`decode_any_value_depth`) and may have a key twice
  (`decode_map_value_depth`);
- the kid of a composite key is hashed ML-DSA first in `docs/protocol-spec.md` 76 and in
  the key store, Ed25519 first in `cose.rs` 325 (`KidOf`, `StoreKid`);
- the report marks "signature, CBOR, lineage, and CT anchor verified" as passed of every
  accepted statement, also of one without an anchor (`commands/verify.rs` 548-553), and
  with `--explain` says of such a statement that it is not revoked, which nobody has
  asked (`AnchorFact`, `Fact`); its algorithm label depends on whether `--mldsa-pubkey`
  was given, not on the statement. `OverclaimsQualified` shows that this is all it
  overclaims, and that the first two stand only under PARTIAL, beside the warning that
  there is no temporal evidence;
- `skip_value` refuses "floats/null/undefined" (`cbor.rs` 935) by the wrong numbers: what
  it refuses is false (20) and undefined (23), so that null and true pass under an unknown
  key (`Simple`); a last number or string may be cut off by the end of the bytes
  (`Text`);
- `docs/shredding.md` commits by another formula, and `README.md` 97 names AES-256-GCM;
  the code has XChaCha20-Poly1305 and BLAKE3 of the ciphertext. `verax encrypt` never
  saves the key it draws. Decrypting an empty plaintext through the FFI is reported as
  an allocation failure, code 14;
- `verax_encode_payload` keeps the low byte of a predicate (260 becomes REVOKES) and
  cannot set an object; `verax_verify_full` ignores a failed allocation of its warnings;
  the Go binding reads those warnings up to a NUL that is not written. HPKE is exported
  by no binding, so only Rust programs wrap keys.

Deadlock is checked in `custody`, whose recipient can always turn to another envelope
(`Done`, `Arrive`). The other
models are of calls or commands that end, or of programs with a bounded number of
operations, after which nothing is left to do; their configurations switch it off.

Fairness. `Verifier` and `KeyRotation` assume weak fairness of the call's own steps: it
runs on its caller's thread and has no blocking operation of its own, and every store
method returns. Nothing is assumed of the store, which may change for ever. The other
modules state no liveness.

## 4. Proofs

TLAPS proves the following for every value of the constants, so for every pool of
statements, key set, number of programs and bound, from the named assumptions of the
modules: the types of the constants; `HashesPrecede`, that a statement can only name an
earlier one; that `KidHash` is injective; that the two families of public keys are
disjoint (32 and 1952 bytes); that absent values are not values, the empty text no
statement, and "no answer" no answer of a status query; that what a signer builds is a
payload and what a caller hands over is CBOR, each nesting at most `MaxNesting` deep.

`VerifierProofs`:

- `TypeCorrect`: the type invariant, with the length of a walk.
- `LineageCommitted`, `LineageOrdered`, `LineageSubjects`: the lineage properties. Order
  over a stretch is not inductive by itself: an appended link is only compared with its
  neighbour. `PathInv` says that each neighbouring pair passed `LinkError` and is
  committed, and a lemma composes edges by induction along the stretch.
- `RevokesSound`, `RecoversSound`, `RevokedKeySound`, `RevokedStatementSound`,
  `VerdictSound`: what acceptance means. `CallInv` says, for every value of `pc`, which
  checks lie behind it and what they still imply; `StoreInv` that revocations only
  accumulate and that a hash outside `unstable` has been served as itself ever since the
  call began. `CacheComplete`, a part of `StoreInv`, is what `VerdictSound` rests on: a
  REVOKES the cache does not list was logged no earlier than the cache's checkpoint,
  whenever the cache was built, so an answer for a head not later than the checkpoint
  holds for that head, although the log has gone on. They are all needed: a check made
  earlier has to be related to a ghost that moves later.

`PipelineImplementsContract`, in the same module: every step of the pipeline and its
store is a step of `VerifyContract` or a stutter. `BehindInv` repeats, in the contract's words,
what lies behind each `pc`; the lemma `WalkIsLine` turns the finished walk into the
contract's line of ancestors. The fairness half of the contract, that the call ends, is
model-checked.

`KeyRotationProofs`: `RotationTypeCorrect`, `RotationSafe`, `TrailUnrevoked`,
`TrailWithoutRepeats`, from `TrailInv` (every link of the trail was followed by the
rules and no kid repeats), `ResolvedInv` (the resolved key is the trail's last and was
known) and `StatusInv` (which kids have been found unrevoked at each `pc`).

`TransparencyLogProofs`:

- `InclusionSound`: if the walk of `compute_root` from a hash along *any* siblings, of any
  number, ends at the root of a padded tree, and the index is below the number of leaves,
  then that hash is the leaf at that index. The code compares the path's length with
  nothing; the proof goes down from the root and finds that a path too short would start
  at an inner node and one too long would pass one where the tree has a leaf, which the
  two hash prefixes exclude. The index bound is needed: it makes the index zero at the
  root (`HalvedToZero`), so that its bits are the way down.
- `InclusionComplete`: the tree's own path leads to its root.
- `AnchorBinding`: an accepted statement has its signer's unprotected header, because the
  signature keeps the header it was made over, whatever replaces the one beside it.
- `AnchorProvesTime`, `IndexProved`, `IssuedAccepted`: the properties `LoggedInTime`,
  `IndexIsPosition` and `IssuedAnchorVerifies`, from `LogInv`: the log's times never go
  back and every head it signed shows entries appended by the head's time, however much
  is appended since; what is signed stays as it was; the verdict is that of the checks.
  `HeadVerified` says that of the heads at hand only the log's own pass, unless of an
  empty tree, which `verify_inclusion` refuses.

`CustodyProofs`: `ReferenceSound`, from the key store's part of the invariant (the map
and the references only ever name issued keys); `AcceptanceSound`, `HeaderSound` and
`DeliverySound`, from `EnvelopeInv`: every half of a signature on the way is one that
somebody made over the message it is about, whole, cut or spliced; and `GivenInv`: what
the recipient has read is what it was given.

`KeyDirectoryProofs`:

- `DirectoryTypeCorrect`; `EndorsementFirst`: a rotation past its third step has issued
  its endorsement, so the key file that names a predecessor was written after it.
- `ImportsReplaceNothing`: `BeforeInv` dates the files that were there when an import
  began, and `FilesInv` says that an opened file never goes.
- `KeysKept`: `HeldInv` says that whoever signs with a drawn key found it in a file, so
  it was saved; `KeptInv` keeps it there while no other command opens the name. The
  induction needs a weaker condition than the property excuses (`Untouched`), as a
  command that failed has done nothing to the name.

`FrontEndsProofs`:

- `AcceptedLineage`, about `Checks` and `TrustStores` alone: when the walk through a
  store ends without an error, every ancestor within the depth limit was in the chain
  and every link passed the checks between child and parent.
- `NoHiddenTarget`, `StandingIsTrue`, `ReportIsQualified`, `OneVerdict`: the properties
  `WholeTargetsChecked`, `UnrevokedAtAnchor`, `OverclaimsQualified` and
  `FrontEndsAgree`; and `FrontEndsTypeCorrect`. For the report, `PassedSteps` goes from
  an answer without an error back to the facts the checks behind it established. `PlaceInv` says what the command holds at each `pc` and that
  its answer is `verify` of what it read; `OthersInv` the same of the bindings;
  `SteadyInv` that a file whole all along gets into the chain; `CacheInv` that whatever a
  cache lists as not revoked was not revoked before the cache's checkpoint, whenever it
  was written and read.

`BindingsProofs`:

- `ErasureSound` and `LossIsFinal`, from `KeyInv`: a key that was never copied is in one
  place, an erased one in none, and only keys that were drawn and spread are wrapped.
- `BindingsTypeCorrect`, `OneVersionString`, `BuffersOwned` and `AllOrNothingSound`, from
  `BufferInv`: the shape of a call at each of its places, that no address has two owners,
  that owned addresses are in use and used ones owned.
- `ConsentIsAccepted`, from `ConsentInv`: full verification has nothing against a consent
  statement in any language (`ConsentVerifies`), refuses a statement of the bare consent
  payload under every scheme and key (`BarePayloadRefused`), and only a call that gives up changes
  its code afterwards, which `verax_verify_full` never does.

`PayloadCodecProofs`:

- `AcceptsOnlyCanonical`: `AcceptedIsCanonical`. The decoder takes nested maps in any
  order; it is the re-encoding test that puts them right. `ReaderTyped` says that what is
  decoded fits the limits it was decoded under and has no array, `FitsCanonical` that
  whatever fits is encoded canonically. Without the first the second would be false: an
  array is encoded, but is not canonical in a payload.
- `ReadsBackWhatWasSigned`, `VerifiesWhatWasImported`: `SignedIsReadBack` and
  `ImportedVerifies`, both from `PayloadReadBack`: within the limits, decoding an encoding
  gives a payload with the same encoding, and the payload itself if its extension map is
  in order. The induction (`MapReadBack`, `FitsReadBack`) needs both halves at once: what
  is read back of an unordered map is another map, whose encoding has to be the same for
  the level above to go on. Beside it stands the accounting of depth, which a map adds to
  twice, and that encoding drops an empty extension map but keeps every entry of others.
- `CodecTypeCorrect`: the verifier reads a payload with the required fields, hashes of 32
  bytes and a known predicate, whatever it was sent.
- All four from `CodecInv`: what was imported is a payload because the decoder made it,
  what travels with a payload is its encoding, the verdict is that of the test. The
  sorts rest on `RankedLists`: in a finite total order, ranks list each member once.

How recursion is dealt with. What a recursive definition computes is proved here where it
is a function of a *number*: of the links walked, the siblings folded, the level of a
tree, the nesting of a value. `FrontEndsProofs` and `TransparencyLogProofs` derive
induction from the well-foundedness of `<` on the naturals and state it for membership in
a set, which the provers can instantiate (the library states it for a predicate, which
they cannot): `SetInduction`, `IntervalInduction`, and `IterationExists` and
`RecursionExists`, which say that the functions such definitions choose exist.
`LevelsRec` and `WalkExists` do the same for levels and walks, whose values are terms and
form no set; `LevelInduction` and the lemmas after it for the levels of nesting.

Only model-checked: termination (`Termination` of the rotation walk, and the fairness
half of `ImplementsContract`), since nothing is proved of fairness or ENABLED. Every
other property of a passing run is the statement of a theorem.

## 5. Abstractions, and what is not modelled

- Cryptography is ideal: hashes have no collisions, signatures name their maker, ciphers
  and HPKE open with the right key only. Nonces of shredding are left out.
- A timestamp is a small number; the arithmetic of `u64` seconds saturates nowhere
  within reach of the code's one subtraction, which comes after the comparison.
- Byte syntax is an outcome: `form` in `Verifier`, whole or damaged parts in `Envelope`.
  `check_canonical_walk`, a scan that keeps no state, is there by its result only.
  `PayloadCodec` has no tags and no octets of strings; of input that is cut off it has
  only the outcome, a last skipped number or string that passes, so how `skip_value`
  advances beyond the end is not in it; the 1 MiB bound of byte strings is left out.
  `ImportedVerifies` therefore speaks of CBOR without tags.
- Of the composite and ML-DSA paths `Verifier` has only the order of checks, and that no
  status query follows them; their signatures are `Envelope`'s.
- The status of an unreachable store is "unknown", as in the trait's documentation; a
  call that saw an outage is excused from `RevokedKeyRefused`.
- The PKCS#11, TPM and null key stores of `hsm.rs` are stubs that always fail. The seed
  of a composite's ML-DSA half is never written to the key directory, by the code either.
- `RecoveryPolicy`'s CBOR is three fields read in order: a policy decodes or does not.
- `verax_version` publishes its pointer with relaxed ordering; the model is sequentially
  consistent. `verax shred` truncates the file before it overwrites it, which no
  property here is about.
- `key list`, `did`, `graph`, `lint`, `inspect`, `doctor`, the tutorials and the
  benchmarks read and print. The repository's own formal models and fuzz targets are not
  code of the system.

## 6. Plan

Done, in this order: `Statements`, `Verifier` with `VerifyContract`, `KeyRotation`,
`MerkleTree` with `TransparencyLog`, `KeyDirectory`, `PayloadCodec`, their first proofs;
then `Envelope` with `KeyStore` and `Custody`, `Checks` with `TrustStores` and
`FrontEnds`, `Shredding` with `Bindings`, and the proofs of `Custody`, `KeyDirectory`,
`Bindings` and of the refinement; then the proofs of `FrontEnds`, `TransparencyLog` and
consent; then `PayloadCodec` as functions of the nesting, and its proofs.

What is left, most important first: the octets of `PayloadCodec`, with truncated input
and tags; the CBOR of `RecoveryPolicy`, proofs and heads; the graph's walk.
