----------------------------- MODULE FrontEnds -----------------------------
(* verax verify, file by file: it reads the statement, then the files of    *)
(* the chain directory one after another, then the revocation cache, while  *)
(* other programs write them; it judges what it has read and reports. An    *)
(* application that uses one of the bindings passes the same contents to    *)
(* verify_full.                                                             *)
EXTENDS TrustStores

CONSTANTS
  Pools, Targets,  \* statements that exist, and those the command is run for
  ArgSets,         \* arguments the command may be given
  Movable,         \* bound: statements whose files are written or removed
  Revocable,       \* bound: statements that may be revoked in the log
  Torn,            \* a cache file half written
  MaxTime          \* bound: the clock

ASSUME FrontEndsAssumption ==
  /\ Targets \subseteq Stmts /\ ArgSets \subseteq Args
  /\ Movable \subseteq Stmts /\ Revocable \subseteq Stmts /\ MaxTime \in Nat
  /\ Torn \notin RevocationLists \cup {None}
  /\ \A p \in Pools : p \in [Stmts -> Statement] /\ HashesPrecede(p)

VARIABLES
  pool, target, args,  \* what exists, and what the command is run with
  mode,       \* how it is to report, which nothing reads before it does
  dir,        \* what the file of every statement holds
  cachefile,  \* the revocation cache: its lists, None absent, or Torn
  revokedAt,  \* when a REVOKES of each statement was logged
  now,        \* the clock of the log and of the cache's writer
  pc, data,   \* the command's place, and what it read of the statement
  unread,     \* chain files it has yet to try
  chain,      \* the statements it has read from the others
  lists,      \* the revocation lists it has read
  store,      \* the trust store it built
  answer,     \* what the pipeline answered
  report,     \* what the command printed
  exit,       \* its exit status
  others,     \* what the bindings answered for the same contents
  steady      \* ghost: files whole since the command began

world   == <<dir, cachefile, revokedAt, now>>
command == <<pc, data, unread, chain, lists, store, answer, mode, report, exit>>
given   == <<pool, target, args>>
vars    == <<given, world, command, others, steady>>

T == pool[target]
Mode == {"human", "explain", "json", "quiet"}
Front == {"ffi", "go", "python", "node"}
Contents == {"absent", "empty", "part", "whole"}

(* A file cut short holds no envelope.                                      *)
Data == IF data = "part" THEN [T EXCEPT !.form = "malformed"] ELSE T
Read == [pool EXCEPT ![target] = Data]

----------------------------------------------------------------------------
(* The command *)

Init ==
  /\ pool \in Pools /\ target \in Targets /\ args \in ArgSets
  /\ mode = None /\ dir \in [Stmts -> {"absent", "whole"}]
  /\ \A h \in Stmts \ Movable : dir[h] = "whole"
  /\ cachefile = None /\ revokedAt = [h \in Stmts |-> None] /\ now = 0
  /\ pc = "start" /\ data = None /\ unread = {} /\ chain = {} /\ lists = NoLists
  /\ store = None /\ answer = None /\ report = None /\ exit = None
  /\ others = [f \in Front |-> None] /\ steady = {}

Step(label) == pc = label /\ UNCHANGED <<given, world, others>>
Bail == pc' = "done" /\ exit' = 1

(* run and build_trust_store up to the files: the statement must be there   *)
(* and not empty, and every argument readable.                              *)
ReadStatement ==
  /\ Step("start")
  /\ data' = dir[target]
  /\ steady' = {h \in Stmts : dir[h] = "whole"}
  /\ IF dir[target] \in {"absent", "empty"} \/ Unusable(args, Data')
     THEN Bail /\ UNCHANGED unread
     ELSE pc' = "chain" /\ unread' = Stmts /\ UNCHANGED exit
  /\ UNCHANGED <<chain, lists, store, answer, mode, report>>

StopAtUnreadable(h) ==
  /\ Step("chain") /\ h \in unread
  /\ unread' = IF dir[h] = "whole" THEN unread \ {h} ELSE {}
  /\ chain' = chain \cup (IF dir[h] = "whole" THEN {h} ELSE {})
  /\ UNCHANGED <<pc, data, lists, store, answer, mode, report, exit, steady>>

(* CliTrustStore::new, one file of the directory: filed under the hash of   *)
(* its bytes, or passed over.                                               *)
ReadChainFile(h) ==
  /\ Step("chain") /\ h \in unread
  /\ unread' = unread \ {h}
  /\ chain' = chain \cup (IF dir[h] = "whole" THEN {h} ELSE {})
  /\ UNCHANGED <<pc, data, lists, store, answer, mode, report, exit, steady>>

(* The cache file comes last; without one, or with one cut short, the store *)
(* knows nothing about revocations.                                         *)
ReadCache ==
  /\ Step("chain") /\ unread = {}
  /\ lists' = IF cachefile \in {None, Torn} THEN NoLists ELSE cachefile
  /\ store' = CliTrustStore(args, Data, chain, lists')
  /\ pc' = "judge"
  /\ UNCHANGED <<data, unread, chain, answer, mode, report, exit, steady>>

(* The report: what it marks as passed, whatever the verification did, when *)
(* there is something to pass, and with --explain; the schemes its label    *)
(* names, which go by the arguments; its warnings; the JSON form.           *)
Sections ==
  {"signature", "canonical", "protocol"}
  \cup (IF T.lineage # None THEN {"lineage"} ELSE {})
  \cup (IF T.anchor_hash # "none" THEN {"bound"} ELSE {})

EveryStepPasses(a) == {"scheme", "temporal", "notrevoked"}

ExplainSections(a) ==
  {c \in {"scheme", "temporal", "notrevoked"} :
     /\ c = "temporal" => "TemporalEvidenceMissing" \notin a.warnings
     /\ c = "notrevoked" => "RevocationStatusUnknown" \notin a.warnings}

SchemesLabelled == IF args.mldsa # None THEN "composite" ELSE "ed25519"

WarningSections(a) == a.warnings
JsonOutput(a) == [verdict |-> "valid", warnings |-> a.warnings]

ReportOf(a, m) ==
  IF m = "quiet" THEN [verdict |-> "none"]
  ELSE IF a.err # None THEN [verdict |-> "failed", error |-> a.err]
  ELSE IF m = "json" THEN JsonOutput(a)
  ELSE [verdict |-> IF a.warnings = {} THEN "verified" ELSE "partial",
        warnings |-> WarningSections(a), schemes |-> SchemesLabelled,
        claims |-> Sections \cup IF m = "explain" THEN ExplainSections(a) ELSE {}]

(* The verification, its report, and Ok(()) either way.                     *)
Judge ==
  /\ Step("judge")
  /\ answer' = verify(Read, target, store)
  /\ mode' \in Mode /\ report' = ReportOf(answer', mode')
  /\ pc' = "done" /\ exit' = 0
  /\ UNCHANGED <<data, unread, chain, lists, store, steady>>

Command ==
  \/ ReadStatement \/ ReadCache \/ Judge
  \/ \E h \in Stmts : ReadChainFile(h)

(* A program that has read the same contents calls verify_full of every     *)
(* binding; a key of the wrong length raises in two of them.                *)
BindingStore(f) ==
  CASE f = "ffi"    -> FfiTrustStore(args, chain, lists)
    [] f = "go"     -> GoTrustStore(args, chain, lists)
    [] f = "python" -> PyTrustStore(args, chain, lists)
    [] f = "node"   -> NapiTrustStore(args, chain, lists)

CallBindings ==
  /\ pc = "done" /\ answer # None /\ args.pubkey # None
  /\ \A f \in Front : others[f] = None
  /\ others' = [f \in Front |->
       IF f \in {"python", "node"} /\ Raises(args) THEN None
       ELSE verify(Read, target, BindingStore(f))]
  /\ UNCHANGED <<given, world, command, steady>>

----------------------------------------------------------------------------
(* Other programs *)

Env == pc # "done" /\ UNCHANGED <<given, command, others>>
Reading == pc \in {"start", "chain"}  \* files change unnoticed once all are read

(* A file is truncated, and then written; or it is removed.                 *)
ChangeFile(h) ==
  /\ Env /\ Reading /\ h \in Movable
  /\ \E c \in Contents \ {dir[h]} :
       /\ c = "part" => dir[h] = "empty"
       /\ c = "whole" => dir[h] \in {"empty", "part"}
       /\ dir' = [dir EXCEPT ![h] = c]
  /\ steady' = steady \ {h}
  /\ UNCHANGED <<cachefile, revokedAt, now>>

LogRevocation(h) ==
  /\ Env /\ h \in Revocable /\ revokedAt[h] = None
  /\ revokedAt' = [revokedAt EXCEPT ![h] = now]
  /\ UNCHANGED <<dir, cachefile, now, steady>>

Tick ==
  /\ Env /\ now < MaxTime /\ now' = now + 1
  /\ UNCHANGED <<dir, cachefile, revokedAt, steady>>

(* The cache is rewritten from the log: truncated first, then complete up   *)
(* to the present, with or without the list of what is not revoked.         *)
RewriteCache ==
  /\ Env /\ Reading
  /\ \/ cachefile # Torn /\ cachefile' = Torn
     \/ /\ cachefile = Torn
        /\ LET gone == {h \in Stmts : revokedAt[h] # None}
           IN \E spaced \in BOOLEAN, rest \in {{}, Stmts \ gone} :
                cachefile' = [checkpoint |-> now,
                              revoked |-> {[hash |-> h, spaced |-> spaced] : h \in gone},
                              not_revoked |-> {[hash |-> h, spaced |-> FALSE] : h \in rest}]
  /\ UNCHANGED <<dir, revokedAt, now, steady>>

Environment ==
  \/ \E h \in Stmts : ChangeFile(h) \/ LogRevocation(h)
  \/ Tick \/ RewriteCache

Next == Command \/ CallBindings \/ Environment

Spec == Init /\ [][Next]_vars

----------------------------------------------------------------------------
(* Properties *)

(* Every variable keeps its type; a report needs an answer.                 *)
TypeOK ==
  /\ pool \in Pools /\ target \in Targets /\ args \in ArgSets
  /\ mode \in Opt(Mode)
  /\ dir \in [Stmts -> Contents]
  /\ cachefile \in {None, Torn} \cup RevocationLists
  /\ revokedAt \in [Stmts -> Opt(Nat)] /\ now \in 0..MaxTime
  /\ pc \in {"start", "chain", "judge", "done"}
  /\ data \in Opt(Contents)
  /\ unread \subseteq Stmts /\ chain \subseteq Stmts /\ lists \in RevocationLists
  /\ store \in Opt(Store) /\ answer \in Opt(Answer)
  /\ exit \in Opt({0, 1}) /\ report # None => answer # None
  /\ others \in [Front -> Opt(Answer)] /\ steady \subseteq Stmts

Accepted == answer # None /\ answer.err = None
Answers == {answer} \cup {others[f] : f \in Front}

(* A REVOKES or RECOVERS whose target lay whole in the chain directory all  *)
(* along is accepted only with the issuer's or guardian's authority over    *)
(* that target, whatever happened to the files beside it: an unreadable     *)
(* file hides no other (CliTrustStore::new).                                *)
WholeTargetsChecked ==
  Accepted /\ T.object \in steady =>
    LET about == pool[T.object]
    IN /\ T.predicate = "revokes" => about.form # "malformed" /\ T.kid = about.kid
       /\ T.predicate = "recovers" /\ PolicyOf(about) # None =>
            PolicyOf(about).ok /\ KidHash[T.kid] \in PolicyOf(about).guardians

(* Whoever is told without reserve that an anchored statement stands is     *)
(* right for the time of its tree head: no REVOKES of it was logged before, *)
(* however old the cache, half written, or illegible in parts (CLI, FFI,    *)
(* Go, Python, Node stores).                                                 *)
UnrevokedAtAnchor ==
  \A a \in Answers \ {None} :
    /\ a.err = None /\ T.anchor # None /\ revokedAt[target] # None
    /\ "RevocationStatusUnknown" \notin a.warnings
    => revokedAt[target] >= T.anchor.ts

(* What a step marked as passed says. "protocol" reads "signature, CBOR,     *)
(* lineage, and CT anchor verified".                                        *)
SignatureFact == T.signer # None /\ T.signer = resolve(store, T.alg)
AnchorFact ==
  T.anchor # None /\ T.anchor.log = args.log /\ T.anchor.signed /\ T.anchor.included
LineageFact == Walk(pool, target, store).err = None

Fact(c) ==
  CASE c = "signature"  -> SignatureFact
    [] c = "canonical"  -> data = "whole" /\ T.form = "ok"
    [] c = "scheme"     -> report.schemes = T.alg
    [] c = "lineage"    -> LineageFact
    [] c = "bound"      -> T.anchor_hash = "match" /\ AnchorFact
    [] c = "temporal"   -> AnchorFact
    [] c = "notrevoked" -> T.anchor # None /\ \E e \in lists.not_revoked : e.hash = target
    [] c = "protocol"   -> SignatureFact /\ T.form = "ok" /\ LineageFact /\ AnchorFact

(* The report overclaims in no other way than these: of a statement without *)
(* anchor it says that its CT anchor was verified and that it is not        *)
(* revoked, but then it is headed PARTIAL and warns that there is no        *)
(* temporal evidence; and with --mldsa-pubkey it names the hybrid scheme    *)
(* whatever the statement was signed with. Every other step marked as       *)
(* passed is a fact, and a report headed VERIFIED has its anchor.           *)
OverclaimsQualified ==
  report # None /\ report.verdict \in {"verified", "partial"} =>
    /\ \A c \in report.claims :
         \/ Fact(c)
         \/ /\ c \in {"protocol", "notrevoked"} /\ T.anchor = None
            /\ report.verdict = "partial" /\ "TemporalEvidenceMissing" \in report.warnings
         \/ c = "scheme" /\ args.mldsa # None
    /\ report.verdict = "verified" => AnchorFact /\ answer.warnings = {}

(* Given the same contents, and arguments that all can express, the command *)
(* and the four bindings answer alike, error and warnings.                 *)
FrontEndsAgree ==
  /\ args.pubkey \in Keys /\ args.mldsa = None
  /\ lists.checkpoint # 0 /\ \A e \in lists.revoked : ~e.spaced
  => \A f \in Front : others[f] # None => others[f] = answer

(* verify.rs:50: with --quiet the exit status is 0 or 1, main.rs:22: "exit  *)
(* code only". Violated: a refused statement exits with 0.                  *)
QuietExitTellsVerdict ==
  mode = "quiet" /\ answer # None /\ answer.err # None => exit # 0

=============================================================================
