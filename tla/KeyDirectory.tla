---------------------------- MODULE KeyDirectory ----------------------------
(* The command line's key files: `verax key generate|import|rotate|export` *)
(* and `verax sign`, run as processes over one .verax/keys directory that  *)
(* nothing locks. fs::write truncates and then writes, so a process may be *)
(* interrupted, or killed, with a file of its own empty.                   *)
EXTENDS Naturals, Sequences, FiniteSets

CONSTANTS
  Procs,    \* commands; also the key each one draws or is given
  Names,    \* names of key files (a generated name is a second of the clock)
  Jobs,     \* the commands that may be run
  FirstKey, \* the key in the directory at the beginning
  FirstName,
  None

Keys == Procs \cup {FirstKey}

(* name: the key file that is read, or written; new: the one rotate makes. *)
Job == [cmd : {"generate", "import", "rotate", "sign", "signwith", "export"},
        name : Names, new : Names \cup {None}]

ASSUME KeyDirectoryAssumption ==
  /\ FirstName \in Names /\ FirstKey \notin Procs /\ None \notin Keys \cup Names \cup Jobs
  /\ \A j \in Jobs : j \in Job /\ (j.cmd = "rotate" => j.new \in Names)

VARIABLES
  job,     \* what each process was asked to do
  step,    \* how many steps of its script it has taken
  status,  \* "running", "ok", "failed" or "killed"
  hand,    \* the key each process holds
  keyfile, \* content of each key file
  axm,     \* content of each rotation statement file, by the names in it
  issued,  \* ghost: the statements whose bytes reached a file
  before   \* ghost: the processes that had ended when each one began

vars == <<job, step, status, hand, keyfile, axm, issued, before>>

(* A file: not there, truncated, or written. supersedes is the comment     *)
(* line that rotate adds.                                                  *)
Absent == [state |-> "absent"]
Empty  == [state |-> "empty"]
KeyFile == {Absent, Empty} \cup [state : {"whole"}, key : Keys, supersedes : Keys \cup {None}]
Whole(k, s) == [state |-> "whole", key |-> k, supersedes |-> s]

(* subject "artifact" is the BLAKE3 of the file signed.                    *)
Stmt == [signer : Keys, subject : Keys \cup {"artifact"}, object : Keys \cup {None}]
Routes == Names \X Names
StmtFile == {Absent, Empty} \cup [state : {"whole"}, stmt : Stmt]

KeyFirst == <<"read", "openkey", "writekey", "openaxm", "writeaxm">>
(* What each command does, in the order in which it does it.               *)
RotateScript == <<"read", "openaxm", "writeaxm", "openkey", "writekey">>
ExistsUnchecked == <<"openkey", "writekey">>
ExistsChecked == <<"check", "openkey", "writekey">>
SignThenSave == <<"publish", "openkey", "writekey">>
SignScript == <<"openkey", "writekey", "publish">>

Script(cmd) ==
  CASE cmd = "generate" -> <<"openkey", "writekey">>
    [] cmd = "import"   -> ExistsChecked
    [] cmd = "rotate"   -> RotateScript
    [] cmd = "sign"     -> SignScript
    [] cmd = "signwith" -> <<"read", "publish">>
    [] cmd = "export"   -> <<"read">>

Ended == {"ok", "failed", "killed"}
Todo(p) == Script(job[p].cmd)[step[p] + 1]
Target(p) == IF job[p].cmd = "rotate" THEN job[p].new ELSE job[p].name
Route(p) == <<job[p].name, job[p].new>>

----------------------------------------------------------------------------

Init ==
  /\ job = [p \in Procs |-> None] /\ step = [p \in Procs |-> 0]
  /\ status = [p \in Procs |-> "idle"] /\ hand = [p \in Procs |-> None]
  /\ keyfile = [n \in Names |-> IF n = FirstName THEN Whole(FirstKey, None) ELSE Absent]
  /\ axm = [r \in Routes |-> Absent]
  /\ issued = {} /\ before = [p \in Procs |-> {}]

(* The seed is drawn, or decoded from the command line, before any file is *)
(* touched; rotate and signwith take the signing key from a file instead.  *)
Begin(p, j) ==
  /\ status[p] = "idle"
  /\ job' = [job EXCEPT ![p] = j] /\ status' = [status EXCEPT ![p] = "running"]
  /\ hand' = [hand EXCEPT ![p] = IF j.cmd \in {"generate", "import", "sign"} THEN p ELSE None]
  /\ before' = [before EXCEPT ![p] = {q \in Procs : status[q] \in Ended}]
  /\ UNCHANGED <<step, keyfile, axm, issued>>

At(p, what) == status[p] = "running" /\ Todo(p) = what

(* A step of p's script succeeds; the last one ends the command.           *)
Advance(p, what) ==
  /\ At(p, what)
  /\ step' = [step EXCEPT ![p] = @ + 1]
  /\ status' = [status EXCEPT ![p] =
       IF step[p] + 1 = Len(Script(job[p].cmd)) THEN "ok" ELSE "running"]
  /\ UNCHANGED <<job, before>>

Fail(p) ==
  /\ status' = [status EXCEPT ![p] = "failed"]
  /\ UNCHANGED <<job, step, hand, axm, issued, before>>

(* if out_path.exists() { bail }                                           *)
Check(p) ==
  /\ At(p, "check")
  /\ IF keyfile[Target(p)] = Absent
     THEN Advance(p, "check") /\ UNCHANGED <<hand, keyfile, axm, issued>>
     ELSE Fail(p) /\ UNCHANGED keyfile

(* The first line that is neither a comment nor blank: an absent or an     *)
(* empty file has none.                                                    *)
Read(p) ==
  /\ At(p, "read")
  /\ IF keyfile[job[p].name].state = "whole"
     THEN /\ Advance(p, "read")
          /\ hand' = [hand EXCEPT ![p] = keyfile[job[p].name].key]
          /\ UNCHANGED <<keyfile, axm, issued>>
     ELSE Fail(p) /\ UNCHANGED keyfile

OpenKey(p) ==
  /\ Advance(p, "openkey")
  /\ keyfile' = [keyfile EXCEPT ![Target(p)] = Empty]
  /\ UNCHANGED <<hand, axm, issued>>

(* The key written is the drawn or imported one, never the one read. A     *)
(* write starts at offset 0, so the last to write is whose key is read.    *)
WriteKey(p) ==
  /\ Advance(p, "writekey")
  /\ keyfile' = [keyfile EXCEPT ![Target(p)] = Whole(p, IF hand[p] = p THEN None ELSE hand[p])]
  /\ UNCHANGED <<hand, axm, issued>>

OpenAxm(p) ==
  /\ Advance(p, "openaxm")
  /\ axm' = [axm EXCEPT ![Route(p)] = Empty]
  /\ UNCHANGED <<hand, keyfile, issued>>

(* subject: current_vk.to_bytes(), object: Some(new_vk.to_bytes()).        *)
RotationOf(old, new) == [signer |-> old, subject |-> old, object |-> new]
OwnKeySigns(old, new) == [signer |-> new, subject |-> old, object |-> new]

WriteAxm(p) ==
  /\ Advance(p, "writeaxm")
  /\ axm' = [axm EXCEPT ![Route(p)] = [state |-> "whole", stmt |-> RotationOf(hand[p], p)]]
  /\ issued' = issued \cup {RotationOf(hand[p], p)}
  /\ UNCHANGED <<hand, keyfile>>

(* sign writes its statement outside the directory.                        *)
Publish(p) ==
  /\ Advance(p, "publish")
  /\ issued' = issued \cup {[signer |-> hand[p], subject |-> "artifact", object |-> None]}
  /\ UNCHANGED <<hand, keyfile, axm>>

Kill(p) ==
  /\ status[p] = "running" /\ status' = [status EXCEPT ![p] = "killed"]
  /\ UNCHANGED <<job, step, hand, keyfile, axm, issued, before>>

Act(p) ==
  \/ Check(p) \/ Read(p) \/ OpenKey(p) \/ WriteKey(p)
  \/ OpenAxm(p) \/ WriteAxm(p) \/ Publish(p)

Next == \E p \in Procs : Act(p) \/ Kill(p) \/ \E j \in Jobs : Begin(p, j)
Spec == Init /\ [][Next]_vars

----------------------------------------------------------------------------
(* Properties *)

(* Every variable keeps its type; what is signed is signed by a key.       *)
TypeOK ==
  /\ job \in [Procs -> Jobs \cup {None}] /\ step \in [Procs -> 0..5]
  /\ status \in [Procs -> {"idle", "running"} \cup Ended]
  /\ hand \in [Procs -> Keys \cup {None}]
  /\ keyfile \in [Names -> KeyFile] /\ axm \in [Routes -> StmtFile]
  /\ issued \subseteq Stmt
  /\ before \in [Procs -> SUBSET Procs]

(* key.rs:222-237, in that order: a key file that says which key it        *)
(* supersedes exists only after that key signed for it, however rotations  *)
(* are interleaved or killed.                                              *)
EndorsedBeforeSaved ==
  \A n \in Names :
    LET f == keyfile[n]
    IN f.state = "whole" /\ f.supersedes # None =>
         \E t \in issued : t.signer = f.supersedes /\ t.object = f.key

Opened(p) == \E i \in 1..step[p] : Script(job[p].cmd)[i] = "openkey"
Writes(p) == job[p] # None /\ job[p].cmd \notin {"signwith", "export"}

(* Nobody else was given the same name to write since p began.             *)
Undisturbed(p) ==
  \A q \in Procs \ ({p} \cup before[p]) :
    Writes(q) /\ status[q] # "failed" => Target(q) # Target(p)

(* A key that has signed something, and the files of a command that has    *)
(* succeeded, are on disk for good unless another command used the name    *)
(* during or after: no kill, and no command that ended before, undoes it.  *)
KeptUnlessDisturbed ==
  \A p \in Procs :
    /\ status[p] = "ok" \/ \E t \in issued : t.signer = p
    /\ Writes(p) /\ Undisturbed(p)
    => LET old == IF job[p].cmd = "rotate" THEN hand[p] ELSE None
       IN /\ keyfile[Target(p)] = Whole(p, old)
          /\ old # None => axm[Route(p)].state = "whole" /\ axm[Route(p)].stmt.object = p

(* An import replaces no key that was there when it began.                 *)
ImportReplacesNoSettledKey ==
  \A p \in Procs : Writes(p) /\ job[p].cmd = "import" /\ Opened(p) =>
    /\ Target(p) # FirstName
    /\ \A q \in before[p] : Writes(q) /\ Opened(q) => Target(q) # Target(p)

=============================================================================
