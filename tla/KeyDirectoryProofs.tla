------------------------- MODULE KeyDirectoryProofs -------------------------
(* Proofs about the key files, for any number of commands, names and kinds *)
(* of interruption: an endorsement reaches a file before the key it is for *)
(* does, an import replaces no key that was there when it began, and a key *)
(* that has signed stays on disk unless another command took its name.     *)
EXTENDS KeyDirectory, TLAPS

LEMMA ScriptLengths ==
  ASSUME NEW c \in {"generate", "import", "rotate", "sign", "signwith", "export"}
  PROVE  /\ c \in {"generate", "signwith"} => Len(Script(c)) = 2
         /\ c \in {"import", "sign"} => Len(Script(c)) = 3
         /\ c = "rotate" => Len(Script(c)) = 5
         /\ c = "export" => Len(Script(c)) = 1
BY DEF Script, ExistsChecked, RotateScript, SignScript

(* Where each step of a command stands in its script.                      *)
LEMMA ScriptSteps ==
  ASSUME NEW c \in {"generate", "import", "rotate", "sign", "signwith", "export"},
         NEW i \in Nat, i < Len(Script(c))
  PROVE  /\ Script(c)[i + 1] = "check" => c = "import" /\ i = 0
         /\ Script(c)[i + 1] = "read" => c \in {"rotate", "signwith", "export"} /\ i = 0
         /\ Script(c)[i + 1] = "openkey" =>
              \/ c \in {"generate", "sign"} /\ i = 0
              \/ c = "import" /\ i = 1
              \/ c = "rotate" /\ i = 3
         /\ Script(c)[i + 1] = "writekey" =>
              \/ c \in {"generate", "sign"} /\ i = 1
              \/ c = "import" /\ i = 2
              \/ c = "rotate" /\ i = 4
         /\ Script(c)[i + 1] = "openaxm" => c = "rotate" /\ i = 1
         /\ Script(c)[i + 1] = "writeaxm" => c = "rotate" /\ i = 2
         /\ Script(c)[i + 1] = "publish" =>
              \/ c = "sign" /\ i = 2
              \/ c = "signwith" /\ i = 1
<1>1. CASE c = "generate"
  BY <1>1 DEF Script
<1>2. CASE c = "import"
  BY <1>2 DEF Script, ExistsChecked
<1>3. CASE c = "rotate"
  BY <1>3 DEF Script, RotateScript
<1>4. CASE c = "sign"
  BY <1>4 DEF Script, SignScript
<1>5. CASE c = "signwith"
  BY <1>5 DEF Script
<1>6. CASE c = "export"
  BY <1>6 DEF Script
<1> QED BY <1>1, <1>2, <1>3, <1>4, <1>5, <1>6

(* After how many steps a command has saved its key.                       *)
SavedAfter(c) == IF c \in {"generate", "sign"} THEN 2 ELSE IF c = "import" THEN 3 ELSE 5

LEMMA SavedInTime ==
  ASSUME NEW c \in {"generate", "import", "rotate", "sign"}
  PROVE  Len(Script(c)) >= SavedAfter(c)
<1>1. CASE c = "generate"
  BY <1>1 DEF Script, SavedAfter
<1>2. CASE c = "import"
  BY <1>2 DEF Script, ExistsChecked, SavedAfter
<1>3. CASE c = "rotate"
  BY <1>3 DEF Script, RotateScript, SavedAfter
<1>4. CASE c = "sign"
  BY <1>4 DEF Script, SignScript, SavedAfter
<1> QED BY <1>1, <1>2, <1>3, <1>4

Saved(p) == Writes(p) /\ step[p] >= SavedAfter(job[p].cmd)

(* A command has opened its key file once the script says so.              *)
OpenedAfter(c) == SavedAfter(c) - 1
HasOpened(p) == Writes(p) /\ step[p] >= OpenedAfter(job[p].cmd)

LEMMA OpenedSteps ==
  ASSUME NEW p \in Procs, Writes(p), job[p] \in Job,
         step[p] \in 0..Len(Script(job[p].cmd)), Opened(p)
  PROVE  HasOpened(p)
<1> DEFINE c == job[p].cmd
<1>1. c \in {"generate", "import", "rotate", "sign"} /\ step[p] \in Nat
  BY ScriptLengths DEF Writes, Job
<1>2. PICK i \in 1..step[p] : Script(c)[i] = "openkey"
  BY DEF Opened
<1>3. CASE c \in {"generate", "sign"}
  BY <1>1, <1>2, <1>3 DEF HasOpened, OpenedAfter, SavedAfter
<1>4. CASE c = "import"
  <2>1. Script(c)[1] # "openkey"
    BY <1>4 DEF Script, ExistsChecked
  <2> QED BY <1>1, <1>2, <1>4, <2>1 DEF HasOpened, OpenedAfter, SavedAfter
<1>5. CASE c = "rotate"
  <2>1. Script(c)[1] # "openkey" /\ Script(c)[2] # "openkey" /\ Script(c)[3] # "openkey"
    BY <1>5 DEF Script, RotateScript
  <2> QED BY <1>1, <1>2, <1>5, <2>1 DEF HasOpened, OpenedAfter, SavedAfter
<1> QED BY <1>1, <1>3, <1>4, <1>5

----------------------------------------------------------------------------
(* Types and the control of a command.                                     *)

(* A command that has a job has taken no more steps than its script has,   *)
(* and less if it has not succeeded; one that failed has done nothing.     *)
ControlInv ==
  \A p \in Procs :
    /\ status[p] = "idle" <=> job[p] = None
    /\ job[p] # None => step[p] \in 0..Len(Script(job[p].cmd))
    /\ status[p] = "running" => step[p] < Len(Script(job[p].cmd))
    /\ status[p] = "ok" => step[p] = Len(Script(job[p].cmd))
    /\ status[p] = "failed" => step[p] = 0
    /\ status[p] = "idle" => step[p] = 0

(* A command that writes its own key holds it; one that reads a key holds  *)
(* it after its first step.                                                *)
HandInv ==
  \A p \in Procs : job[p] # None =>
    /\ job[p].cmd \in {"generate", "import", "sign"} => hand[p] = p
    /\ job[p].cmd \in {"rotate", "signwith", "export"} /\ step[p] > 0 => hand[p] \in Keys

TypeInv == TypeOK /\ ControlInv /\ HandInv

(* What is known of a process that takes a step of its script.             *)
LEMMA Stepping ==
  ASSUME TypeInv, NEW p \in Procs, NEW what, At(p, what)
  PROVE  /\ job[p] \in Jobs /\ job[p] \in Job
         /\ step[p] \in Nat /\ step[p] < Len(Script(job[p].cmd))
         /\ what = Script(job[p].cmd)[step[p] + 1]
         /\ job[p].cmd \in {"generate", "import", "rotate", "sign", "signwith", "export"}
         /\ Target(p) \in Names
<1>1. job[p] \in Jobs /\ job[p] \in Job
  BY KeyDirectoryAssumption DEF TypeInv, TypeOK, ControlInv, At
<1>2. job[p].cmd \in {"generate", "import", "rotate", "sign", "signwith", "export"}
  BY <1>1 DEF Job
<1>3. Target(p) \in Names
  BY <1>1, KeyDirectoryAssumption DEF Target, Job
<1>4. step[p] < Len(Script(job[p].cmd)) /\ step[p] \in Nat
  BY DEF TypeInv, TypeOK, ControlInv, At
<1> QED BY <1>1, <1>2, <1>3, <1>4 DEF At, Todo

(* Advancing leaves the other commands and all jobs alone.                 *)
LEMMA Advancing ==
  ASSUME TypeInv, NEW p \in Procs, NEW what, Advance(p, what)
  PROVE  /\ UNCHANGED <<job, before>> /\ ControlInv'
         /\ step' \in [Procs -> 0..5] /\ status' \in [Procs -> {"idle", "running"} \cup Ended]
         /\ step'[p] = step[p] + 1
         /\ \A q \in Procs \ {p} : step'[q] = step[q] /\ status'[q] = status[q]
         /\ status'[p] \in {"running", "ok"}
<1> DEFINE n == Len(Script(job[p].cmd))
<1>1. At(p, what) /\ UNCHANGED <<job, before>>
  BY DEF Advance
<1>2. /\ job[p] \in Job /\ step[p] \in Nat /\ step[p] < n /\ n \in 1..5
  BY <1>1, Stepping, ScriptLengths
<1>3. /\ step' = [step EXCEPT ![p] = step[p] + 1]
      /\ status' = [status EXCEPT ![p] = IF step[p] + 1 = n THEN "ok" ELSE "running"]
  BY DEF Advance
<1>4. \A q \in Procs \ {p} : step'[q] = step[q] /\ status'[q] = status[q]
  BY <1>3 DEF TypeInv, TypeOK
<1>5. step'[p] = step[p] + 1 /\ status'[p] = (IF step[p] + 1 = n THEN "ok" ELSE "running")
  BY <1>3 DEF TypeInv, TypeOK
<1> HIDE DEF n
<1>6. step' \in [Procs -> 0..5] /\ status' \in [Procs -> {"idle", "running"} \cup Ended]
  <2>1. step[p] + 1 \in 0..5
    BY <1>2
  <2> QED BY <1>3, <2>1 DEF TypeInv, TypeOK, Ended
<1>7. job[p] # None /\ status[p] = "running"
  BY <1>1 DEF At, TypeInv, ControlInv
<1>8. ControlInv'
  <2> SUFFICES ASSUME NEW q \in Procs
               PROVE  /\ status'[q] = "idle" <=> job[q] = None
                      /\ job[q] # None => step'[q] \in 0..Len(Script(job[q].cmd))
                      /\ status'[q] = "running" => step'[q] < Len(Script(job[q].cmd))
                      /\ status'[q] = "ok" => step'[q] = Len(Script(job[q].cmd))
                      /\ status'[q] = "failed" => step'[q] = 0
                      /\ status'[q] = "idle" => step'[q] = 0
    BY <1>1 DEF ControlInv
  <2>1. CASE q = p
    BY <2>1, <1>2, <1>5, <1>7 DEF n
  <2>2. CASE q # p
    BY <2>2, <1>4 DEF TypeInv, ControlInv
  <2> QED BY <2>1, <2>2
<1> QED BY <1>1, <1>4, <1>5, <1>6, <1>8

LEMMA TypeInductive == TypeInv /\ [Next]_vars => TypeInv'
<1> SUFFICES ASSUME TypeInv, [Next]_vars PROVE TypeInv'
  OBVIOUS
<1>1. CASE UNCHANGED vars
  BY <1>1 DEF vars, TypeInv, TypeOK, ControlInv, HandInv
<1>2. ASSUME NEW p \in Procs, NEW what, Advance(p, what), UNCHANGED hand,
             keyfile' \in [Names -> KeyFile], axm' \in [Routes -> StmtFile], issued' \subseteq Stmt,
             step[p] > 0 \/ job[p].cmd \in {"generate", "import", "sign"}
      PROVE  TypeInv'
  <2>1. HandInv'
    BY <1>2, Advancing DEF HandInv, TypeInv, TypeOK
  <2>2. TypeOK'
    BY <1>2, Advancing DEF TypeInv, TypeOK
  <2> QED BY <1>2, <2>1, <2>2, Advancing DEF TypeInv
<1>3. ASSUME NEW p \in Procs, Fail(p), At(p, "check") \/ At(p, "read"), UNCHANGED keyfile
      PROVE  TypeInv'
  <2>1. step[p] = 0 /\ job[p] # None
    BY <1>3, Stepping, ScriptSteps DEF At, TypeInv, ControlInv
  <2>2. status' = [status EXCEPT ![p] = "failed"] /\ UNCHANGED <<job, step, hand, axm, issued, before>>
    BY <1>3 DEF Fail
  <2>3. TypeOK' /\ HandInv'
    BY <1>3, <2>2 DEF TypeInv, TypeOK, HandInv, Ended
  <2>4. ControlInv'
    BY <2>1, <2>2 DEF TypeInv, TypeOK, ControlInv
  <2> QED BY <2>3, <2>4 DEF TypeInv
<1>4. ASSUME NEW p \in Procs, Check(p) PROVE TypeInv'
  <2>1. job[p].cmd = "import"
    BY <1>4, Stepping, ScriptSteps DEF Check
  <2>2. CASE keyfile[Target(p)] = Absent
    BY <1>2, <1>4, <2>1, <2>2 DEF Check, TypeInv, TypeOK
  <2>3. CASE keyfile[Target(p)] # Absent
    BY <1>3, <1>4, <2>3 DEF Check
  <2> QED BY <2>2, <2>3
<1>5. ASSUME NEW p \in Procs, Read(p) PROVE TypeInv'
  <2>1. CASE keyfile[job[p].name].state = "whole"
    <3> DEFINE k == keyfile[job[p].name].key
    <3>1. job[p].name \in Names /\ At(p, "read")
      BY <1>5, Stepping DEF Read, Job
    <3>2. k \in Keys
      BY <2>1, <3>1 DEF TypeInv, TypeOK, KeyFile, Absent, Empty
    <3>3. /\ Advance(p, "read") /\ hand' = [hand EXCEPT ![p] = k]
          /\ UNCHANGED <<keyfile, axm, issued>>
      BY <1>5, <2>1 DEF Read
    <3>4. job[p].cmd \in {"rotate", "signwith", "export"}
      BY <3>1, Stepping, ScriptSteps
    <3> HIDE DEF k
    <3>5. TypeOK'
      BY <3>2, <3>3, Advancing DEF TypeInv, TypeOK
    <3>6. HandInv'
      BY <3>2, <3>3, <3>4, Advancing DEF TypeInv, TypeOK, HandInv
    <3> QED BY <3>3, <3>5, <3>6, Advancing DEF TypeInv
  <2>2. CASE keyfile[job[p].name].state # "whole"
    BY <1>3, <1>5, <2>2 DEF Read
  <2> QED BY <2>1, <2>2
<1>6. ASSUME NEW p \in Procs, OpenKey(p) PROVE TypeInv'
  <2>1. At(p, "openkey")
    BY <1>6 DEF OpenKey, Advance
  <2>2. keyfile' \in [Names -> KeyFile]
    BY <1>6 DEF OpenKey, TypeInv, TypeOK, KeyFile
  <2>3. step[p] > 0 \/ job[p].cmd \in {"generate", "import", "sign"}
    BY <2>1, Stepping, ScriptSteps
  <2> QED BY <1>2, <1>6, <2>2, <2>3 DEF OpenKey, TypeInv, TypeOK
<1>7. ASSUME NEW p \in Procs, WriteKey(p) PROVE TypeInv'
  <2>1. At(p, "writekey")
    BY <1>7 DEF WriteKey, Advance
  <2>2. \A s \in Keys \cup {None} : Whole(p, s) \in KeyFile
    BY DEF Whole, KeyFile, Keys
  <2>3. keyfile' \in [Names -> KeyFile]
    BY <1>7, <2>2 DEF WriteKey, TypeInv, TypeOK
  <2>4. step[p] > 0
    BY <2>1, Stepping, ScriptSteps
  <2> QED BY <1>2, <1>7, <2>3, <2>4 DEF WriteKey, TypeInv, TypeOK
<1>8. ASSUME NEW p \in Procs, OpenAxm(p) PROVE TypeInv'
  <2>1. At(p, "openaxm")
    BY <1>8 DEF OpenAxm, Advance
  <2>2. axm' \in [Routes -> StmtFile]
    BY <1>8 DEF OpenAxm, TypeInv, TypeOK, StmtFile
  <2>3. step[p] > 0
    BY <2>1, Stepping, ScriptSteps
  <2> QED BY <1>2, <1>8, <2>2, <2>3 DEF OpenAxm, TypeInv, TypeOK
<1>9. ASSUME NEW p \in Procs, WriteAxm(p) PROVE TypeInv'
  <2>1. At(p, "writeaxm")
    BY <1>9 DEF WriteAxm, Advance
  <2>2. step[p] > 0 /\ job[p].cmd = "rotate"
    BY <2>1, Stepping, ScriptSteps
  <2>0. job[p] # None
    BY <2>1 DEF At, TypeInv, ControlInv
  <2>3. hand[p] \in Keys
    BY <2>0, <2>2 DEF TypeInv, HandInv
  <2>4. RotationOf(hand[p], p) \in Stmt
    BY <2>3 DEF RotationOf, Stmt, Keys
  <2>5. axm' \in [Routes -> StmtFile] /\ issued' \subseteq Stmt
    BY <1>9, <2>4 DEF WriteAxm, TypeInv, TypeOK, StmtFile
  <2> QED BY <1>2, <1>9, <2>2, <2>5 DEF WriteAxm, TypeInv, TypeOK
<1>10. ASSUME NEW p \in Procs, Publish(p) PROVE TypeInv'
  <2>1. At(p, "publish")
    BY <1>10 DEF Publish, Advance
  <2>2. step[p] > 0 /\ job[p].cmd \in {"sign", "signwith"}
    BY <2>1, Stepping, ScriptSteps
  <2>0. job[p] # None
    BY <2>1 DEF At, TypeInv, ControlInv
  <2>3. hand[p] \in Keys
    BY <2>0, <2>2 DEF TypeInv, HandInv, Keys
  <2>4. [signer |-> hand[p], subject |-> "artifact", object |-> None] \in Stmt
    BY <2>3 DEF Stmt
  <2>5. issued' \subseteq Stmt
    BY <1>10, <2>4 DEF Publish, TypeInv, TypeOK
  <2> QED BY <1>2, <1>10, <2>2, <2>5 DEF Publish, TypeInv, TypeOK
<1>11. ASSUME NEW p \in Procs, Kill(p) PROVE TypeInv'
  <2>1. TypeOK' /\ HandInv'
    BY <1>11 DEF Kill, TypeInv, TypeOK, HandInv, Ended
  <2>2. ControlInv'
    BY <1>11 DEF Kill, TypeInv, TypeOK, ControlInv
  <2> QED BY <2>1, <2>2 DEF TypeInv
<1>12. ASSUME NEW p \in Procs, NEW j \in Jobs, Begin(p, j) PROVE TypeInv'
  <2> DEFINE h == IF j.cmd \in {"generate", "import", "sign"} THEN p ELSE None
  <2>1. j \in Job /\ j # None /\ Len(Script(j.cmd)) \in 1..5
    BY KeyDirectoryAssumption, ScriptLengths DEF Job
  <2>2. /\ status[p] = "idle" /\ step[p] = 0
        /\ job' = [job EXCEPT ![p] = j] /\ status' = [status EXCEPT ![p] = "running"]
        /\ hand' = [hand EXCEPT ![p] = h]
        /\ before' = [before EXCEPT ![p] = {q \in Procs : status[q] \in Ended}]
        /\ UNCHANGED <<step, keyfile, axm, issued>>
    BY <1>12 DEF Begin, TypeInv, ControlInv
  <2>3. h \in Keys \cup {None} /\ (j.cmd \in {"generate", "import", "sign"} => h = p)
    BY DEF Keys
  <2> HIDE DEF h
  <2>4. TypeOK'
    BY <2>2, <2>3 DEF TypeInv, TypeOK
  <2>5. HandInv'
    BY <2>2, <2>3 DEF TypeInv, TypeOK, HandInv
  <2>6. ControlInv'
    <3> DEFINE n == Len(Script(j.cmd))
    <3>1. n \in 1..5
      BY <2>1
    <3>2. job'[p] = j /\ status'[p] = "running" /\ step'[p] = 0
      BY <2>2 DEF TypeInv, TypeOK
    <3>3. \A q \in Procs \ {p} : job'[q] = job[q] /\ status'[q] = status[q] /\ step'[q] = step[q]
      BY <2>2 DEF TypeInv, TypeOK
    <3>4. n = Len(Script(job'[p].cmd))
      BY <3>2
    <3> HIDE DEF n
    <3>5. 0 \in 0..n /\ 0 < n
      BY <3>1
    <3> QED BY <2>1, <3>2, <3>3, <3>4, <3>5 DEF TypeInv, ControlInv
  <2> QED BY <2>4, <2>5, <2>6 DEF TypeInv
<1> QED
  BY <1>1, <1>4, <1>5, <1>6, <1>7, <1>8, <1>9, <1>10, <1>11, <1>12 DEF Next, Act

LEMMA TypeInit == Init => TypeInv
<1> SUFFICES ASSUME Init PROVE TypeInv
  OBVIOUS
<1>1. Whole(FirstKey, None) \in KeyFile
  BY DEF Whole, KeyFile, Keys
<1>2. TypeOK
  BY <1>1, KeyDirectoryAssumption DEF Init, TypeOK, KeyFile, StmtFile
<1> QED BY <1>2 DEF Init, TypeInv, ControlInv, HandInv

(* KeyDirectory.TypeOK: every statement in a file is signed by a key, and   *)
(* no command goes past the end of its script.                              *)
THEOREM DirectoryTypeCorrect == Spec => []TypeOK
<1>1. TypeInv => TypeOK
  BY DEF TypeInv
<1> QED BY <1>1, TypeInit, TypeInductive, PTL DEF Spec

----------------------------------------------------------------------------
(* What one step may do, each action with the place in the script at which *)
(* it is taken.                                                            *)

Moves(p) ==
  \/ \E j \in Jobs : Begin(p, j)
  \/ /\ Advance(p, "check") /\ UNCHANGED <<hand, keyfile, axm, issued>>
     /\ keyfile[Target(p)] = Absent /\ job[p].cmd = "import" /\ step[p] = 0
  \/ /\ Advance(p, "read") /\ UNCHANGED <<keyfile, axm, issued>>
     /\ keyfile[job[p].name].state = "whole"
     /\ hand' = [hand EXCEPT ![p] = keyfile[job[p].name].key]
     /\ job[p].cmd \in {"rotate", "signwith", "export"} /\ step[p] = 0
  \/ OpenKey(p) /\ Writes(p) /\ step[p] = SavedAfter(job[p].cmd) - 2
  \/ WriteKey(p) /\ Writes(p) /\ step[p] = SavedAfter(job[p].cmd) - 1
  \/ OpenAxm(p) /\ job[p].cmd = "rotate" /\ step[p] = 1
  \/ WriteAxm(p) /\ job[p].cmd = "rotate" /\ step[p] = 2
  \/ Publish(p) /\ job[p].cmd = "sign" /\ step[p] = 2
  \/ Publish(p) /\ job[p].cmd = "signwith" /\ step[p] = 1

Kept == <<job, step, hand, keyfile, axm, issued, before>>
Ends == UNCHANGED Kept /\ \A q \in Procs : status[q] \in Ended => status'[q] = status[q]

LEMMA Movement ==
  ASSUME TypeInv, [Next]_vars
  PROVE  \/ Ends
         \/ \E p \in Procs : Moves(p)
<1>1. CASE UNCHANGED vars
  BY <1>1 DEF vars, Ends, Kept
<1>2. ASSUME NEW p \in Procs, NEW s, status[p] = "running", status' = [status EXCEPT ![p] = s],
             UNCHANGED Kept
      PROVE  Ends
  BY <1>2 DEF Ends, TypeInv, TypeOK, Ended
<1>3. ASSUME NEW p \in Procs, NEW what, Advance(p, what)
      PROVE  At(p, what) /\ job[p] # None
  BY <1>3 DEF Advance, At, TypeInv, ControlInv
<1>4. ASSUME NEW p \in Procs, Check(p) \/ Read(p)
      PROVE  Moves(p) \/ Ends
  <2>1. CASE Fail(p) /\ UNCHANGED keyfile
    <3>1. UNCHANGED Kept /\ status[p] = "running" /\ status' = [status EXCEPT ![p] = "failed"]
      BY <1>4, <2>1 DEF Check, Read, Fail, At, Kept
    <3> QED BY <1>2, <3>1
  <2>2. CASE ~(Fail(p) /\ UNCHANGED keyfile)
    <3>1. CASE Check(p)
      <4>1. job[p].cmd = "import" /\ step[p] = 0
        BY <3>1, Stepping, ScriptSteps DEF Check
      <4> QED BY <2>2, <3>1, <4>1 DEF Check, Moves
    <3>2. CASE Read(p)
      <4>1. job[p].cmd \in {"rotate", "signwith", "export"} /\ step[p] = 0
        BY <3>2, Stepping, ScriptSteps DEF Read
      <4> QED BY <2>2, <3>2, <4>1 DEF Read, Moves
    <3> QED BY <1>4, <3>1, <3>2
  <2> QED BY <2>1, <2>2
<1>5. ASSUME NEW p \in Procs, OpenKey(p) PROVE Moves(p)
  <2>1. At(p, "openkey") /\ job[p] # None
    BY <1>3, <1>5 DEF OpenKey
  <2>2. Writes(p) /\ step[p] = SavedAfter(job[p].cmd) - 2
    BY <2>1, Stepping, ScriptSteps DEF Writes, SavedAfter
  <2> QED BY <1>5, <2>2 DEF Moves
<1>6. ASSUME NEW p \in Procs, WriteKey(p) PROVE Moves(p)
  <2>1. At(p, "writekey") /\ job[p] # None
    BY <1>3, <1>6 DEF WriteKey
  <2>2. Writes(p) /\ step[p] = SavedAfter(job[p].cmd) - 1
    BY <2>1, Stepping, ScriptSteps DEF Writes, SavedAfter
  <2> QED BY <1>6, <2>2 DEF Moves
<1>7. ASSUME NEW p \in Procs, OpenAxm(p) PROVE Moves(p)
  <2>1. job[p].cmd = "rotate" /\ step[p] = 1
    BY <1>3, <1>7, Stepping, ScriptSteps DEF OpenAxm
  <2> QED BY <1>7, <2>1 DEF Moves
<1>8. ASSUME NEW p \in Procs, WriteAxm(p) PROVE Moves(p)
  <2>1. job[p].cmd = "rotate" /\ step[p] = 2
    BY <1>3, <1>8, Stepping, ScriptSteps DEF WriteAxm
  <2> QED BY <1>8, <2>1 DEF Moves
<1>9. ASSUME NEW p \in Procs, Publish(p) PROVE Moves(p)
  <2>1. \/ job[p].cmd = "sign" /\ step[p] = 2
        \/ job[p].cmd = "signwith" /\ step[p] = 1
    BY <1>3, <1>9, Stepping, ScriptSteps DEF Publish
  <2> QED BY <1>9, <2>1 DEF Moves
<1>10. ASSUME NEW p \in Procs, Kill(p)
       PROVE  Ends
  BY <1>2, <1>10 DEF Kill, Kept
<1>11. ASSUME NEW p \in Procs, NEW j \in Jobs, Begin(p, j) PROVE Moves(p)
  BY <1>11 DEF Moves
<1> QED BY <1>1, <1>4, <1>5, <1>6, <1>7, <1>8, <1>9, <1>10, <1>11 DEF Next, Act

(* What a command has done is not undone by time: it keeps its job and,    *)
(* once under way, its key, and steps forward only.                        *)
LEMMA Forward ==
  ASSUME TypeInv, [Next]_vars, NEW p \in Procs, job[p] # None
  PROVE  /\ job'[p] = job[p] /\ before'[p] = before[p] /\ Target(p)' = Target(p)
         /\ step[p] \in Nat /\ step'[p] \in Nat /\ step'[p] >= step[p]
         /\ step[p] > 0 => hand'[p] = hand[p]
         /\ status[p] \in Ended => status'[p] = status[p] /\ step'[p] = step[p]
         /\ issued \subseteq issued'
<1>1. TypeInv'
  BY TypeInductive
<1>2. step[p] \in Nat /\ step'[p] \in Nat
  BY <1>1 DEF TypeInv, TypeOK
<1>3. CASE Ends
  BY <1>2, <1>3 DEF Ends, Kept, Target
<1>4. ASSUME NEW q \in Procs, NEW j \in Jobs, Begin(q, j)
      PROVE  /\ job'[p] = job[p] /\ before'[p] = before[p] /\ UNCHANGED <<step, issued>>
             /\ hand'[p] = hand[p] /\ status'[p] = status[p]
  <2>1. q # p
    BY <1>4 DEF Begin, TypeInv, ControlInv
  <2> QED BY <1>4, <2>1 DEF Begin, TypeInv, TypeOK
<1>5. ASSUME NEW q \in Procs, NEW what, Advance(q, what), issued \subseteq issued',
             step[p] > 0 => hand'[p] = hand[p]
      PROVE  /\ job'[p] = job[p] /\ before'[p] = before[p] /\ step'[p] >= step[p]
             /\ status[p] \in Ended => status'[p] = status[p] /\ step'[p] = step[p]
  <2>1. q = p => status[p] = "running"
    BY <1>5 DEF Advance, At
  <2> QED BY <1>2, <1>5, <2>1, Advancing DEF Ended
<1>6. ASSUME NEW q \in Procs, Moves(q)
      PROVE  /\ job'[p] = job[p] /\ before'[p] = before[p]
             /\ step'[p] >= step[p]
             /\ step[p] > 0 => hand'[p] = hand[p]
             /\ status[p] \in Ended => status'[p] = status[p] /\ step'[p] = step[p]
             /\ issued \subseteq issued'
  <2>1. CASE \E j \in Jobs : Begin(q, j)
    BY <1>2, <1>4, <2>1
  <2>2. CASE ~\E j \in Jobs : Begin(q, j)
    <3>1. PICK what : Advance(q, what)
      BY <1>6, <2>2 DEF Moves, OpenKey, WriteKey, OpenAxm, WriteAxm, Publish
    <3>2. issued \subseteq issued' /\ (step[p] > 0 => hand'[p] = hand[p])
      BY <1>6, <2>2 DEF Moves, OpenKey, WriteKey, OpenAxm, WriteAxm, Publish, TypeInv, TypeOK
    <3> QED BY <1>5, <3>1, <3>2
  <2> QED BY <2>1, <2>2
<1> QED BY <1>2, <1>3, <1>6, Movement DEF Target

----------------------------------------------------------------------------
(* Endorsements. A rotation that has written its statement has issued it   *)
(* for the key it read, so the key file it writes later is endorsed.       *)

EndorsedInv ==
  /\ EndorsedBeforeSaved
  /\ \A p \in Procs : job[p] # None /\ job[p].cmd = "rotate" /\ step[p] >= 3 =>
       RotationOf(hand[p], p) \in issued

LEMMA EndorsedInductive ==
  ASSUME TypeInv, EndorsedInv, [Next]_vars
  PROVE  EndorsedInv'
<1>1. issued \subseteq issued'
  <2>1. CASE Ends
    BY <2>1 DEF Ends, Kept
  <2>2. ASSUME NEW p \in Procs, Moves(p) PROVE issued \subseteq issued'
    BY <2>2 DEF Moves, Begin, OpenKey, WriteKey, OpenAxm, WriteAxm, Publish
  <2> QED BY <2>1, <2>2, Movement
<1>2. ASSUME NEW q \in Procs, job'[q] # None, job'[q].cmd = "rotate", step'[q] >= 3
      PROVE  RotationOf(hand'[q], q) \in issued'
  <2>1. CASE Ends
    BY <1>2, <2>1 DEF Ends, Kept, EndorsedInv
  <2>2. ASSUME NEW p \in Procs, Moves(p), p # q PROVE RotationOf(hand'[q], q) \in issued'
    <3>1. CASE \E j \in Jobs : Begin(p, j)
      BY <1>1, <1>2, <2>2, <3>1 DEF Begin, TypeInv, TypeOK, EndorsedInv
    <3>2. CASE ~\E j \in Jobs : Begin(p, j)
      <4>1. PICK what : Advance(p, what)
        BY <2>2, <3>2 DEF Moves, OpenKey, WriteKey, OpenAxm, WriteAxm, Publish
      <4>2. hand'[q] = hand[q]
        BY <2>2, <3>2 DEF Moves, OpenKey, WriteKey, OpenAxm, WriteAxm, Publish, TypeInv, TypeOK
      <4> QED BY <1>1, <1>2, <2>2, <4>1, <4>2, Advancing DEF EndorsedInv
    <3> QED BY <3>1, <3>2
  <2>3. ASSUME Moves(q) PROVE RotationOf(hand'[q], q) \in issued'
    <3>1. CASE \E j \in Jobs : Begin(q, j)
      <4>1. step'[q] = 0
        BY <3>1 DEF Begin, TypeInv, ControlInv
      <4> QED BY <1>2, <4>1
    <3>2. CASE WriteAxm(q)
      BY <3>2 DEF WriteAxm
    <3>3. CASE ~WriteAxm(q) /\ ~\E j \in Jobs : Begin(q, j)
      <4>1. PICK what : Advance(q, what)
        BY <2>3, <3>3 DEF Moves, OpenKey, WriteKey, OpenAxm, WriteAxm, Publish
      <4>2. job'[q] = job[q] /\ step'[q] = step[q] + 1 /\ step[q] \in Nat
        BY <4>1, Advancing DEF TypeInv, TypeOK
      <4>3. step[q] >= 3
        BY <1>2, <2>3, <3>3, <4>2 DEF Moves, SavedAfter
      <4>4. hand'[q] = hand[q]
        BY <2>3, <3>3, <4>3 DEF Moves, OpenKey, WriteKey, OpenAxm, WriteAxm, Publish
      <4> QED BY <1>1, <1>2, <4>2, <4>3, <4>4 DEF EndorsedInv
    <3> QED BY <3>1, <3>2, <3>3
  <2> QED BY <2>1, <2>2, <2>3, Movement
<1>3. ASSUME NEW n \in Names, keyfile'[n].state = "whole", keyfile'[n].supersedes # None
      PROVE  \E t \in issued' : t.signer = keyfile'[n].supersedes /\ t.object = keyfile'[n].key
  <2>1. CASE keyfile'[n] = keyfile[n]
    BY <1>1, <1>3, <2>1 DEF EndorsedInv, EndorsedBeforeSaved
  <2>2. CASE keyfile'[n] # keyfile[n]
    <3>1. PICK p \in Procs : Moves(p) /\ (OpenKey(p) \/ WriteKey(p))
      BY <2>2, Movement
      DEF Ends, Kept, Moves, Begin, OpenAxm, WriteAxm, Publish
    <3>2. n = Target(p)
      BY <2>2, <3>1 DEF OpenKey, WriteKey, TypeInv, TypeOK
    <3>3. WriteKey(p) /\ keyfile'[n] = Whole(p, IF hand[p] = p THEN None ELSE hand[p])
      BY <1>3, <3>1, <3>2 DEF OpenKey, WriteKey, TypeInv, TypeOK, Empty
    <3>4. hand[p] # p /\ keyfile'[n].supersedes = hand[p] /\ keyfile'[n].key = p
      BY <1>3, <3>3 DEF Whole
    <3>5. At(p, "writekey") /\ job[p] # None
      BY <3>3 DEF WriteKey, Advance, At, TypeInv, ControlInv
    <3>6. job[p].cmd = "rotate" /\ step[p] = 4
      BY <3>4, <3>5, Stepping, ScriptSteps DEF TypeInv, HandInv
    <3>7. RotationOf(hand[p], p) \in issued
      BY <3>5, <3>6 DEF EndorsedInv
    <3> QED BY <1>1, <3>4, <3>7 DEF RotationOf
  <2> QED BY <2>1, <2>2
<1> QED BY <1>2, <1>3 DEF EndorsedInv, EndorsedBeforeSaved

(* KeyDirectory.EndorsedBeforeSaved: a key file that says which key it      *)
(* supersedes exists only after that key has signed for it.                 *)
THEOREM EndorsementFirst == Spec => []EndorsedBeforeSaved
<1>1. Init => EndorsedInv
  <2> SUFFICES ASSUME Init PROVE EndorsedInv
    OBVIOUS
  <2>1. \A n \in Names : keyfile[n] = Absent \/ keyfile[n] = Whole(FirstKey, None)
    BY DEF Init
  <2>2. Absent.state # "whole" /\ Whole(FirstKey, None).supersedes = None
    BY DEF Absent, Whole
  <2> QED BY <2>1, <2>2 DEF Init, EndorsedInv, EndorsedBeforeSaved
<1>2. TypeInv /\ EndorsedInv /\ [Next]_vars => TypeInv' /\ EndorsedInv'
  BY TypeInductive, EndorsedInductive
<1>3. EndorsedInv => EndorsedBeforeSaved
  BY DEF EndorsedInv
<1> QED BY <1>1, <1>2, <1>3, TypeInit, PTL DEF Spec

----------------------------------------------------------------------------
(* Imports. Commands that ended before one began stay ended, a file once   *)
(* opened is never gone, and an import has seen that its name was free.    *)

BeforeInv ==
  \A p \in Procs : \A q \in before[p] :
    q \in Procs /\ status[q] \in Ended /\ job[p] # None /\ q # p

LEMMA BeforeInductive ==
  ASSUME TypeInv, BeforeInv, [Next]_vars
  PROVE  BeforeInv'
<1> SUFFICES ASSUME NEW p \in Procs, NEW q \in before'[p]
             PROVE  q \in Procs /\ status'[q] \in Ended /\ job'[p] # None /\ q # p
  BY DEF BeforeInv
<1>1. CASE job[p] # None
  <2>1. q \in before[p]
    BY <1>1, Forward
  <2>2. q \in Procs /\ status[q] \in Ended /\ q # p
    BY <2>1 DEF BeforeInv
  <2>3. job[q] # None
    BY <2>2 DEF TypeInv, ControlInv, Ended
  <2> QED BY <1>1, <2>2, <2>3, Forward
<1>2. CASE job[p] = None
  <2>1. status[p] = "idle" /\ before[p] = {}
    BY <1>2 DEF BeforeInv, TypeInv, ControlInv
  <2>2. before' # before
    BY <2>1
  <2>3. PICK r \in Procs : \E j \in Jobs : Begin(r, j)
    BY <2>2, Movement, Advancing
    DEF Ends, Kept, Moves, OpenKey, WriteKey, OpenAxm, WriteAxm, Publish
  <2>4. r = p
    BY <2>1, <2>3 DEF Begin, TypeInv, TypeOK
  <2>5. q \in Procs /\ status[q] \in Ended /\ status'[q] = status[q] /\ q # p
    BY <2>1, <2>3, <2>4 DEF Begin, TypeInv, TypeOK, Ended
  <2>6. job'[p] # None
    BY <2>3, <2>4, KeyDirectoryAssumption DEF Begin, TypeInv, TypeOK
  <2> QED BY <2>5, <2>6
<1> QED BY <1>1, <1>2

(* The file a step changes is that of its command.                         *)
LEMMA FileSteps ==
  ASSUME TypeInv, [Next]_vars, NEW n \in Names, keyfile'[n] # keyfile[n]
  PROVE  \E p \in Procs :
           /\ Moves(p) /\ n = Target(p) /\ Writes(p) /\ status[p] = "running"
           /\ step'[p] = step[p] + 1
           /\ \/ OpenKey(p) /\ step[p] = SavedAfter(job[p].cmd) - 2 /\ keyfile'[n] = Empty
              \/ /\ WriteKey(p) /\ step[p] = SavedAfter(job[p].cmd) - 1
                 /\ keyfile'[n] = Whole(p, IF hand[p] = p THEN None ELSE hand[p])
<1>1. PICK p \in Procs :
        /\ Moves(p) /\ Writes(p)
        /\ \/ OpenKey(p) /\ step[p] = SavedAfter(job[p].cmd) - 2
           \/ WriteKey(p) /\ step[p] = SavedAfter(job[p].cmd) - 1
  <2>1. PICK p \in Procs : Moves(p)
    BY Movement DEF Ends, Kept
  <2> QED BY <2>1 DEF Moves, Begin, OpenAxm, WriteAxm, Publish
<1>2. n = Target(p)
  BY <1>1 DEF OpenKey, WriteKey, TypeInv, TypeOK
<1>3. step'[p] = step[p] + 1 /\ status[p] = "running"
  BY <1>1, Advancing DEF OpenKey, WriteKey, Advance, At
<1>4. OpenKey(p) => keyfile'[n] = Empty
  BY <1>2 DEF OpenKey, TypeInv, TypeOK
<1>5. WriteKey(p) => keyfile'[n] = Whole(p, IF hand[p] = p THEN None ELSE hand[p])
  BY <1>2 DEF WriteKey, TypeInv, TypeOK
<1> QED BY <1>1, <1>2, <1>3, <1>4, <1>5

FilesInv ==
  /\ keyfile[FirstName] # Absent
  /\ \A p \in Procs : HasOpened(p) => keyfile[Target(p)] # Absent

ImportInv ==
  \A p \in Procs : Writes(p) /\ job[p].cmd = "import" /\ step[p] >= 1 =>
    /\ Target(p) # FirstName
    /\ \A q \in before[p] : HasOpened(q) => Target(q) # Target(p)

LEMMA WritersTyped ==
  ASSUME TypeInv, NEW p \in Procs, job[p] # None
  PROVE  /\ job[p] \in Job /\ Target(p) \in Names /\ step[p] \in 0..Len(Script(job[p].cmd))
         /\ SavedAfter(job[p].cmd) \in 2..5
BY KeyDirectoryAssumption DEF TypeInv, TypeOK, ControlInv, Target, Job, SavedAfter

(* Only by opening its file does a command come to have opened it.         *)
LEMMA Opens ==
  ASSUME TypeInv, [Next]_vars, NEW p \in Procs, HasOpened(p)', ~HasOpened(p)
  PROVE  Writes(p) /\ OpenKey(p)
<1>1. step' # step \/ job' # job
  BY DEF HasOpened, Writes
<1>2. PICK q \in Procs : Moves(q)
  BY <1>1, Movement DEF Ends, Kept
<1>3. CASE \E j \in Jobs : Begin(q, j)
  <2>1. step'[p] = step[p] /\ (q = p => step[p] = 0) /\ (q # p => job'[p] = job[p])
    BY <1>3 DEF Begin, TypeInv, TypeOK, ControlInv
  <2>2. step'[p] > 0
    BY <2>1 DEF HasOpened, OpenedAfter, SavedAfter, TypeInv, TypeOK
  <2> QED BY <2>1, <2>2 DEF HasOpened, Writes
<1>4. CASE ~\E j \in Jobs : Begin(q, j)
  <2>1. PICK what : Advance(q, what)
    BY <1>2, <1>4 DEF Moves, OpenKey, WriteKey, OpenAxm, WriteAxm, Publish
  <2>2. job' = job /\ q = p /\ step'[p] = step[p] + 1 /\ step[p] \in Nat
    BY <2>1, Advancing DEF HasOpened, Writes, TypeInv, TypeOK
  <2>3. Writes(p) /\ step[p] = SavedAfter(job[p].cmd) - 2
    BY <2>2 DEF HasOpened, Writes, OpenedAfter, SavedAfter
  <2> QED BY <1>2, <1>4, <2>2, <2>3 DEF Moves, SavedAfter, Writes
<1> QED BY <1>3, <1>4

LEMMA FilesInductive ==
  ASSUME TypeInv, FilesInv, [Next]_vars
  PROVE  FilesInv'
<1>1. ASSUME NEW n \in Names, keyfile[n] # Absent PROVE keyfile'[n] # Absent
  <2>1. keyfile'[n] = keyfile[n] \/ keyfile'[n] = Empty \/ \E k, s : keyfile'[n] = Whole(k, s)
    BY FileSteps
  <2>2. Empty.state = "empty" /\ Absent.state = "absent" /\ \A k, s : Whole(k, s).state = "whole"
    BY DEF Empty, Absent, Whole
  <2> QED BY <1>1, <2>1, <2>2
<1>2. FirstName \in Names
  BY KeyDirectoryAssumption
<1>3. ASSUME NEW p \in Procs, HasOpened(p)' PROVE keyfile'[Target(p)'] # Absent
  <2>1. CASE HasOpened(p)
    <3>1. job[p] # None
      BY <2>1 DEF HasOpened, Writes
    <3> QED BY <1>1, <2>1, <3>1, Forward, WritersTyped DEF FilesInv
  <2>2. CASE ~HasOpened(p)
    <3>1. OpenKey(p) /\ job[p] # None
      BY <1>3, <2>2, Opens DEF Writes
    <3>2. Target(p)' = Target(p) /\ Target(p) \in Names
      BY <3>1, Forward, WritersTyped
    <3>3. keyfile'[Target(p)] = Empty
      BY <3>1, <3>2 DEF OpenKey, TypeInv, TypeOK
    <3> QED BY <3>2, <3>3 DEF Empty, Absent
  <2> QED BY <2>1, <2>2
<1> QED BY <1>1, <1>2, <1>3 DEF FilesInv

LEMMA ImportInductive ==
  ASSUME TypeInv, BeforeInv, FilesInv, ImportInv, [Next]_vars
  PROVE  ImportInv'
<1> SUFFICES ASSUME NEW p \in Procs, Writes(p)', job'[p].cmd = "import", step'[p] >= 1
             PROVE  /\ Target(p)' # FirstName
                    /\ \A q \in before'[p] : HasOpened(q)' => Target(q)' # Target(p)'
  BY DEF ImportInv
<1>1. job[p] # None
  <2> SUFFICES ASSUME job[p] = None PROVE FALSE
    OBVIOUS
  <2>1. status[p] = "idle" /\ step[p] = 0
    BY DEF TypeInv, ControlInv
  <2>2. PICK r \in Procs, j \in Jobs : Begin(r, j)
    <3>1. PICK r \in Procs : Moves(r)
      BY <2>1, Movement DEF Ends, Kept
    <3>2. SUFFICES ASSUME ~\E j \in Jobs : Begin(r, j) PROVE FALSE
      OBVIOUS
    <3>3. PICK what : Advance(r, what)
      BY <3>1, <3>2 DEF Moves, OpenKey, WriteKey, OpenAxm, WriteAxm, Publish
    <3>4. r # p
      BY <2>1, <3>3 DEF Advance, At
    <3> QED BY <2>1, <3>3, <3>4, Advancing
  <2> QED BY <2>1, <2>2 DEF Begin
<1>2. /\ job'[p] = job[p] /\ before'[p] = before[p] /\ Target(p)' = Target(p)
      /\ Target(p) \in Names /\ Writes(p) /\ job[p].cmd = "import"
  BY <1>1, Forward, WritersTyped DEF Writes
<1>3. ASSUME NEW q \in before[p], HasOpened(q)'
      PROVE  HasOpened(q) /\ Target(q)' = Target(q) /\ q \in Procs
  <2>1. q \in Procs /\ status[q] \in Ended /\ job[q] # None
    BY DEF BeforeInv, TypeInv, ControlInv, Ended
  <2> QED BY <1>3, <2>1, Forward DEF HasOpened, Writes
<1>4. CASE step[p] >= 1
  BY <1>2, <1>3, <1>4 DEF ImportInv
<1>5. CASE ~(step[p] >= 1)
  <2>1. step[p] = 0 /\ step' # step
    BY <1>5 DEF TypeInv, TypeOK
  <2>2. PICK r \in Procs : Moves(r)
    BY <2>1, Movement DEF Ends, Kept
  <2>3. PICK what : Advance(r, what)
    BY <2>1, <2>2 DEF Moves, Begin, OpenKey, WriteKey, OpenAxm, WriteAxm, Publish
  <2>4. r = p
    BY <1>5, <2>3, Advancing
  <2>5. keyfile[Target(p)] = Absent
    BY <1>2, <2>1, <2>2, <2>3, <2>4 DEF Moves, Begin, Advance, At, TypeInv, ControlInv, SavedAfter
  <2> QED BY <1>2, <1>3, <2>5 DEF FilesInv
<1> QED BY <1>4, <1>5

(* KeyDirectory.ImportReplacesNoSettledKey: an import that opened its file  *)
(* took no name that had a key when it began.                               *)
THEOREM ImportsReplaceNothing == Spec => []ImportReplacesNoSettledKey
<1> DEFINE Inv == TypeInv /\ BeforeInv /\ FilesInv /\ ImportInv
<1>1. Init => Inv
  <2> SUFFICES ASSUME Init PROVE BeforeInv /\ FilesInv /\ ImportInv
    BY TypeInit
  <2>1. BeforeInv /\ ImportInv
    BY DEF Init, BeforeInv, ImportInv, Writes
  <2>2. Whole(FirstKey, None) # Absent
    BY DEF Whole, Absent
  <2> QED BY <2>1, <2>2, KeyDirectoryAssumption DEF Init, FilesInv, HasOpened, Writes
<1>2. Inv /\ [Next]_vars => Inv'
  BY TypeInductive, BeforeInductive, FilesInductive, ImportInductive
<1>3. Inv => ImportReplacesNoSettledKey
  <2> SUFFICES ASSUME Inv, NEW p \in Procs, Writes(p), job[p].cmd = "import", Opened(p)
               PROVE  /\ Target(p) # FirstName
                      /\ \A q \in before[p] : Writes(q) /\ Opened(q) => Target(q) # Target(p)
    BY DEF ImportReplacesNoSettledKey
  <2>1. \A q \in Procs : Writes(q) /\ Opened(q) => HasOpened(q)
    BY OpenedSteps, WritersTyped DEF Writes
  <2>2. step[p] >= 1
    BY <2>1 DEF HasOpened, OpenedAfter, SavedAfter, TypeInv, TypeOK
  <2>3. before[p] \subseteq Procs
    BY DEF BeforeInv
  <2> QED BY <2>1, <2>2, <2>3 DEF ImportInv
<1> QED BY <1>1, <1>2, <1>3, PTL DEF Spec

----------------------------------------------------------------------------
(* Keeping. Whoever holds, signs with or is named in the key of a command  *)
(* that draws one found it in a file, so that command had saved it; and    *)
(* what it saved stays as long as nobody else starts on the same name.     *)

HeldInv ==
  /\ \A n \in Names, q \in Procs : keyfile[n].state = "whole" /\ keyfile[n].key = q => Saved(q)
  /\ \A r, q \in Procs : hand[r] = q /\ r # q => Saved(q)
  /\ \A r \in Procs : job[r] # None /\ job[r].cmd \in {"rotate", "signwith", "export"} => hand[r] # r
  /\ \A t \in issued : t.signer \in Procs => Saved(t.signer)

LEMMA SavedStays ==
  ASSUME TypeInv, [Next]_vars, NEW p \in Procs, Saved(p)
  PROVE  Saved(p)'
<1>1. job[p] # None /\ SavedAfter(job[p].cmd) \in 2..5
  BY WritersTyped DEF Saved, Writes
<1> QED BY <1>1, Forward DEF Saved, Writes

LEMMA HeldInductive ==
  ASSUME TypeInv, HeldInv, [Next]_vars
  PROVE  HeldInv'
<1>1. ASSUME NEW n \in Names, NEW q \in Procs, keyfile'[n].state = "whole", keyfile'[n].key = q
      PROVE  Saved(q)'
  <2>1. CASE keyfile'[n] = keyfile[n]
    BY <1>1, <2>1, SavedStays DEF HeldInv
  <2>2. CASE keyfile'[n] # keyfile[n]
    <3>1. PICK p \in Procs :
            /\ Writes(p) /\ step'[p] = step[p] + 1
            /\ \/ keyfile'[n] = Empty
               \/ /\ WriteKey(p) /\ step[p] = SavedAfter(job[p].cmd) - 1
                  /\ keyfile'[n] = Whole(p, IF hand[p] = p THEN None ELSE hand[p])
      BY <2>2, FileSteps
    <3>2. q = p /\ step[p] = SavedAfter(job[p].cmd) - 1
      BY <1>1, <3>1 DEF Empty, Whole
    <3>3. job[p] # None /\ SavedAfter(job[p].cmd) \in 2..5
      BY <3>1, WritersTyped DEF Writes
    <3> QED BY <3>1, <3>2, <3>3, Forward DEF Saved, Writes
  <2> QED BY <2>1, <2>2
<1>2. ASSUME NEW r \in Procs
      PROVE  /\ \A q \in Procs : hand'[r] = q /\ r # q => Saved(q)'
             /\ job'[r] # None /\ job'[r].cmd \in {"rotate", "signwith", "export"} => hand'[r] # r
  <2>1. CASE hand'[r] = hand[r] /\ job'[r] = job[r]
    BY <2>1, SavedStays DEF HeldInv
  <2>2. CASE ~(hand'[r] = hand[r] /\ job'[r] = job[r])
    <3>1. PICK p \in Procs : Moves(p)
      BY <2>2, Movement DEF Ends, Kept
    <3>2. ASSUME NEW j \in Jobs, Begin(p, j)
          PROVE  /\ \A q \in Procs : hand'[r] = q /\ r # q => Saved(q)'
                 /\ job'[r].cmd \in {"rotate", "signwith", "export"} => hand'[r] # r
      <4>1. p = r /\ job'[r] = j
        BY <2>2, <3>2 DEF Begin, TypeInv, TypeOK
      <4>2. hand'[r] = IF j.cmd \in {"generate", "import", "sign"} THEN r ELSE None
        BY <3>2, <4>1 DEF Begin, TypeInv, TypeOK
      <4> QED BY <4>1, <4>2, KeyDirectoryAssumption DEF Keys
    <3>3. CASE ~\E j \in Jobs : Begin(p, j)
      <4>1. PICK what : Advance(p, what)
        BY <3>1, <3>3 DEF Moves, OpenKey, WriteKey, OpenAxm, WriteAxm, Publish
      <4>2. UNCHANGED job /\ hand'[r] # hand[r]
        BY <2>2, <4>1, Advancing
      <4>3. /\ keyfile[job[p].name].state = "whole" /\ step[p] = 0 /\ p = r
            /\ hand'[r] = keyfile[job[p].name].key
        BY <3>1, <3>3, <4>2
        DEF Moves, OpenKey, WriteKey, OpenAxm, WriteAxm, Publish, TypeInv, TypeOK
      <4>4. job[p].name \in Names
        BY <4>1, Stepping DEF Advance, Job
      <4>5. \A q \in Procs : hand'[r] = q => Saved(q)
        BY <4>3, <4>4 DEF HeldInv
      <4>6. ~Saved(r)
        BY <4>3 DEF Saved, SavedAfter
      <4> QED BY <4>5, <4>6, SavedStays
    <3> QED BY <3>1, <3>2, <3>3
  <2> QED BY <2>1, <2>2
<1>3. ASSUME NEW t \in issued', t.signer \in Procs PROVE Saved(t.signer)'
  <2>1. CASE t \in issued
    BY <1>3, <2>1, SavedStays DEF HeldInv
  <2>2. CASE t \notin issued
    <3>1. PICK p \in Procs : Moves(p) /\ (WriteAxm(p) \/ Publish(p))
      BY <2>2, Movement DEF Ends, Kept, Moves, Begin, OpenKey, WriteKey, OpenAxm
    <3>2. t.signer = hand[p] /\ job[p] # None
      BY <2>2, <3>1
      DEF WriteAxm, Publish, RotationOf, Advance, At, TypeInv, ControlInv
    <3>3. \/ job[p].cmd \in {"rotate", "signwith"}
          \/ job[p].cmd = "sign" /\ step[p] = 2
      <4>1. PICK what : At(p, what) /\ what \in {"writeaxm", "publish"}
        BY <3>1 DEF WriteAxm, Publish, Advance
      <4> QED BY <4>1, Stepping, ScriptSteps
    <3>4. CASE hand[p] # p
      BY <1>3, <3>2, <3>4, SavedStays DEF HeldInv
    <3>5. CASE hand[p] = p
      <4>1. job[p].cmd = "sign" /\ step[p] = 2
        BY <3>2, <3>3, <3>5 DEF HeldInv
      <4>2. Saved(p)
        BY <3>2, <4>1 DEF Saved, Writes, SavedAfter
      <4> QED BY <3>2, <3>5, <4>2, SavedStays
    <3> QED BY <3>4, <3>5
  <2> QED BY <2>1, <2>2
<1> QED BY <1>1, <1>2, <1>3 DEF HeldInv

(* Nobody else has set to work on the name of p's key file.                *)
Untouched(p) ==
  \A q \in Procs \ ({p} \cup before[p]) : Writes(q) /\ step[q] > 0 => Target(q) # Target(p)

KeptInv ==
  \A p \in Procs : Untouched(p) =>
    /\ Saved(p) =>
         keyfile[Target(p)] = Whole(p, IF job[p].cmd = "rotate" THEN hand[p] ELSE None)
    /\ job[p] # None /\ job[p].cmd = "rotate" /\ step[p] >= 3 =>
         axm[Route(p)].state = "whole" /\ axm[Route(p)].stmt.object = p

LEMMA UntouchedBefore ==
  ASSUME TypeInv, BeforeInv, [Next]_vars, NEW p \in Procs, job[p] # None, Untouched(p)'
  PROVE  /\ Untouched(p)
         /\ \A q \in Procs : /\ status[q] = "running" /\ Writes(q) /\ step'[q] > 0
                            /\ Target(q) = Target(p)
                            => q = p
<1>1. before'[p] = before[p] /\ Target(p)' = Target(p)
  BY Forward
<1>2. \A q \in Procs : Writes(q) /\ step'[q] > 0 =>
        Writes(q)' /\ Target(q)' = Target(q)
  BY Forward DEF Writes
<1>3. \A q \in Procs : Writes(q) /\ step[q] > 0 => step'[q] > 0
  BY Forward DEF Writes
<1>4. \A q \in before[p] : status[q] # "running"
  BY DEF BeforeInv, Ended
<1> QED BY <1>1, <1>2, <1>3, <1>4 DEF Untouched

LEMMA KeyKept ==
  ASSUME TypeInv, BeforeInv, HeldInv, KeptInv, [Next]_vars,
         NEW p \in Procs, Untouched(p)', Saved(p)'
  PROVE  keyfile'[Target(p)'] = Whole(p, IF job'[p].cmd = "rotate" THEN hand'[p] ELSE None)
<1>1. CASE Saved(p)
  <2>1. job[p] # None /\ Writes(p) /\ step[p] >= 2 /\ step[p] >= SavedAfter(job[p].cmd)
    BY <1>1, WritersTyped DEF Saved, Writes, TypeInv, TypeOK
  <2>2. /\ job'[p] = job[p] /\ Target(p)' = Target(p) /\ hand'[p] = hand[p] /\ step[p] \in Nat
        /\ Target(p) \in Names /\ SavedAfter(job[p].cmd) \in 2..5
    BY <2>1, Forward, WritersTyped
  <2>3. keyfile'[Target(p)] = keyfile[Target(p)]
    <3> SUFFICES ASSUME keyfile'[Target(p)] # keyfile[Target(p)] PROVE FALSE
      OBVIOUS
    <3>1. PICK q \in Procs :
            /\ Target(p) = Target(q) /\ Writes(q) /\ status[q] = "running"
            /\ step'[q] = step[q] + 1
            /\ \/ step[q] = SavedAfter(job[q].cmd) - 2
               \/ step[q] = SavedAfter(job[q].cmd) - 1
      BY <2>2, FileSteps
    <3>2. step[q] \in Nat
      BY DEF TypeInv, TypeOK
    <3>3. q = p
      BY <2>1, <3>1, <3>2, UntouchedBefore
    <3> QED BY <2>1, <2>2, <3>1, <3>3
  <2> QED BY <1>1, <2>1, <2>2, <2>3, UntouchedBefore DEF KeptInv
<1>2. CASE ~Saved(p)
  <2>1. WriteKey(p) /\ Writes(p)
    <3>1. step' # step \/ job' # job
      BY <1>2 DEF Saved, Writes
    <3>2. PICK q \in Procs : Moves(q)
      BY <3>1, Movement DEF Ends, Kept
    <3>3. CASE \E j \in Jobs : Begin(q, j)
      <4>1. step'[p] = step[p] /\ (q = p => step[p] = 0) /\ (q # p => job'[p] = job[p])
        BY <3>3 DEF Begin, TypeInv, TypeOK, ControlInv
      <4> QED BY <1>2, <4>1 DEF Saved, Writes, SavedAfter
    <3>4. CASE ~\E j \in Jobs : Begin(q, j)
      <4>1. PICK what : Advance(q, what)
        BY <3>2, <3>4 DEF Moves, OpenKey, WriteKey, OpenAxm, WriteAxm, Publish
      <4>2. job' = job /\ q = p /\ step'[p] = step[p] + 1 /\ step[p] \in Nat
        BY <1>2, <4>1, Advancing DEF Saved, Writes, TypeInv, TypeOK
      <4>3. Writes(p) /\ step[p] = SavedAfter(job[p].cmd) - 1
        BY <1>2, <4>2 DEF Saved, Writes, SavedAfter
      <4> QED BY <3>2, <3>4, <4>2, <4>3 DEF Moves, SavedAfter, Writes
    <3> QED BY <3>3, <3>4
  <2>2. job[p] # None /\ job'[p] = job[p] /\ Target(p)' = Target(p) /\ Target(p) \in Names
    BY <2>1, Forward, WritersTyped DEF Writes
  <2>3. /\ keyfile'[Target(p)] = Whole(p, IF hand[p] = p THEN None ELSE hand[p])
        /\ hand' = hand
    BY <2>1, <2>2 DEF WriteKey, TypeInv, TypeOK
  <2>4. job[p] \in Job
    BY <2>2, WritersTyped
  <2>5. hand[p] = p <=> job[p].cmd # "rotate"
    BY <2>1, <2>2, <2>4 DEF HeldInv, TypeInv, HandInv, Writes, Job
  <2> QED BY <2>2, <2>3, <2>5
<1> QED BY <1>1, <1>2

LEMMA AxmKept ==
  ASSUME TypeInv, BeforeInv, KeptInv, [Next]_vars, NEW p \in Procs, Untouched(p)',
         job'[p] # None, job'[p].cmd = "rotate", step'[p] >= 3
  PROVE  axm'[Route(p)'].state = "whole" /\ axm'[Route(p)'].stmt.object = p
<1>1. job[p] # None
  <2> SUFFICES ASSUME job[p] = None PROVE FALSE
    OBVIOUS
  <2>1. step[p] = 0 /\ status[p] = "idle"
    BY DEF TypeInv, ControlInv
  <2>2. PICK q \in Procs : Moves(q)
    BY <2>1, Movement DEF Ends, Kept
  <2>3. CASE \E j \in Jobs : Begin(q, j)
    BY <2>1, <2>3 DEF Begin
  <2>4. CASE ~\E j \in Jobs : Begin(q, j)
    <3>1. PICK what : Advance(q, what)
      BY <2>2, <2>4 DEF Moves, OpenKey, WriteKey, OpenAxm, WriteAxm, Publish
    <3> QED BY <2>1, <3>1, Advancing
  <2> QED BY <2>3, <2>4
<1>2. /\ job'[p] = job[p] /\ Target(p)' = Target(p) /\ step[p] \in Nat /\ job[p].cmd = "rotate"
      /\ Untouched(p) /\ job[p] \in Job
  BY <1>1, Forward, UntouchedBefore, WritersTyped
<1>3. Route(p)' = Route(p) /\ Route(p) \in Routes
  BY <1>1, <1>2, KeyDirectoryAssumption DEF Route, Routes, Job, TypeInv, TypeOK
<1>4. CASE WriteAxm(p)
  BY <1>3, <1>4 DEF WriteAxm, TypeInv, TypeOK, RotationOf
<1>5. CASE ~WriteAxm(p)
  <2>1. step[p] >= 3
    <3> SUFFICES ASSUME step[p] < 3 PROVE FALSE
      BY <1>2
    <3>0. step' # step
      BY <1>2
    <3>1. PICK q \in Procs : Moves(q)
      BY <3>0, Movement DEF Ends, Kept
    <3>2. PICK what : Advance(q, what)
      BY <3>0, <3>1 DEF Moves, Begin, OpenKey, WriteKey, OpenAxm, WriteAxm, Publish
    <3>3. q = p /\ step'[p] = step[p] + 1
      BY <3>2, Advancing
    <3>4. step[p] = 2 /\ job[p].cmd = "rotate"
      BY <1>2, <3>3
    <3>5. ~\E j \in Jobs : Begin(p, j)
      BY <1>1 DEF Begin, TypeInv, ControlInv
    <3> QED BY <1>5, <3>1, <3>3, <3>4, <3>5 DEF Moves, SavedAfter
  <2>2. axm'[Route(p)] = axm[Route(p)]
    <3> SUFFICES ASSUME axm'[Route(p)] # axm[Route(p)] PROVE FALSE
      OBVIOUS
    <3>1. PICK q \in Procs : Moves(q) /\ (OpenAxm(q) \/ WriteAxm(q))
      BY Movement DEF Ends, Kept, Moves, Begin, OpenKey, WriteKey, Publish
    <3>2. Route(q) = Route(p)
      BY <1>3, <3>1 DEF OpenAxm, WriteAxm, TypeInv, TypeOK
    <3>3. PICK what : what \in {"openaxm", "writeaxm"} /\ Advance(q, what)
      BY <3>1 DEF OpenAxm, WriteAxm
    <3>4. job[q].cmd = "rotate" /\ step[q] \in {1, 2} /\ status[q] = "running" /\ step'[q] > 0
      BY <3>3, Stepping, ScriptSteps, Advancing DEF Advance, At
    <3>5. job[q] # None
      BY <3>4 DEF TypeInv, ControlInv
    <3>6. Target(q) = Target(p) /\ Writes(q)
      BY <1>2, <3>2, <3>4, <3>5 DEF Target, Route, Writes
    <3>7. q = p
      BY <1>1, <3>4, <3>6, UntouchedBefore
    <3> QED BY <2>1, <3>4, <3>7
  <2> QED BY <1>1, <1>2, <1>3, <2>1, <2>2 DEF KeptInv
<1> QED BY <1>4, <1>5

(* KeyDirectory.KeptUnlessDisturbed: no kill, and no command that ended     *)
(* before, takes a key that has signed from the disk.                       *)
THEOREM KeysKept == Spec => []KeptUnlessDisturbed
<1> DEFINE Inv == TypeInv /\ BeforeInv /\ HeldInv /\ KeptInv
<1>1. Init => Inv
  <2> SUFFICES ASSUME Init PROVE BeforeInv /\ HeldInv /\ KeptInv
    BY TypeInit
  <2>1. BeforeInv /\ KeptInv
    BY DEF Init, BeforeInv, KeptInv, Saved, Writes
  <2>2. \A n \in Names : keyfile[n].state # "whole" \/ keyfile[n].key = FirstKey
    BY DEF Init, Whole, Absent
  <2> QED BY <2>1, <2>2, KeyDirectoryAssumption DEF Init, HeldInv, Keys
<1>2. Inv /\ [Next]_vars => Inv'
  <2> SUFFICES ASSUME Inv, [Next]_vars PROVE KeptInv'
    BY TypeInductive, BeforeInductive, HeldInductive
  <2> QED BY KeyKept, AxmKept DEF KeptInv
<1>3. Inv => KeptUnlessDisturbed
  <2> SUFFICES ASSUME Inv, NEW p \in Procs, Writes(p), Undisturbed(p),
                      status[p] = "ok" \/ \E t \in issued : t.signer = p
               PROVE  LET old == IF job[p].cmd = "rotate" THEN hand[p] ELSE None
                      IN /\ keyfile[Target(p)] = Whole(p, old)
                         /\ old # None => /\ axm[Route(p)].state = "whole"
                                          /\ axm[Route(p)].stmt.object = p
    BY DEF KeptUnlessDisturbed
  <2>1. Saved(p)
    <3>1. job[p].cmd \in {"generate", "import", "rotate", "sign"}
      BY WritersTyped DEF Writes, Job
    <3>2. CASE status[p] = "ok"
      <4>1. step[p] = Len(Script(job[p].cmd))
        BY <3>2 DEF TypeInv, ControlInv
      <4> QED BY <3>1, <4>1, SavedInTime DEF Saved
    <3>3. CASE \E t \in issued : t.signer = p
      BY <3>3 DEF HeldInv
    <3> QED BY <3>2, <3>3
  <2>2. Untouched(p)
    <3>1. \A q \in Procs : step[q] > 0 => status[q] # "failed"
      BY DEF TypeInv, ControlInv
    <3> QED BY <3>1 DEF Undisturbed, Untouched
  <2>3. job[p].cmd = "rotate" => job[p] # None /\ step[p] >= 3
    BY <2>1 DEF Saved, SavedAfter, Writes, TypeInv, TypeOK
  <2> QED BY <2>1, <2>2, <2>3 DEF KeptInv
<1> QED BY <1>1, <1>2, <1>3, PTL DEF Spec
=============================================================================
