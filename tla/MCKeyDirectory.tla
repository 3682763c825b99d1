--------------------------- MODULE MCKeyDirectory ---------------------------
(* Instances of KeyDirectory for TLC: the commands that may be run.        *)
EXTENDS KeyDirectory, TLC

CONSTANTS n1, n2, second

J(cmd, name) == [cmd |-> cmd, name |-> name, new |-> None]
Rotate(old, new) == [cmd |-> "rotate", name |-> old, new |-> new]

(* Every command, n1 being the name that has a key at the beginning and    *)
(* second the one made of the time. A rotation may go onwards, back, or    *)
(* onto its own name.                                                      *)
AllJobs ==
  {J("generate", n2), J("import", n1), J("import", n2), J("sign", second),
   J("signwith", n1), J("signwith", n2), J("signwith", second), J("export", n2),
   Rotate(n1, n2), Rotate(n2, n1), Rotate(n1, n1)}

SignsOfOneSecond == {J("sign", second)}

Alike == Permutations(Procs)
=============================================================================
