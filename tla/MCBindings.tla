----------------------------- MODULE MCBindings -----------------------------
(* A Rust, a C, a Go and a Python program.                                  *)
EXTENDS Bindings, TLC

CONSTANTS rs, c, go, py, k1, k2, bad, t1, none, s1, a1, a2, absent

MCLang == rs :> "rust" @@ c :> "c" @@ go :> "go" @@ py :> "python"

(* The lowest byte of the one is a REVOKES, the other is no predicate.      *)
MCPredicates == {[number |-> 260], [number |-> 9]}

MCDecodable == {{}, {"timestamp", "object"}}
AllDecodable == SUBSET Field

Sym == Permutations({k1, k2}) \cup Permutations({a1, a2})

=============================================================================
