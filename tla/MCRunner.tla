------------------------------ MODULE MCRunner ------------------------------
(***************************************************************************)
(* Instances of Runner for TLC: a1 and a2 carry one dedupe key, b1 another *)
(* one.  Instances with the same key are interchangeable.                  *)
(***************************************************************************)
EXTENDS Runner, TLC

CONSTANTS a1, a2, b1, c1, c2, p1, p2, s1, s2, ka, kb

TwoOne == {a1, a2, b1}

KeyMap == [i \in Inst |-> IF i \in {a1, a2} THEN ka ELSE kb]

Symmetric == Permutations({a1, a2} \cap Inst)
             \cup Permutations({c1, c2} \cap Callers)
             \cup Permutations({p1, p2} \cap Replayers)
             \cup Permutations({s1, s2} \cap Closers)
=============================================================================
