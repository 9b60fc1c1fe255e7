---------------------------- MODULE MCAcceptance ----------------------------
(* An instance of Acceptance: two calls, one key, two bodies.               *)
EXTENDS Acceptance, TLC

CONSTANTS a1, a2, k1, x1, x2

Symmetry == Permutations(Calls) \union Permutations(Bodies)

=============================================================================
