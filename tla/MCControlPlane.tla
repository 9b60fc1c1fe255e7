--------------------------- MODULE MCControlPlane ---------------------------
(* An instance of ControlPlane: two clients, three keys, two contents.      *)
EXTENDS ControlPlane, TLC

CONSTANTS r1, r2, k1, k2, k3, p1, v1, v2, d1, d2

Symmetry ==
  Permutations(Clients) \union Permutations(Keys) \union Permutations(Values) \union Permutations(Digests)

=============================================================================
