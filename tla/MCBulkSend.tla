----------------------------- MODULE MCBulkSend -----------------------------
(* An instance of BulkSend: a batch of two items, two workers.              *)
EXTENDS BulkSend, TLC

CONSTANTS m1, m2, w1, w2, h1, h2, t1, c1, c2, c3, b1

OneOfEach == h1 :> w1 @@ h2 :> w2 @@ t1 :> w2
OneBatch == [m \in Msgs |-> b1]
Symmetry == Permutations(Msgs) \union Permutations(Copies)

=============================================================================
