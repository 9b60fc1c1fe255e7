--------------------------- MODULE MCMailDelivery ---------------------------
(***************************************************************************)
(* Instances of MailDelivery: what runs where.                              *)
(***************************************************************************)
EXTENDS MailDelivery, TLC

CONSTANTS m1, m2, w1, w2, h1, h2, t1, t2, c1, c2, c3, c4

\* Two workers with one handler each; the reconciler iteration t1 runs in w2.
OneHandlerEach == h1 :> w1 @@ h2 :> w2 @@ t1 :> w2

\* Two workers, each with one handler and one reconciler iteration.
OneHandlerAndTickEach == h1 :> w1 @@ h2 :> w2 @@ t1 :> w1 @@ t2 :> w2

CopySymmetry == Permutations(Copies)

=============================================================================
