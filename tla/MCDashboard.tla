---------------------------- MODULE MCDashboard ----------------------------
(* Instances of Dashboard: two names, with files of their own, and a          *)
(* config.yaml with an account, a bucket, a template in it and a local one.    *)
EXTENDS Dashboard, TLC

CONSTANTS r1, r2, n1, n2, f1, f2, s1, s2, x1, x2, a1, b1, t1, t2, w1, w2, u1, u2

TwoFiles == n1 :> f1 @@ n2 :> f2

OneAccount == <<a1>>
OneBucket == <<b1>>
TwoTemplates == <<t1, t2>>
Where == [e \in {a1, b1, t1, t2} |-> IF e = t1 THEN b1 ELSE NoBucket]

=============================================================================
