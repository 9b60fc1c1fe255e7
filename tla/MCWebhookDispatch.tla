------------------------- MODULE MCWebhookDispatch -------------------------
(* Instances of WebhookDispatch. Deliveries go to one endpoint or to two.   *)
EXTENDS WebhookDispatch, TLC

CONSTANTS d1, d2, e1, e2

OneEndpoint == [d \in Deliveries |-> e1]
TwoEndpoints == [d \in Deliveries |-> IF d = d1 THEN e1 ELSE e2]

Symmetry == Permutations(Workers) \union Permutations(Deliveries)

=============================================================================
