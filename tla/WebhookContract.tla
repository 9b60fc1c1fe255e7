--------------------------- MODULE WebhookContract ---------------------------
(***************************************************************************)
(* What the receiver of webhooks may rely on, without workers, leases and    *)
(* timers: an event offered to an endpoint is tried, and in the end it was    *)
(* answered by the endpoint or tried as often as configured.                 *)
(***************************************************************************)
EXTENDS Naturals

CONSTANTS Deliveries, MaxAttempts

VARIABLES
  outcome,   \* of each delivery: none, open, delivered or exhausted
  tries,     \* attempts begun
  answered   \* deliveries the endpoint has answered with success

Init ==
  /\ outcome = [d \in Deliveries |-> "none"]
  /\ tries = [d \in Deliveries |-> 0]
  /\ answered = {}

Offer(d) ==
  /\ outcome[d] = "none"
  /\ outcome' = [outcome EXCEPT ![d] = "open"]
  /\ UNCHANGED <<tries, answered>>

Try(D) ==
  /\ \A d \in D : outcome[d] = "open"
  /\ tries' = [d \in Deliveries |-> IF d \in D THEN tries[d] + 1 ELSE tries[d]]
  /\ UNCHANGED <<outcome, answered>>

Answer(d) ==
  /\ tries[d] > 0
  /\ answered' = answered \union {d}
  /\ UNCHANGED <<outcome, tries>>

Deliver(d) ==
  /\ outcome[d] = "open" /\ d \in answered
  /\ outcome' = [outcome EXCEPT ![d] = "delivered"]
  /\ UNCHANGED <<tries, answered>>

GiveUp(d) ==
  /\ outcome[d] = "open" /\ tries[d] >= MaxAttempts
  /\ outcome' = [outcome EXCEPT ![d] = "exhausted"]
  /\ UNCHANGED <<tries, answered>>

Next ==
  \/ \E d \in Deliveries : Offer(d) \/ Answer(d) \/ Deliver(d) \/ GiveUp(d)
  \/ \E D \in SUBSET Deliveries : Try(D)

Spec == Init /\ [][Next]_<<outcome, tries, answered>>

=============================================================================
