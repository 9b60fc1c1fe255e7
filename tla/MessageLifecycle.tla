-------------------------- MODULE MessageLifecycle --------------------------
(***************************************************************************)
(* What SimpleMailer promises of one message, whatever queues, workers and   *)
(* leases carry it: it is handed to SMTP by one claim at a time, an          *)
(* acknowledged delivery is never attempted again nor reported as failed,    *)
(* an attempt of unknown outcome is shown as such, and an outcome is final.  *)
(***************************************************************************)
CONSTANT Msgs

VARIABLES
  life,   \* the message's state as the API's status groups it
  acked   \* the messages the SMTP server acknowledged

vars == <<life, acked>>

States == {"absent", "open", "claimed", "handed", "sent", "failed", "uncertain"}

TypeOK == life \in [Msgs -> States] /\ acked \subseteq Msgs

Init == life = [m \in Msgs |-> "absent"] /\ acked = {}

Move(m, from, to) ==
  /\ life[m] = from
  /\ life' = [life EXCEPT ![m] = to]
  /\ UNCHANGED acked

\* The API accepts the message.
Submit(m) == Move(m, "absent", "open")

\* The API accepts the rows of a bulk batch, all of them in one transaction.
SubmitAll(S) ==
  /\ S # {} /\ \A m \in S : life[m] = "absent"
  /\ life' = [m \in Msgs |-> IF m \in S THEN "open" ELSE life[m]]
  /\ UNCHANGED acked

\* A worker claims it, and gives the claim back before or after a failed
\* attempt, never after an acknowledged one.
Claim(m)   == Move(m, "open", "claimed")
Reopen(m)  == Move(m, "claimed", "open")
GiveUp(m)  == Move(m, "claimed", "failed")

\* The attempt is on record before SMTP sees the message.
HandOver(m)    == Move(m, "claimed", "handed")
TakeBack(m)    == m \notin acked /\ Move(m, "handed", "claimed")
Acknowledge(m) ==
  /\ life[m] \in {"handed", "uncertain"} /\ m \notin acked
  /\ acked' = acked \union {m}
  /\ UNCHANGED life

Settle(m)  == m \in acked /\ Move(m, "handed", "sent")

\* The reconciler settles every expired claim in one transaction.
Expire(S) ==
  /\ S # {} /\ \A m \in S : life[m] \in {"claimed", "handed"}
  /\ life' = [m \in Msgs |-> IF m \notin S THEN life[m]
                             ELSE IF life[m] = "claimed" THEN "open" ELSE "uncertain"]
  /\ UNCHANGED acked

Next ==
  \/ \E m \in Msgs : \/ Submit(m) \/ Claim(m) \/ Reopen(m) \/ GiveUp(m) \/ HandOver(m)
                     \/ TakeBack(m) \/ Acknowledge(m) \/ Settle(m)
  \/ \E S \in SUBSET Msgs : Expire(S) \/ SubmitAll(S)

Spec == Init /\ [][Next]_vars

=============================================================================
