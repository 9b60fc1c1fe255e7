--------------------------- MODULE WebhookDispatch ---------------------------
(***************************************************************************)
(* Webhook deliveries: their rows, the endpoints' rows, and the dispatcher of *)
(* every worker process that claims deliveries under a lease, posts them and *)
(* records what came of it.                                                  *)
(*                                                                          *)
(* A transaction and an HTTP exchange are one step each. An attempt is a     *)
(* delivery and the number its claim gave it; claims are transactions, so    *)
(* no two share a number. All that a claim finds is claimed: its limit of 25 *)
(* is above every instance.                                                  *)
(***************************************************************************)
EXTENDS Naturals, FiniteSets

CONSTANTS
  Deliveries, Endpoints, Workers,
  EndpointOf,    \* the endpoint of a delivery
  MaxAttempts,   \* webhookMaxAttempts
  DisableAfter,  \* webhookDisableAfterFailures
  MaxClaims,     \* bound: claims of one delivery
  Faults,        \* what goes wrong: a subset of FaultKinds
  None

FaultKinds ==
  {"db",     \* a database call throws, having committed or not
   "secret", \* a worker cannot decrypt the signing secret of a delivery
   "crash",  \* a worker process ends
   "slow"}   \* a post outlasts its lease

ASSUME WebhookAssumption ==
  /\ {MaxAttempts, DisableAfter} \subseteq Nat \ {0}
  /\ MaxClaims \in Nat
  /\ EndpointOf \in [Deliveries -> Endpoints]
  /\ Faults \subseteq FaultKinds
  /\ None \notin Workers

VARIABLES
  status,    \* WebhookDelivery.status, or none before the row exists
  owner,     \* processingOwner
  lease,     \* leaseExpiresAt: none, live or expired
  due,       \* nextAttemptAt has passed
  attempts,  \* attemptCount
  endpoint,  \* WebhookEndpoint.status
  failures,  \* consecutiveFailures
  at,        \* each attempt: where its call of deliver is
  by,        \* the worker that makes the call
  waits,     \* attempts the running iteration of a worker waits for
  up,        \* worker processes that run
  answered,  \* history: deliveries the endpoint answered with 2xx
  losses,    \* history: failures of the endpoint recorded since a success or activation
  blamed     \* history: endpoints with a success that could not be recorded

delivery == <<status, owner, lease, due, attempts>>
calls == <<at, by, waits>>
vars == <<status, owner, lease, due, attempts, endpoint, failures, at, by, waits, up,
          answered, losses, blamed>>

Attempts == Deliveries \X (1..MaxClaims)
Ended == {"SUCCEEDED", "FAILED"}

Phase ==
  {"none",
   "fetch",     \* the request is on its way
   "ok",        \* answered with 2xx, success not recorded yet
   "refused",   \* answered otherwise, failure not recorded yet
   "error",     \* no answer, or recording the refusal threw
   "unstored"}  \* answered with 2xx, recording the success threw

InFlight(a) == at[a] # "none"

Init ==
  /\ status = [d \in Deliveries |-> "none"]
  /\ owner = [d \in Deliveries |-> None]
  /\ lease = [d \in Deliveries |-> "none"]
  /\ due = [d \in Deliveries |-> FALSE]
  /\ attempts = [d \in Deliveries |-> 0]
  /\ endpoint = [e \in Endpoints |-> "ACTIVE"]
  /\ failures = [e \in Endpoints |-> 0]
  /\ at = [a \in Attempts |-> "none"]
  /\ by = [a \in Attempts |-> None]
  /\ waits = [w \in Workers |-> {}]
  /\ up = Workers
  /\ answered = {}
  /\ losses = [e \in Endpoints |-> 0]
  /\ blamed = {}

-----------------------------------------------------------------------------
(* The control plane.                                                       *)

\* An event, a test or a replay.
Create(d) ==
  /\ status[d] = "none" /\ endpoint[EndpointOf[d]] = "ACTIVE"
  /\ status' = [status EXCEPT ![d] = "PENDING"]
  /\ due' = [due EXCEPT ![d] = TRUE]
  /\ UNCHANGED <<owner, lease, attempts, endpoint, failures, calls, up, answered, losses, blamed>>

\* Mutant: activation keeps the failures.
SetStatus_KeepsFailures(e, s) ==
  /\ endpoint' = [endpoint EXCEPT ![e] = s]
  /\ UNCHANGED <<failures, losses>>

SetStatus(e, s) ==
  /\ endpoint' = [endpoint EXCEPT ![e] = s]
  /\ IF s = "ACTIVE"
     THEN failures' = [failures EXCEPT ![e] = 0] /\ losses' = [losses EXCEPT ![e] = 0]
     ELSE UNCHANGED <<failures, losses>>

Update(e) ==
  /\ \E s \in {"ACTIVE", "PAUSED"} : SetStatus(e, s)
  /\ UNCHANGED <<delivery, calls, up, answered, blamed>>

-----------------------------------------------------------------------------
(* claimDeliveries, and the synchronous start of deliver.                   *)

\* Mutant: leases that ran out are not taken over.
Claimable_PendingOnly(d) ==
  /\ status[d] = "PENDING" /\ due[d]
  /\ endpoint[EndpointOf[d]] = "ACTIVE"
  /\ attempts[d] < MaxClaims

Claimable(d) ==
  /\ \/ status[d] = "PENDING" /\ due[d]
     \/ status[d] = "PROCESSING" /\ lease[d] = "expired"
  /\ endpoint[EndpointOf[d]] = "ACTIVE"
  /\ attempts[d] < MaxClaims

Claimed == {d \in Deliveries : Claimable(d)}

ClaimRows(w) ==
  /\ status' = [d \in Deliveries |-> IF d \in Claimed THEN "PROCESSING" ELSE status[d]]
  /\ owner' = [d \in Deliveries |-> IF d \in Claimed THEN w ELSE owner[d]]
  /\ lease' = [d \in Deliveries |-> IF d \in Claimed THEN "live" ELSE lease[d]]
  /\ attempts' = [d \in Deliveries |-> IF d \in Claimed THEN attempts[d] + 1 ELSE attempts[d]]
  /\ UNCHANGED due

\* The call of deliver for each claimed delivery. One whose secret cannot be decrypted
\* rejects at once, and the iteration with it.
Begin(w, sealed) ==
  LET begun == {<<d, attempts'[d]>> : d \in Claimed \ sealed} IN
  /\ at' = [a \in Attempts |-> IF a \in begun THEN "fetch" ELSE at[a]]
  /\ by' = [a \in Attempts |-> IF a \in begun THEN w ELSE by[a]]
  /\ waits' = [waits EXCEPT ![w] = @ \union IF sealed = {} THEN begun ELSE {}]

\* Mutant: the running flag is not looked at.
Free_Always(w) == w \in up

Free(w) == w \in up /\ waits[w] = {}

Dispatch(w) ==
  /\ Free(w) /\ Claimed # {}
  /\ ClaimRows(w)
  /\ \/ Begin(w, {})
     \/ "secret" \in Faults /\ \E sealed \in SUBSET Claimed : Begin(w, sealed)
     \/ "db" \in Faults /\ UNCHANGED calls
  /\ UNCHANGED <<endpoint, failures, up, answered, losses, blamed>>

-----------------------------------------------------------------------------
(* deliver.                                                                 *)

Move(a, p) == at' = [at EXCEPT ![a] = p] /\ UNCHANGED <<by, waits>>

End(a) == at' = [at EXCEPT ![a] = "none"] /\ by' = [by EXCEPT ![a] = None]

Resolve(a) == End(a) /\ waits' = [waits EXCEPT ![by[a]] = @ \ {a}]

\* Promise.all rejects with the first of its calls; the others go on unattended.
Reject(a) ==
  /\ End(a)
  /\ waits' = [waits EXCEPT ![by[a]] = IF a \in @ THEN {} ELSE @]

\* The endpoint answers with 2xx, with something else, or not in time.
Answer(a) ==
  /\ at[a] = "fetch"
  /\ \/ Move(a, "ok") /\ answered' = answered \union {a[1]}
     \/ Move(a, "refused") /\ UNCHANGED answered
     \/ Move(a, "error") /\ UNCHANGED answered
  /\ UNCHANGED <<delivery, endpoint, failures, up, losses, blamed>>

Holds(a) == owner[a[1]] = by[a]

\* Mutant: the owner is cleared, the lease is not.
Release_KeepsLease(d, s, soon) ==
  /\ status' = [status EXCEPT ![d] = s]
  /\ owner' = [owner EXCEPT ![d] = None]
  /\ due' = [due EXCEPT ![d] = soon]
  /\ UNCHANGED <<lease, attempts>>

Release(d, s, soon) ==
  /\ status' = [status EXCEPT ![d] = s]
  /\ owner' = [owner EXCEPT ![d] = None]
  /\ lease' = [lease EXCEPT ![d] = "none"]
  /\ due' = [due EXCEPT ![d] = soon]
  /\ UNCHANGED attempts

\* Mutant: a success does not end the row of failures.
NoteSuccess_KeepsFailures(e) == losses' = [losses EXCEPT ![e] = 0] /\ UNCHANGED <<endpoint, failures>>

NoteSuccess(e) ==
  /\ failures' = [failures EXCEPT ![e] = 0]
  /\ losses' = [losses EXCEPT ![e] = 0]
  /\ UNCHANGED endpoint

\* recordSuccess's transaction. deliveredAt is set; nextAttemptAt stays.
WriteSuccess(a) ==
  IF Holds(a)
  THEN Release(a[1], "SUCCEEDED", due[a[1]]) /\ NoteSuccess(EndpointOf[a[1]])
  ELSE UNCHANGED <<delivery, endpoint, failures, losses>>

RecordSuccess(a) ==
  /\ at[a] = "ok"
  /\ \/ WriteSuccess(a) /\ Resolve(a) /\ UNCHANGED blamed
     \/ /\ "db" \in Faults
        /\ WriteSuccess(a) \/ UNCHANGED <<delivery, endpoint, failures, losses>>
        /\ Move(a, "unstored") /\ blamed' = blamed \union {EndpointOf[a[1]]}
  /\ UNCHANGED <<up, answered>>

\* Mutant: one attempt less is enough.
Exhausted_Early(a) == a[2] + 1 >= MaxAttempts

Exhausted(a) == a[2] >= MaxAttempts

NoteFailure(e, genuine) ==
  /\ failures' = [failures EXCEPT ![e] = @ + 1]
  /\ losses' = [losses EXCEPT ![e] = IF genuine THEN @ + 1 ELSE @]
  /\ endpoint' = [endpoint EXCEPT ![e] = IF failures[e] + 1 >= DisableAfter THEN "DISABLED" ELSE @]

\* recordFailure's transaction.
WriteFailure(a) ==
  IF Holds(a)
  THEN /\ Release(a[1], IF Exhausted(a) THEN "FAILED" ELSE "PENDING", Exhausted(a))
       /\ NoteFailure(EndpointOf[a[1]], at[a] # "unstored")
  ELSE UNCHANGED <<delivery, endpoint, failures, losses>>

\* recordFailure in the try block, whose catch calls it again, and in the catch.
RecordFailure(a) ==
  /\ at[a] \in {"refused", "error", "unstored"}
  /\ \/ WriteFailure(a) /\ Resolve(a)
     \/ /\ "db" \in Faults
        /\ WriteFailure(a) \/ UNCHANGED <<delivery, endpoint, failures, losses>>
        /\ IF at[a] = "refused" THEN Move(a, "error") ELSE Reject(a)
  /\ UNCHANGED <<up, answered, blamed>>

-----------------------------------------------------------------------------
(* Time and failures.                                                       *)

\* The backoff of webhookRetryDelayMs is over.
BecomeDue(d) ==
  /\ status[d] = "PENDING" /\ ~due[d]
  /\ due' = [due EXCEPT ![d] = TRUE]
  /\ UNCHANGED <<status, owner, lease, attempts, endpoint, failures, calls, up, answered, losses, blamed>>

LeaseExpires(d) ==
  /\ lease[d] = "live"
  /\ "slow" \in Faults \/ \A a \in Attempts : a[1] = d => ~InFlight(a)
  /\ lease' = [lease EXCEPT ![d] = "expired"]
  /\ UNCHANGED <<status, owner, due, attempts, endpoint, failures, calls, up, answered, losses, blamed>>

\* A kill, or the end of a shutdown that waits for the running iteration only. A new
\* process has an id of its own and is one more member of Workers; one survives.
Crash(w) ==
  /\ "crash" \in Faults /\ w \in up /\ up # {w}
  /\ up' = up \ {w}
  /\ at' = [a \in Attempts |-> IF by[a] = w THEN "none" ELSE at[a]]
  /\ by' = [a \in Attempts |-> IF by[a] = w THEN None ELSE by[a]]
  /\ waits' = [waits EXCEPT ![w] = {}]
  /\ UNCHANGED <<delivery, endpoint, failures, answered, losses, blamed>>

Call(a) == Answer(a) \/ RecordSuccess(a) \/ RecordFailure(a)

Next ==
  \/ \E d \in Deliveries : Create(d) \/ BecomeDue(d) \/ LeaseExpires(d)
  \/ \E e \in Endpoints : Update(e)
  \/ \E w \in Workers : Dispatch(w) \/ Crash(w)
  \/ \E a \in Attempts : Call(a)

Spec == Init /\ [][Next]_vars

\* The interval fires, a request ends within its timeout, clocks advance.
Fairness ==
  /\ \A d \in Deliveries : WF_vars(BecomeDue(d)) /\ WF_vars(LeaseExpires(d))
  /\ \A w \in Workers : WF_vars(Dispatch(w))
  /\ \A a \in Attempts : WF_vars(Call(a))

FairSpec == Spec /\ Fairness

-----------------------------------------------------------------------------
(* Properties.                                                              *)

TypeOK ==
  /\ status \in [Deliveries -> {"none", "PENDING", "PROCESSING", "SUCCEEDED", "FAILED"}]
  /\ owner \in [Deliveries -> Workers \union {None}]
  /\ lease \in [Deliveries -> {"none", "live", "expired"}]
  /\ due \in [Deliveries -> BOOLEAN]
  /\ attempts \in [Deliveries -> 0..MaxClaims]
  /\ endpoint \in [Endpoints -> {"ACTIVE", "PAUSED", "DISABLED"}]
  /\ failures \in [Endpoints -> Nat] /\ losses \in [Endpoints -> Nat]
  /\ at \in [Attempts -> Phase]
  /\ by \in [Attempts -> Workers \union {None}]
  /\ waits \in [Workers -> SUBSET Attempts]
  /\ up \subseteq Workers /\ answered \subseteq Deliveries /\ blamed \subseteq Endpoints

\* claimDeliveries and the two record functions leave a row with an owner and a lease
\* exactly while it is PROCESSING; the owner guard alone is enough.
LeaseMatchesStatus ==
  \A d \in Deliveries :
    /\ status[d] = "PROCESSING" <=> owner[d] # None
    /\ status[d] = "PROCESSING" <=> lease[d] # "none"

\* A call in progress carries the number of a claim that was made, by a process that
\* runs, and knows what the endpoint answered; an iteration waits for its own calls.
CallsAreClaimed ==
  /\ \A a \in Attempts :
       /\ by[a] = None <=> at[a] = "none"
       /\ InFlight(a) => a[2] <= attempts[a[1]] /\ by[a] \in up
       /\ at[a] \in {"ok", "unstored"} => a[1] \in answered
  /\ \A w \in Workers : \A a \in waits[w] : by[a] = w

\* An endpoint that is posted to has fewer consecutive failures than the threshold:
\* recordFailure disables it on reaching it, and updateWebhookEndpoint activates it with none.
ActiveIsHealthy ==
  \A e \in Endpoints : endpoint[e] = "ACTIVE" => failures[e] < DisableAfter

DispatchInv == TypeOK /\ LeaseMatchesStatus /\ CallsAreClaimed /\ ActiveIsHealthy

\* recordFailure takes an endpoint out of service only after DisableAfter recorded
\* failures of its own since it last succeeded or was activated, unless a success of it
\* could not be recorded: deliver then records a failure.
DisabledOnEvidence ==
  [][\A e \in Endpoints :
       endpoint[e] = "ACTIVE" /\ endpoint'[e] = "DISABLED" /\ e \notin blamed
         => losses'[e] >= DisableAfter]_vars

\* The lease token is the worker's id, yet a call its iteration waits for records only
\* while its own attempt holds the lease: the running flag keeps it apart from others.
ResultsByHolder ==
  [][\A w \in Workers : \A a \in waits[w] :
       at'[a] = "none" /\ owner[a[1]] # None /\ owner'[a[1]] = None
         => a[2] = attempts[a[1]]]_vars

\* A delivery to an endpoint that stays in service succeeds or fails for good.
EveryDeliveryEnds ==
  \A d \in Deliveries :
    <>[](endpoint[EndpointOf[d]] = "ACTIVE") => (status[d] = "PENDING" ~> status[d] \in Ended)

Outcome ==
  [d \in Deliveries |->
     IF status[d] \in {"PENDING", "PROCESSING"} THEN "open"
     ELSE IF status[d] = "SUCCEEDED" THEN "delivered"
     ELSE IF status[d] = "FAILED" THEN "exhausted" ELSE "none"]

Contract == INSTANCE WebhookContract WITH outcome <- Outcome, tries <- attempts

\* The dispatchers do what WebhookContract promises: success rests on an answer, failure
\* on MaxAttempts attempts, and both are final.
ImplementsContract == Contract!Spec

=============================================================================
