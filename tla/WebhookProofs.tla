---------------------------- MODULE WebhookProofs ----------------------------
EXTENDS WebhookDispatch, TLAPS

\* What the proofs need of the set of attempts.
LEMMA AttemptParts ==
  ASSUME NEW a \in Attempts
  PROVE  a[1] \in Deliveries /\ a[2] \in Nat /\ a[2] >= 1 /\ a = <<a[1], a[2]>>
BY WebhookAssumption DEF Attempts

\* The start of deliver leaves the calls in order: each is counted by its row.
LEMMA BeginCalls ==
  ASSUME TypeOK, CallsAreClaimed, NEW w \in up, NEW sealed \in SUBSET Claimed,
         ClaimRows(w), Begin(w, sealed), UNCHANGED <<up, answered>>
  PROVE  CallsAreClaimed' /\ at' \in [Attempts -> Phase]
         /\ by' \in [Attempts -> Workers \union {None}] /\ waits' \in [Workers -> SUBSET Attempts]
<1> DEFINE begun == {<<d, attempts'[d]>> : d \in Claimed \ sealed}
<1>1. /\ at' = [a \in Attempts |-> IF a \in begun THEN "fetch" ELSE at[a]]
      /\ by' = [a \in Attempts |-> IF a \in begun THEN w ELSE by[a]]
      /\ waits' = [waits EXCEPT ![w] = @ \union IF sealed = {} THEN begun ELSE {}]
  BY DEF Begin
<1>2. \A d \in Deliveries : /\ attempts[d] \in 0..MaxClaims
                            /\ attempts'[d] = IF d \in Claimed THEN attempts[d] + 1 ELSE attempts[d]
                            /\ d \in Claimed => attempts[d] < MaxClaims
  BY DEF ClaimRows, TypeOK, Claimed, Claimable
<1>3. begun \subseteq Attempts
  BY <1>2, WebhookAssumption DEF Attempts, Claimed
<1>4. \A a \in begun : a[2] = attempts'[a[1]] /\ a[2] = attempts[a[1]] + 1 /\ a[1] \in Deliveries
  BY <1>2 DEF Claimed
<1>5. \A a \in begun : at[a] = "none"
  BY <1>2, <1>3, <1>4 DEF CallsAreClaimed, InFlight
<1> HIDE DEF begun
<1>6. w \in Workers /\ w # None /\ None \notin Workers
  BY WebhookAssumption DEF TypeOK
<1>7. /\ at' \in [Attempts -> Phase] /\ by' \in [Attempts -> Workers \union {None}]
      /\ waits' \in [Workers -> SUBSET Attempts]
  BY <1>1, <1>3, <1>6 DEF TypeOK, Phase
<1>8. ASSUME NEW a \in Attempts
      PROVE  /\ by'[a] = None <=> at'[a] = "none"
             /\ at'[a] # "none" => a[2] <= attempts'[a[1]] /\ by'[a] \in up'
             /\ at'[a] \in {"ok", "unstored"} => a[1] \in answered'
  <2>1. CASE a \in begun
    BY <1>1, <1>2, <1>4, <1>6, <2>1, AttemptParts
  <2>2. CASE a \notin begun
    <3>1. at'[a] = at[a] /\ by'[a] = by[a]
      BY <1>1, <2>2
    <3>2. attempts[a[1]] \in Nat /\ attempts'[a[1]] \in Nat /\ attempts[a[1]] <= attempts'[a[1]] /\ a[2] \in Nat
      BY <1>2, AttemptParts
    <3> QED BY <3>1, <3>2 DEF CallsAreClaimed, InFlight
  <2> QED BY <2>1, <2>2
<1>9. ASSUME NEW v \in Workers, NEW a \in waits'[v] PROVE by'[a] = v
  <2>1. CASE v = w
    <3>1. CASE a \in begun
      BY <1>1, <1>3, <2>1, <3>1
    <3>2. CASE a \notin begun
      <4>1. a \in waits[v] /\ a \in Attempts /\ by[a] = v
        BY <1>1, <1>6, <2>1, <3>2 DEF TypeOK, CallsAreClaimed
      <4> QED BY <1>1, <3>2, <4>1
    <3> QED BY <3>1, <3>2
  <2>2. CASE v # w
    <3>1. a \in waits[v] /\ a \in Attempts /\ by[a] = v
      BY <1>1, <2>2 DEF TypeOK, CallsAreClaimed
    <3>2. a \notin begun
      BY <1>5, <1>6, <3>1 DEF CallsAreClaimed
    <3> QED BY <1>1, <3>1, <3>2
  <2> QED BY <2>1, <2>2
<1> QED BY <1>7, <1>8, <1>9 DEF CallsAreClaimed, InFlight

LEMMA DispatchKeeps ==
  ASSUME DispatchInv, NEW w \in Workers, Dispatch(w)
  PROVE  DispatchInv'
<1> USE WebhookAssumption DEF DispatchInv
<1>1. w \in up /\ ClaimRows(w) /\ UNCHANGED <<endpoint, failures, up, answered, losses, blamed>>
  BY DEF Dispatch, Free
<1>2. /\ status' \in [Deliveries -> {"none", "PENDING", "PROCESSING", "SUCCEEDED", "FAILED"}]
      /\ owner' \in [Deliveries -> Workers \union {None}]
      /\ lease' \in [Deliveries -> {"none", "live", "expired"}]
      /\ due' \in [Deliveries -> BOOLEAN]
      /\ attempts' \in [Deliveries -> 0..MaxClaims]
  BY <1>1 DEF TypeOK, ClaimRows, Claimed, Claimable
<1>3. LeaseMatchesStatus'
  BY <1>1 DEF LeaseMatchesStatus, ClaimRows
<1>4. CallsAreClaimed' /\ at' \in [Attempts -> Phase]
      /\ by' \in [Attempts -> Workers \union {None}] /\ waits' \in [Workers -> SUBSET Attempts]
  <2>1. ASSUME NEW sealed \in SUBSET Claimed, Begin(w, sealed)
        PROVE  CallsAreClaimed' /\ at' \in [Attempts -> Phase]
               /\ by' \in [Attempts -> Workers \union {None}] /\ waits' \in [Workers -> SUBSET Attempts]
    BY <1>1, <2>1, BeginCalls
  <2>2. CASE UNCHANGED calls
    <3>1. ASSUME NEW d \in Deliveries PROVE attempts[d] \in Nat /\ attempts'[d] \in Nat /\ attempts[d] <= attempts'[d]
      BY <1>1 DEF ClaimRows, TypeOK
    <3>2. ASSUME NEW a \in Attempts, InFlight(a) PROVE a[2] <= attempts'[a[1]]
      BY <3>1, <3>2, AttemptParts DEF CallsAreClaimed
    <3> QED BY <1>1, <2>2, <3>2 DEF CallsAreClaimed, calls, TypeOK, InFlight
  <2> QED BY <2>1, <2>2 DEF Dispatch
<1> QED BY <1>1, <1>2, <1>3, <1>4 DEF TypeOK, ActiveIsHealthy

-----------------------------------------------------------------------------

\* A call that moves on or ends disturbs no other call.
LEMMA CallMoves ==
  ASSUME TypeOK, CallsAreClaimed, NEW a \in Attempts, InFlight(a), UNCHANGED <<attempts, up>>,
         answered \subseteq answered',
         \/ Resolve(a) \/ Reject(a)
         \/ \E p \in Phase \ {"none"} :
              Move(a, p) /\ (p \in {"ok", "unstored"} => a[1] \in answered')
  PROVE  CallsAreClaimed' /\ at' \in [Attempts -> Phase]
         /\ by' \in [Attempts -> Workers \union {None}] /\ waits' \in [Workers -> SUBSET Attempts]
<1>0. by[a] \in Workers /\ by[a] # None
  BY WebhookAssumption DEF TypeOK, CallsAreClaimed, InFlight
<1>1. CASE Resolve(a) \/ Reject(a)
  <2>1. /\ at' = [at EXCEPT ![a] = "none"] /\ by' = [by EXCEPT ![a] = None]
        /\ waits' \in [Workers -> SUBSET Attempts]
        /\ \A v \in Workers : waits'[v] \subseteq waits[v] /\ (v = by[a] => a \notin waits'[v])
    BY <1>0, <1>1 DEF Resolve, Reject, End, TypeOK
  <2>2. \A v \in Workers : a \in waits[v] => v = by[a]
    BY DEF CallsAreClaimed
  <2>3. \A v \in Workers : \A b \in waits'[v] : b \in Attempts /\ by'[b] = v
    BY <2>1, <2>2 DEF CallsAreClaimed, TypeOK
  <2>4. \A b \in Attempts : /\ b # a => at'[b] = at[b] /\ by'[b] = by[b]
                            /\ at'[a] = "none" /\ by'[a] = None
    BY <2>1 DEF TypeOK
  <2>5. at' \in [Attempts -> Phase] /\ by' \in [Attempts -> Workers \union {None}]
    BY <2>1 DEF TypeOK, Phase
  <2> QED BY <2>1, <2>3, <2>4, <2>5 DEF CallsAreClaimed, InFlight
<1>2. ASSUME NEW p \in Phase \ {"none"}, Move(a, p), p \in {"ok", "unstored"} => a[1] \in answered'
      PROVE  CallsAreClaimed' /\ at' \in [Attempts -> Phase] /\ by' = by /\ waits' = waits
  <2>1. /\ at' = [at EXCEPT ![a] = p] /\ by' = by /\ waits' = waits
    BY <1>2 DEF Move
  <2>2. \A b \in Attempts : (b # a => at'[b] = at[b]) /\ at'[a] = p
    BY <2>1 DEF TypeOK
  <2> QED BY <1>2, <2>1, <2>2 DEF CallsAreClaimed, InFlight, TypeOK
<1> QED BY <1>1, <1>2 DEF TypeOK

\* A row that is released has neither owner nor lease.
LEMMA ReleaseKeeps ==
  ASSUME TypeOK, LeaseMatchesStatus, NEW d \in Deliveries, NEW soon \in BOOLEAN,
         NEW s \in {"PENDING", "SUCCEEDED", "FAILED"}, Release(d, s, soon)
  PROVE  /\ status' \in [Deliveries -> {"none", "PENDING", "PROCESSING", "SUCCEEDED", "FAILED"}]
         /\ owner' \in [Deliveries -> Workers \union {None}]
         /\ lease' \in [Deliveries -> {"none", "live", "expired"}]
         /\ due' \in [Deliveries -> BOOLEAN]
         /\ attempts' = attempts /\ LeaseMatchesStatus'
BY WebhookAssumption DEF TypeOK, LeaseMatchesStatus, Release

LEMMA EndpointKeeps ==
  ASSUME TypeOK, ActiveIsHealthy, NEW e \in Endpoints,
         NoteSuccess(e) \/ \E genuine \in BOOLEAN : NoteFailure(e, genuine)
  PROVE  /\ endpoint' \in [Endpoints -> {"ACTIVE", "PAUSED", "DISABLED"}]
         /\ failures' \in [Endpoints -> Nat] /\ losses' \in [Endpoints -> Nat]
         /\ ActiveIsHealthy'
<1>1. CASE NoteSuccess(e)
  BY <1>1, WebhookAssumption DEF TypeOK, ActiveIsHealthy, NoteSuccess
<1>2. ASSUME NEW genuine \in BOOLEAN, NoteFailure(e, genuine)
      PROVE  /\ endpoint' \in [Endpoints -> {"ACTIVE", "PAUSED", "DISABLED"}]
             /\ failures' \in [Endpoints -> Nat] /\ losses' \in [Endpoints -> Nat]
             /\ ActiveIsHealthy'
  BY <1>2, WebhookAssumption DEF TypeOK, ActiveIsHealthy, NoteFailure
<1> QED BY <1>1, <1>2

\* What a transaction of recordSuccess or recordFailure leaves behind.
LEMMA WriteKeeps ==
  ASSUME DispatchInv, NEW a \in Attempts,
         \/ WriteSuccess(a) \/ WriteFailure(a)
         \/ UNCHANGED <<delivery, endpoint, failures, losses>>
  PROVE  /\ status' \in [Deliveries -> {"none", "PENDING", "PROCESSING", "SUCCEEDED", "FAILED"}]
         /\ owner' \in [Deliveries -> Workers \union {None}]
         /\ lease' \in [Deliveries -> {"none", "live", "expired"}]
         /\ due' \in [Deliveries -> BOOLEAN]
         /\ attempts' = attempts /\ LeaseMatchesStatus'
         /\ endpoint' \in [Endpoints -> {"ACTIVE", "PAUSED", "DISABLED"}]
         /\ failures' \in [Endpoints -> Nat] /\ losses' \in [Endpoints -> Nat]
         /\ ActiveIsHealthy'
<1>0. TypeOK /\ LeaseMatchesStatus /\ ActiveIsHealthy /\ a[1] \in Deliveries
      /\ EndpointOf[a[1]] \in Endpoints
  BY AttemptParts, WebhookAssumption DEF DispatchInv
<1>1. CASE UNCHANGED <<delivery, endpoint, failures, losses>>
  BY <1>0, <1>1 DEF delivery, TypeOK, LeaseMatchesStatus, ActiveIsHealthy
<1>2. CASE WriteSuccess(a) /\ Holds(a)
  <2>1. due[a[1]] \in BOOLEAN
    BY <1>0 DEF TypeOK
  <2> QED BY <1>0, <1>2, <2>1, ReleaseKeeps, EndpointKeeps DEF WriteSuccess
<1>3. CASE WriteFailure(a) /\ Holds(a)
  <2>1. Exhausted(a) \in BOOLEAN /\ (at[a] # "unstored") \in BOOLEAN
    BY DEF Exhausted
  <2>2. PICK s \in {"PENDING", "FAILED"} : Release(a[1], s, Exhausted(a))
    BY <1>3 DEF WriteFailure
  <2>3. NoteFailure(EndpointOf[a[1]], at[a] # "unstored")
    BY <1>3 DEF WriteFailure
  <2> QED BY <1>0, <2>1, <2>2, <2>3, ReleaseKeeps, EndpointKeeps
<1> QED BY <1>1, <1>2, <1>3 DEF WriteSuccess, WriteFailure

LEMMA CallKeeps ==
  ASSUME DispatchInv, NEW a \in Attempts, Call(a)
  PROVE  DispatchInv'
<1>0. InFlight(a) /\ TypeOK /\ CallsAreClaimed /\ a[1] \in Deliveries /\ UNCHANGED up
  BY AttemptParts DEF Call, Answer, RecordSuccess, RecordFailure, InFlight, DispatchInv
<1>1. \/ WriteSuccess(a) \/ WriteFailure(a)
      \/ UNCHANGED <<delivery, endpoint, failures, losses>>
  BY DEF Call, Answer, RecordSuccess, RecordFailure
<1>2. attempts' = attempts
  BY <1>1, WriteKeeps
<1>3. answered \subseteq answered' /\ answered' \subseteq Deliveries /\ blamed' \subseteq Endpoints
  BY <1>0, WebhookAssumption DEF Call, Answer, RecordSuccess, RecordFailure, TypeOK
<1>4. \/ Resolve(a) \/ Reject(a)
      \/ \E p \in Phase \ {"none"} :
           Move(a, p) /\ (p \in {"ok", "unstored"} => a[1] \in answered')
  <2>1. CASE Answer(a)
    BY <2>1 DEF Answer, Phase
  <2>2. CASE RecordSuccess(a)
    BY <2>2, <1>0 DEF RecordSuccess, Phase, CallsAreClaimed
  <2>3. CASE RecordFailure(a)
    BY <2>3 DEF RecordFailure, Phase
  <2> QED BY <2>1, <2>2, <2>3 DEF Call
<1>5. CallsAreClaimed' /\ at' \in [Attempts -> Phase]
      /\ by' \in [Attempts -> Workers \union {None}] /\ waits' \in [Workers -> SUBSET Attempts]
  BY <1>0, <1>2, <1>3, <1>4, CallMoves
<1> QED BY <1>0, <1>1, <1>2, <1>3, <1>5, WriteKeeps DEF DispatchInv, TypeOK

LEMMA OthersKeep ==
  ASSUME DispatchInv
  PROVE  /\ \A d \in Deliveries : Create(d) \/ BecomeDue(d) \/ LeaseExpires(d) => DispatchInv'
         /\ \A e \in Endpoints : Update(e) => DispatchInv'
         /\ \A w \in Workers : Crash(w) => DispatchInv'
         /\ UNCHANGED vars => DispatchInv'
<1> USE WebhookAssumption DEF DispatchInv
<1>1. ASSUME NEW d \in Deliveries, Create(d) PROVE DispatchInv'
  BY <1>1 DEF Create, calls, TypeOK, LeaseMatchesStatus, CallsAreClaimed, ActiveIsHealthy, InFlight
<1>2. ASSUME NEW d \in Deliveries, BecomeDue(d) PROVE DispatchInv'
  BY <1>2 DEF BecomeDue, calls, TypeOK, LeaseMatchesStatus, CallsAreClaimed, ActiveIsHealthy, InFlight
<1>3. ASSUME NEW d \in Deliveries, LeaseExpires(d) PROVE DispatchInv'
  BY <1>3 DEF LeaseExpires, calls, TypeOK, LeaseMatchesStatus, CallsAreClaimed, ActiveIsHealthy, InFlight
<1>4. ASSUME NEW e \in Endpoints, Update(e) PROVE DispatchInv'
  BY <1>4 DEF Update, SetStatus, delivery, calls, TypeOK, LeaseMatchesStatus, CallsAreClaimed,
       ActiveIsHealthy, InFlight
<1>5. ASSUME NEW w \in Workers, Crash(w) PROVE DispatchInv'
  <2>1. /\ at' = [a \in Attempts |-> IF by[a] = w THEN "none" ELSE at[a]]
        /\ by' = [a \in Attempts |-> IF by[a] = w THEN None ELSE by[a]]
        /\ waits' = [waits EXCEPT ![w] = {}] /\ up' = up \ {w}
        /\ UNCHANGED <<status, owner, lease, due, attempts, endpoint, failures, answered, losses, blamed>>
    BY <1>5 DEF Crash, delivery
  <2>2. TypeOK'
    BY <2>1 DEF TypeOK, Phase
  <2>3. ASSUME NEW v \in Workers, NEW a \in waits'[v] PROVE by'[a] = v
    BY <2>1, <2>3 DEF TypeOK, CallsAreClaimed
  <2>4. CallsAreClaimed'
    BY <2>1, <2>3 DEF CallsAreClaimed, InFlight, TypeOK
  <2> QED BY <2>1, <2>2, <2>4 DEF LeaseMatchesStatus, ActiveIsHealthy
<1>6. ASSUME UNCHANGED vars PROVE DispatchInv'
  BY <1>6 DEF vars, TypeOK, LeaseMatchesStatus, CallsAreClaimed, ActiveIsHealthy, InFlight
<1> QED BY <1>1, <1>2, <1>3, <1>4, <1>5, <1>6

-----------------------------------------------------------------------------

\* The rows of deliveries and endpoints and the calls in progress agree, for every set
\* of deliveries, endpoints and workers, every limit and all faults.
THEOREM DispatchCorrect == Spec => []DispatchInv
<1>1. Init => DispatchInv
  BY WebhookAssumption DEF Init, DispatchInv, TypeOK, LeaseMatchesStatus, CallsAreClaimed,
     ActiveIsHealthy, InFlight, Phase
<1>2. DispatchInv /\ [Next]_vars => DispatchInv'
  BY DispatchKeeps, CallKeeps, OthersKeep DEF Next
<1> QED BY <1>1, <1>2, PTL DEF Spec

\* An endpoint that is posted to is below the threshold of failures.
THEOREM ActiveCorrect == Spec => []ActiveIsHealthy
BY DispatchCorrect, PTL DEF DispatchInv

\* A delivery has an owner and a lease exactly while it is PROCESSING.
THEOREM RowsCorrect == Spec => []LeaseMatchesStatus
BY DispatchCorrect, PTL DEF DispatchInv

-----------------------------------------------------------------------------
(* Evidence: what is counted against an endpoint that no lost success is     *)
(* blamed on are failures of its own.                                       *)

Evidence ==
  /\ \A a \in Attempts : at[a] = "unstored" => EndpointOf[a[1]] \in blamed
  /\ \A e \in Endpoints \ blamed : failures[e] <= losses[e]

DisablesOnEvidence ==
  \A e \in Endpoints :
    endpoint[e] = "ACTIVE" /\ endpoint'[e] = "DISABLED" /\ e \notin blamed => losses'[e] >= DisableAfter

LEMMA CallEvidence ==
  ASSUME DispatchInv, Evidence, NEW a \in Attempts, Call(a)
  PROVE  Evidence' /\ DisablesOnEvidence
<1>0. /\ TypeOK /\ EndpointOf[a[1]] \in Endpoints /\ DisableAfter \in Nat
      /\ \A e \in Endpoints : failures[e] \in Nat /\ losses[e] \in Nat
  BY AttemptParts, WebhookAssumption DEF DispatchInv, TypeOK
<1>1. blamed \subseteq blamed'
  BY DEF Call, Answer, RecordSuccess, RecordFailure
<1>2. \A b \in Attempts : at'[b] = "unstored" => EndpointOf[b[1]] \in blamed'
  <2>1. ASSUME NEW b \in Attempts, at'[b] = "unstored"
        PROVE  at[b] = "unstored" \/ (b = a /\ blamed' = blamed \union {EndpointOf[a[1]]})
    BY <1>0, <2>1 DEF Call, Answer, RecordSuccess, RecordFailure, Move, Resolve, Reject, End, TypeOK
  <2> QED BY <1>1, <2>1 DEF Evidence
<1>3. CASE UNCHANGED <<endpoint, failures, losses>>
  BY <1>1, <1>2, <1>3 DEF Evidence, DisablesOnEvidence
<1>4. CASE NoteSuccess(EndpointOf[a[1]])
  BY <1>0, <1>1, <1>2, <1>4 DEF NoteSuccess, Evidence, DisablesOnEvidence, TypeOK
<1>5. CASE RecordFailure(a) /\ NoteFailure(EndpointOf[a[1]], at[a] # "unstored")
  <2> DEFINE e == EndpointOf[a[1]]
  <2>1. /\ failures' = [failures EXCEPT ![e] = @ + 1]
        /\ losses' = [losses EXCEPT ![e] = IF at[a] # "unstored" THEN @ + 1 ELSE @]
        /\ endpoint' = [endpoint EXCEPT ![e] = IF failures[e] + 1 >= DisableAfter THEN "DISABLED" ELSE @]
        /\ blamed' = blamed
    BY <1>5 DEF NoteFailure, RecordFailure
  <2>2. e \notin blamed => at[a] # "unstored" /\ failures[e] <= losses[e]
    BY <1>0 DEF Evidence
  <2> HIDE DEF e
  <2>3. \A f \in Endpoints \ blamed : failures'[f] <= losses'[f]
    BY <1>0, <2>1, <2>2 DEF Evidence, TypeOK
  <2>4. DisablesOnEvidence
    BY <1>0, <2>1, <2>2 DEF DisablesOnEvidence, TypeOK
  <2> QED BY <1>2, <2>1, <2>3, <2>4 DEF Evidence
<1> QED BY <1>3, <1>4, <1>5 DEF Call, Answer, RecordSuccess, RecordFailure, WriteSuccess, WriteFailure

LEMMA StepEvidence ==
  ASSUME DispatchInv, Evidence, [Next]_vars
  PROVE  Evidence' /\ DisablesOnEvidence
<1>1. ASSUME NEW w \in Workers, Dispatch(w) PROVE Evidence' /\ DisablesOnEvidence
  <2>1. \A a \in Attempts : at'[a] = "unstored" => at[a] = "unstored"
    BY <1>1 DEF Dispatch, Begin, calls
  <2> QED BY <1>1, <2>1 DEF Dispatch, Evidence, DisablesOnEvidence
<1>2. ASSUME NEW w \in Workers, Crash(w) PROVE Evidence' /\ DisablesOnEvidence
  BY <1>2 DEF Crash, Evidence, DisablesOnEvidence
<1>3. ASSUME NEW e \in Endpoints, Update(e) PROVE Evidence' /\ DisablesOnEvidence
  BY <1>3 DEF Update, SetStatus, calls, Evidence, DisablesOnEvidence, DispatchInv, TypeOK
<1>4. ASSUME NEW d \in Deliveries, Create(d) \/ BecomeDue(d) \/ LeaseExpires(d)
      PROVE  Evidence' /\ DisablesOnEvidence
  BY <1>4 DEF Create, BecomeDue, LeaseExpires, calls, Evidence, DisablesOnEvidence
<1>5. CASE UNCHANGED vars
  BY <1>5 DEF vars, Evidence, DisablesOnEvidence
<1> QED BY <1>1, <1>2, <1>3, <1>4, <1>5, CallEvidence DEF Next

\* An endpoint is disabled for failures of its own only, or a success of it was lost.
THEOREM DisabledCorrect == Spec => DisabledOnEvidence
<1>1. Init => Evidence
  BY DEF Init, Evidence
<1>2. DispatchInv /\ Evidence /\ [Next]_vars => Evidence' /\ DisablesOnEvidence
  BY StepEvidence
<1> QED BY <1>1, <1>2, DispatchCorrect, PTL DEF Spec, DisabledOnEvidence, DisablesOnEvidence

-----------------------------------------------------------------------------
(* Who holds a lease. The running flag keeps the calls of one claim apart   *)
(* from those of the worker's next.                                         *)

Attended ==
  \A w \in Workers : \A a \in waits[w] : owner[a[1]] = w => a[2] = attempts[a[1]]

HolderRecords ==
  \A w \in Workers : \A a \in waits[w] :
    at'[a] = "none" /\ owner[a[1]] # None /\ owner'[a[1]] = None => a[2] = attempts[a[1]]

LEMMA DispatchAttended ==
  ASSUME DispatchInv, Attended, NEW w \in Workers, Dispatch(w)
  PROVE  Attended' /\ HolderRecords
<1>1. waits[w] = {} /\ ClaimRows(w) /\ TypeOK
  BY DEF Dispatch, Free, DispatchInv
<1>2. \A a \in waits'[w] : a[2] = attempts'[a[1]]
  <2>1. ASSUME NEW sealed \in SUBSET Claimed, Begin(w, sealed)
        PROVE  \A a \in waits'[w] : a[2] = attempts'[a[1]]
    BY <1>1, <2>1 DEF Begin, TypeOK
  <2>2. CASE UNCHANGED calls
    BY <1>1, <2>2 DEF calls
  <2> QED BY <2>1, <2>2 DEF Dispatch
<1>3. \A v \in Workers \ {w} : waits'[v] = waits[v]
  BY <1>1 DEF Dispatch, Begin, calls, TypeOK
<1>4. ASSUME NEW v \in Workers \ {w}, NEW a \in waits[v], owner'[a[1]] = v
      PROVE  a[2] = attempts'[a[1]]
  <2>1. a \in Attempts /\ a[1] \in Deliveries
    BY <1>1, AttemptParts DEF TypeOK
  <2> QED BY <1>1, <1>4, <2>1 DEF ClaimRows, Attended
<1>5. ASSUME NEW v \in Workers, NEW a \in waits[v] PROVE owner[a[1]] # None => owner'[a[1]] # None
  <2>1. a[1] \in Deliveries
    BY <1>1, AttemptParts DEF TypeOK
  <2> QED BY <1>1, <2>1, WebhookAssumption DEF ClaimRows
<1> QED BY <1>2, <1>3, <1>4, <1>5 DEF Attended, HolderRecords

LEMMA CallAttended ==
  ASSUME DispatchInv, Attended, NEW a \in Attempts, Call(a)
  PROVE  Attended' /\ HolderRecords
<1>0. InFlight(a) /\ TypeOK /\ CallsAreClaimed /\ a[1] \in Deliveries /\ by[a] \in Workers
  BY AttemptParts DEF Call, Answer, RecordSuccess, RecordFailure, InFlight, DispatchInv, CallsAreClaimed, TypeOK
<1>1. /\ attempts' = attempts
      /\ \/ owner' = owner
         \/ owner' = [owner EXCEPT ![a[1]] = None] /\ Holds(a)
  BY DEF Call, Answer, RecordSuccess, RecordFailure, WriteSuccess, WriteFailure, Release, delivery
<1>2. Resolve(a) \/ Reject(a) \/ \E p \in Phase \ {"none"} : Move(a, p)
  BY DEF Call, Answer, RecordSuccess, RecordFailure, Phase
<1>3. \A w \in Workers : waits'[w] \subseteq waits[w]
  BY <1>0, <1>2 DEF Resolve, Reject, Move, TypeOK
<1>4. \A w \in Workers : \A b \in waits[w] :
        b \in Attempts /\ b[1] \in Deliveries /\ by[b] = w /\ w # None /\ at[b] # "none"
  BY <1>0, AttemptParts, WebhookAssumption DEF CallsAreClaimed, TypeOK
<1>5. \A b \in Attempts : at[b] # "none" /\ at'[b] = "none" => b = a
  BY <1>0, <1>2 DEF Resolve, Reject, Move, End, TypeOK
<1>6. Attended'
  BY <1>0, <1>1, <1>3, <1>4 DEF Attended, TypeOK
<1>7. HolderRecords
  BY <1>0, <1>1, <1>4, <1>5 DEF HolderRecords, Attended, Holds, TypeOK
<1> QED BY <1>6, <1>7

LEMMA OthersAttended ==
  ASSUME DispatchInv, Attended
  PROVE  /\ \A d \in Deliveries : Create(d) \/ BecomeDue(d) \/ LeaseExpires(d) => Attended' /\ HolderRecords
         /\ \A e \in Endpoints : Update(e) => Attended' /\ HolderRecords
         /\ \A w \in Workers : Crash(w) => Attended' /\ HolderRecords
         /\ UNCHANGED vars => Attended' /\ HolderRecords
<1>1. ASSUME NEW d \in Deliveries, Create(d) \/ BecomeDue(d) \/ LeaseExpires(d)
      PROVE  Attended' /\ HolderRecords
  BY <1>1 DEF Create, BecomeDue, LeaseExpires, calls, Attended, HolderRecords
<1>2. ASSUME NEW e \in Endpoints, Update(e) PROVE Attended' /\ HolderRecords
  BY <1>2 DEF Update, calls, delivery, Attended, HolderRecords
<1>3. ASSUME NEW w \in Workers, Crash(w) PROVE Attended' /\ HolderRecords
  BY <1>3 DEF Crash, delivery, Attended, HolderRecords, DispatchInv, TypeOK
<1>4. ASSUME UNCHANGED vars PROVE Attended' /\ HolderRecords
  BY <1>4 DEF vars, Attended, HolderRecords
<1> QED BY <1>1, <1>2, <1>3, <1>4

\* A call that its iteration waits for records while its own attempt holds the lease,
\* however slow the posts are and whatever fails.
THEOREM ResultsCorrect == Spec => ResultsByHolder
<1>1. Init => Attended
  BY DEF Init, Attended
<1>2. DispatchInv /\ Attended /\ [Next]_vars => Attended' /\ HolderRecords
  BY DispatchAttended, CallAttended, OthersAttended DEF Next
<1> QED BY <1>1, <1>2, DispatchCorrect, PTL DEF Spec, ResultsByHolder, HolderRecords

-----------------------------------------------------------------------------
(* The contract.                                                            *)

contract == <<Outcome, attempts, answered>>

LEMMA OutcomeOf ==
  ASSUME NEW d \in Deliveries
  PROVE  /\ Outcome[d] = "open" <=> status[d] \in {"PENDING", "PROCESSING"}
         /\ status[d] = "none" => Outcome[d] = "none"
BY DEF Outcome

\* One row changes at a time, but for a claim, which leaves outcomes alone.
LEMMA OutcomeMoves ==
  ASSUME TypeOK, NEW d \in Deliveries,
         NEW s \in {"PENDING", "SUCCEEDED", "FAILED"}, status' = [status EXCEPT ![d] = s]
  PROVE  Outcome' = [Outcome EXCEPT ![d] = IF s = "PENDING" THEN "open"
                                           ELSE IF s = "SUCCEEDED" THEN "delivered" ELSE "exhausted"]
BY DEF Outcome, TypeOK

LEMMA DispatchRefines ==
  ASSUME DispatchInv, NEW w \in Workers, Dispatch(w)
  PROVE  Contract!Next
<1>1. Outcome' = Outcome
  <2>1. ASSUME NEW d \in Deliveries
        PROVE  \/ status'[d] = status[d]
               \/ status[d] \in {"PENDING", "PROCESSING"} /\ status'[d] = "PROCESSING"
    BY DEF Dispatch, ClaimRows, Claimed, Claimable, DispatchInv, TypeOK
  <2> QED BY <2>1 DEF Outcome
<1>2. \A d \in Claimed : Outcome[d] = "open" /\ d \in Deliveries
  BY OutcomeOf DEF Claimed, Claimable
<1>3. Contract!Try(Claimed)
  BY <1>1, <1>2 DEF Contract!Try, Dispatch, ClaimRows
<1> QED BY <1>3 DEF Contract!Next, Claimed

LEMMA CallRefines ==
  ASSUME DispatchInv, NEW a \in Attempts, Call(a)
  PROVE  Contract!Next \/ UNCHANGED contract
<1>0. /\ TypeOK /\ CallsAreClaimed /\ LeaseMatchesStatus /\ InFlight(a)
      /\ a[1] \in Deliveries /\ a[2] \in Nat /\ a[2] >= 1 /\ attempts[a[1]] \in Nat
  BY AttemptParts DEF Call, Answer, RecordSuccess, RecordFailure, InFlight, DispatchInv, TypeOK
<1>1. a[2] <= attempts[a[1]] /\ by[a] # None
  BY <1>0 DEF CallsAreClaimed, InFlight
<1>2. Holds(a) => Outcome[a[1]] = "open"
  BY <1>0, <1>1, OutcomeOf DEF Holds, LeaseMatchesStatus
<1>3. CASE Answer(a)
  <2>1. UNCHANGED <<status, attempts>> /\ Outcome' = Outcome
    BY <1>3 DEF Answer, delivery, Outcome
  <2>2. CASE answered' = answered
    BY <2>1, <2>2 DEF contract
  <2>3. CASE answered' = answered \union {a[1]}
    BY <1>0, <1>1, <2>1, <2>3 DEF Contract!Answer, Contract!Next
  <2> QED BY <1>3, <2>2, <2>3 DEF Answer
<1>4. CASE answered' = answered /\ UNCHANGED delivery
  BY <1>4 DEF delivery, contract, Outcome
<1>5. CASE RecordSuccess(a) /\ WriteSuccess(a) /\ Holds(a)
  <2>1. /\ status' = [status EXCEPT ![a[1]] = "SUCCEEDED"]
        /\ attempts' = attempts /\ answered' = answered /\ a[1] \in answered
    BY <1>0, <1>5 DEF RecordSuccess, WriteSuccess, Release, CallsAreClaimed
  <2>2. Outcome' = [Outcome EXCEPT ![a[1]] = "delivered"]
    BY <1>0, <2>1, OutcomeMoves
  <2> QED BY <1>0, <1>2, <1>5, <2>1, <2>2 DEF Contract!Deliver, Contract!Next
<1>6. CASE RecordFailure(a) /\ WriteFailure(a) /\ Holds(a)
  <2>1. /\ status' = [status EXCEPT ![a[1]] = IF Exhausted(a) THEN "FAILED" ELSE "PENDING"]
        /\ attempts' = attempts /\ answered' = answered
    BY <1>6 DEF RecordFailure, WriteFailure, Release
  <2>2. CASE Exhausted(a)
    <3>1. Outcome' = [Outcome EXCEPT ![a[1]] = "exhausted"]
      BY <1>0, <2>1, <2>2, OutcomeMoves
    <3>2. attempts[a[1]] >= MaxAttempts
      BY <1>0, <1>1, <2>2, WebhookAssumption DEF Exhausted
    <3> QED BY <1>0, <1>2, <1>6, <2>1, <3>1, <3>2 DEF Contract!GiveUp, Contract!Next
  <2>3. CASE ~Exhausted(a)
    <3>1. Outcome' = [Outcome EXCEPT ![a[1]] = "open"]
      BY <1>0, <2>1, <2>3, OutcomeMoves
    <3>2. Outcome' = Outcome
      BY <1>0, <1>2, <1>6, <3>1 DEF Outcome
    <3> QED BY <2>1, <3>2 DEF contract
  <2> QED BY <2>2, <2>3
<1> QED BY <1>3, <1>4, <1>5, <1>6 DEF Call, RecordSuccess, RecordFailure, WriteSuccess, WriteFailure

\* The dispatchers keep WebhookContract: what they report as delivered was answered, what
\* they give up was tried MaxAttempts times, and neither is taken back, through crashes,
\* expired leases, database errors and calls nobody waits for.
THEOREM ContractKept == Spec => ImplementsContract
<1>1. Init => Contract!Init
  BY DEF Init, Contract!Init, Outcome
<1>2. DispatchInv /\ [Next]_vars => [Contract!Next]_contract
  <2> SUFFICES ASSUME DispatchInv, [Next]_vars PROVE [Contract!Next]_contract
    OBVIOUS
  <2>1. ASSUME NEW d \in Deliveries, Create(d) PROVE Contract!Next
    <3>1. TypeOK /\ status[d] = "none" /\ Outcome[d] = "none"
      BY <2>1, OutcomeOf DEF Create, DispatchInv
    <3>2. Outcome' = [Outcome EXCEPT ![d] = "open"]
      BY <2>1, <3>1, OutcomeMoves DEF Create
    <3> QED BY <2>1, <3>1, <3>2 DEF Create, Contract!Offer, Contract!Next
  <2>2. ASSUME NEW d \in Deliveries, BecomeDue(d) \/ LeaseExpires(d) PROVE UNCHANGED contract
    BY <2>2 DEF BecomeDue, LeaseExpires, contract, Outcome
  <2>3. ASSUME NEW e \in Endpoints, Update(e) PROVE UNCHANGED contract
    BY <2>3 DEF Update, delivery, contract, Outcome
  <2>4. ASSUME NEW w \in Workers, Crash(w) PROVE UNCHANGED contract
    BY <2>4 DEF Crash, delivery, contract, Outcome
  <2>5. CASE UNCHANGED vars
    BY <2>5 DEF vars, contract, Outcome
  <2> QED BY <2>1, <2>2, <2>3, <2>4, <2>5, DispatchRefines, CallRefines DEF Next
<1> QED BY <1>1, <1>2, DispatchCorrect, PTL DEF Spec, ImplementsContract, Contract!Spec, contract

=============================================================================
