------------------------- MODULE MailDeliveryProofs -------------------------
(***************************************************************************)
(* Proofs about MailDelivery: type correctness, what holds of the rows        *)
(* whatever the number of handlers per worker, what holds of the deliveries   *)
(* when every worker id names one handler, and the refinement of             *)
(* MessageLifecycle.                                                         *)
(***************************************************************************)
EXTENDS MailDelivery, TLAPS

LEMMA Moved ==
  ASSUME NEW r \in CopyType, NEW p \in Place
  PROVE  /\ [r EXCEPT !.at = p] \in CopyType
         /\ [r EXCEPT !.at = p].at = p
         /\ [r EXCEPT !.at = p].msg = r.msg
         /\ [r EXCEPT !.at = p].attempt = r.attempt
BY DEF CopyType

LEMMA NoCopyType == NoCopy \in CopyType /\ NoCopy.at = "free"
BY ConstantsAssumption DEF NoCopy, CopyType, Place

LEMMA ReturnTypes ==
  ASSUME TypeOK, NEW x \in Handlers, pc[x] # "idle", Ack(x) \/ Nack(x)
  PROVE  BrokerType' /\ HandlerType' /\ ReconcilerType'
<1> USE ConstantsAssumption, NoCopyType DEF TypeOK, BrokerType, HandlerType, ReconcilerType
<1>0. \A c \in Copies : /\ [broker[c] EXCEPT !.at = "main"] \in CopyType
                        /\ [broker[c] EXCEPT !.at = "main"].at = "main"
                        /\ [broker[c] EXCEPT !.at = "main"].msg = broker[c].msg
  BY Moved DEF Place
<1>1. CASE held[x] # None /\ Finish(x)
  <2>1. broker' = [broker EXCEPT ![held[x]] = NoCopy] \/ broker' = [broker EXCEPT ![held[x]].at = "main"]
    BY <1>1 DEF Ack, Nack
  <2>2. held[x] \in Copies
    BY <1>1
  <2>3. BrokerType'
    <3>1. CASE broker' = [broker EXCEPT ![held[x]] = NoCopy]
      BY <3>1, <2>2
    <3>2. CASE broker' = [broker EXCEPT ![held[x]].at = "main"]
      BY <3>2, <2>2, <1>0
    <3> QED BY <3>1, <3>2, <2>1
  <2>4. HandlerType'
    BY <2>1, <2>2, <1>1 DEF NoCopy, NoWork, Finish, HandlerPc, Errors
  <2> QED BY <2>3, <2>4, <1>1 DEF Finish, recon
<1>2. CASE held[x] = None /\ Exit(HostOf[x])
  <2>1. BrokerType'
    BY <1>2, <1>0 DEF Exit, Requeue, HandlersOf
  <2>2. HandlerType'
    BY <1>2 DEF Exit, Requeue, HandlersOf, NoWork, HandlerPc, Errors
  <2>3. ReconcilerType'
    BY <1>2 DEF Exit, TickPc
  <2> QED BY <2>1, <2>2, <2>3
<1> QED BY <1>1, <1>2 DEF Ack, Nack

\* A publish fills a free copy and disturbs no other.
LEMMA PutTypes ==
  ASSUME TypeOK, NEW c \in Copies, NEW p \in Place, NEW m \in Msgs,
         NEW a \in 0..MaxRetries, Put(c, p, m, a)
  PROVE  /\ BrokerType'
         /\ \A d \in Copies : broker[d].at = "held" => broker'[d] = broker[d]
<1>1. [at |-> p, msg |-> m, attempt |-> a] \in CopyType
  BY DEF CopyType
<1> QED BY <1>1 DEF TypeOK, BrokerType, Put

LEMMA StepTypes ==
  ASSUME TypeOK, NEW x \in Handlers, pc[x] # "idle", NEW p \in HandlerPc,
         p = "retry" => Attempt(x) < MaxRetries,
         Step(x, p), err' = err \/ \E e \in Errors : err' = [err EXCEPT ![x] = e],
         \A d \in Copies : broker[d].at = "held" => broker'[d] = broker[d]
  PROVE  HandlerType' /\ ReconcilerType'
BY DEF TypeOK, HandlerType, ReconcilerType, Step, recon, Attempt

LEMMA GotoTypes ==
  ASSUME TypeOK, NEW x \in Handlers, pc[x] # "idle",
         \/ \E p \in HandlerPc : Goto(x, p) /\ (p = "retry" => Attempt(x) < MaxRetries)
         \/ \E e \in Errors : Throw(x, e)
  PROVE  BrokerType' /\ HandlerType' /\ ReconcilerType'
<1>1. BrokerType'
  BY DEF Goto, Throw, TypeOK, BrokerType
<1>2. CASE \E p \in HandlerPc : Goto(x, p) /\ (p = "retry" => Attempt(x) < MaxRetries)
  BY <1>1, <1>2, StepTypes DEF Goto
<1>3. CASE \E e \in Errors : Throw(x, e)
  <2>1. "failed" \in HandlerPc
    BY DEF HandlerPc, Working
  <2> QED BY <2>1, <1>1, <1>3, StepTypes DEF Throw
<1> QED BY <1>2, <1>3

\* The guarded updates of a row.
LEMMA LeaveTypes ==
  ASSUME RowType, NEW m \in Msgs, NEW s \in Status, Leave(m, s)
  PROVE  /\ status' \in [Msgs -> Status \union {"none"}]
         /\ owner' \in [Msgs -> Workers \union {None}]
         /\ lease' \in [Msgs -> {"none", "live", "expired"}]
         /\ started' \in [Msgs -> BOOLEAN]
BY DEF RowType, Leave

LEMMA StoreTypes ==
  ASSUME TypeOK, NEW x \in Handlers, pc[x] # "idle", NEW s \in Status, Store(x, s),
         UNCHANGED <<dlq, api, accepted>>
  PROVE  TypeOK'
<1>1. Msg(x) \in Msgs
  BY DEF TypeOK, HandlerType, Msg
<1>2. RowType'
  <2>1. Leave(Msg(x), s) \/ UNCHANGED row
    BY DEF Store
  <2> QED BY <1>1, <2>1, LeaveTypes DEF TypeOK, RowType, row
<1>3. Goto(x, "ack") \/ Nack(x)
  BY DEF Store
<1>4. "ack" \in HandlerPc
  BY DEF HandlerPc
<1> QED BY <1>2, <1>3, <1>4, GotoTypes, ReturnTypes DEF TypeOK

LEMMA HandlerStepTypes ==
  ASSUME TypeOK, NEW x \in Handlers, Handle(x)
  PROVE  TypeOK'
<1> USE ConstantsAssumption
<1>1. /\ {"load", "malformed", "claim", "prepare", "start", "smtp", "sent", "failed",
          "retry", "retrying", "bury", "buried", "ack"} \subseteq HandlerPc
      /\ {"retryable", "permanent", "other"} \subseteq Errors
      /\ {"SENT", "RETRYING", "FAILED", "DEAD", "PROCESSING"} \subseteq Status
  BY DEF HandlerPc, Working, Errors, Status, Claimable, Terminal
<1>2. pc[x] # "idle" => Msg(x) \in Msgs /\ Attempt(x) \in 0..MaxRetries
  BY DEF TypeOK, HandlerType, Msg, Attempt
<1>3. HostOf[x] \in Workers
  OBVIOUS
<1>4. CASE Load(x)
  <2>1. RowType'
    BY <1>4 DEF Load, TypeOK, RowType, row
  <2> QED BY <1>4, <1>1, <2>1, GotoTypes, ReturnTypes DEF Load, TypeOK
<1>5. CASE DeadLetterMalformed(x)
  <2>1. RowType'
    BY <1>5, <1>2 DEF DeadLetterMalformed, TypeOK, RowType, row
  <2> QED BY <1>5, <2>1, ReturnTypes DEF DeadLetterMalformed, TypeOK
<1>6. CASE Claim(x)
  <2>1. UNCHANGED row \/ ClaimFor(Msg(x), HostOf[x])
    BY <1>6 DEF Claim
  <2>2. RowType'
    <3>1. UNCHANGED <<dlq, api, accepted>>
      BY <1>6 DEF Claim
    <3>2. CASE UNCHANGED row
      BY <3>1, <3>2 DEF TypeOK, RowType, row
    <3>3. CASE ClaimFor(Msg(x), HostOf[x])
      BY <3>1, <3>3, <1>1, <1>3 DEF ClaimFor, TypeOK, RowType
    <3> QED BY <2>1, <3>2, <3>3
  <2>3. Goto(x, "prepare") \/ Ack(x) \/ Nack(x)
    BY <1>6 DEF Claim
  <2> QED BY <1>6, <1>1, <2>2, <2>3, GotoTypes, ReturnTypes DEF Claim, TypeOK
<1>7. CASE Prepare(x)
  <2>1. RowType'
    BY <1>7 DEF Prepare, TypeOK, RowType, row
  <2>2. \/ Goto(x, "start")
        \/ \E e \in Errors : Throw(x, e)
    BY <1>7, <1>1 DEF Prepare
  <2> QED BY <1>7, <1>1, <2>1, <2>2, GotoTypes DEF Prepare, TypeOK
<1>8. CASE Start(x)
  <2>1. started' = started \/ started' = [started EXCEPT ![Msg(x)] = TRUE]
    BY <1>8 DEF Start
  <2>2. RowType'
    BY <1>8, <2>1 DEF Start, TypeOK, RowType
  <2>3. Goto(x, "smtp") \/ \E e \in Errors : Throw(x, e)
    BY <1>8, <1>1 DEF Start
  <2> QED BY <1>8, <1>1, <2>2, <2>3, GotoTypes DEF Start, TypeOK
<1>9. CASE SmtpAccepted(x)
  <2>1. RowType'
    BY <1>9, <1>2 DEF SmtpAccepted, TypeOK, RowType, row
  <2> QED BY <1>9, <1>1, <2>1, GotoTypes DEF SmtpAccepted, TypeOK
<1>10. CASE SmtpFailed(x)
  <2>1. RowType'
    BY <1>10 DEF SmtpFailed, TypeOK, RowType, row
  <2>2. \E e \in Errors : Throw(x, e)
    BY <1>10, <1>1 DEF SmtpFailed
  <2> QED BY <1>10, <2>1, <2>2, GotoTypes DEF SmtpFailed, TypeOK
<1>11. CASE StoreSent(x)
  BY <1>11, <1>1, StoreTypes DEF StoreSent
<1>12. CASE MarkFailed(x)
  <2>1. started' = started \/ started' = [started EXCEPT ![Msg(x)] = FALSE]
    BY <1>12 DEF MarkFailed
  <2>2. RowType'
    BY <1>12, <2>1 DEF MarkFailed, TypeOK, RowType
  <2>3. \/ Goto(x, "retry") /\ Attempt(x) < MaxRetries
        \/ Goto(x, "bury")
        \/ Nack(x)
    BY <1>12 DEF MarkFailed, WillRetry
  <2> QED BY <1>12, <1>1, <2>2, <2>3, GotoTypes, ReturnTypes DEF MarkFailed, TypeOK
<1>13. CASE StoreRetrying(x)
  BY <1>13, <1>1, StoreTypes DEF StoreRetrying
<1>14. CASE PublishDeadLetter(x)
  <2>1. RowType'
    BY <1>14, <1>2 DEF PublishDeadLetter, TypeOK, RowType, row
  <2>2. Goto(x, "buried") \/ Nack(x)
    BY <1>14 DEF PublishDeadLetter
  <2> QED BY <1>14, <1>1, <2>1, <2>2, GotoTypes, ReturnTypes DEF PublishDeadLetter, TypeOK
<1>15. CASE StoreDead(x)
  <2>1. CASE err[x] = "permanent"
    BY <1>15, <2>1, <1>1, StoreTypes DEF StoreDead
  <2>2. CASE err[x] # "permanent"
    BY <1>15, <2>2, <1>1, StoreTypes DEF StoreDead
  <2> QED BY <2>1, <2>2
<1>16. CASE AckDone(x)
  <2>1. RowType'
    BY <1>16 DEF AckDone, TypeOK, RowType, row
  <2> QED BY <1>16, <2>1, ReturnTypes DEF AckDone, TypeOK
<1>17. CASE PublishRetry(x)
  <2>1. RowType'
    BY <1>17 DEF PublishRetry, TypeOK, RowType, row
  <2>2. Attempt(x) + 1 \in 0..MaxRetries
    BY <1>17, <1>2 DEF PublishRetry, TypeOK, HandlerType, Attempt
  <2>3. PICK c \in Copies : Put(c, "retry", Msg(x), Attempt(x) + 1)
    BY <1>17 DEF PublishRetry
  <2>4. BrokerType' /\ \A d \in Copies : broker[d].at = "held" => broker'[d] = broker[d]
    BY <1>17, <1>2, <2>2, <2>3, PutTypes DEF PublishRetry, Place
  <2>5. HandlerType' /\ ReconcilerType'
    BY <1>17, <1>1, <2>4, StepTypes DEF PublishRetry
  <2> QED BY <2>1, <2>4, <2>5 DEF TypeOK
<1>18. CASE PublishRetryFailed(x)
  <2>1. RowType'
    BY <1>18 DEF PublishRetryFailed, TypeOK, RowType, row
  <2>2. CASE Nack(x)
    BY <1>18, <2>1, <2>2, ReturnTypes DEF PublishRetryFailed, TypeOK
  <2>3. CASE ~Nack(x)
    <3> DEFINE r == [at |-> "retry", msg |-> Msg(x), attempt |-> Attempt(x) + 1]
               n(d) == [broker[d] EXCEPT !.at = "main"]
    <3>1. held[x] \in Copies /\ Finish(x)
      BY <1>18, <2>3 DEF PublishRetryFailed, TypeOK, HandlerType
    <3>2. PICK c \in Copies : /\ broker[c].at = "free"
                             /\ broker' = [broker EXCEPT ![c] = r, ![held[x]].at = "main"]
      BY <1>18, <2>3 DEF PublishRetryFailed
    <3>3. r \in CopyType /\ r.msg \in Msgs /\ r.at = "retry"
      BY <1>18, <1>2 DEF PublishRetryFailed, TypeOK, HandlerType, Attempt, CopyType, Place
    <3>4. c # held[x]
      BY <1>18, <3>1, <3>2 DEF TypeOK, HandlerType
    <3>5. broker' = [d \in Copies |-> IF d = c THEN r ELSE IF d = held[x] THEN n(d) ELSE broker[d]]
      BY <3>1, <3>2, <3>4 DEF TypeOK, BrokerType
    <3>6. \A d \in Copies : n(d) \in CopyType /\ n(d).at = "main" /\ n(d).msg = broker[d].msg
      BY Moved DEF TypeOK, BrokerType, Place
    <3> HIDE DEF r, n
    <3>7. broker[held[x]].msg \in Msgs
      BY <3>1 DEF TypeOK, BrokerType, HandlerType
    <3>8. BrokerType'
      BY <3>1, <3>3, <3>5, <3>6, <3>7 DEF TypeOK, BrokerType
    <3>9. HandlerType'
      BY <3>1, <3>2, <3>5, <1>1 DEF TypeOK, HandlerType, Finish, NoWork, HandlerPc, Errors
    <3> QED BY <2>1, <3>1, <3>8, <3>9 DEF TypeOK, ReconcilerType, Finish, recon
  <2> QED BY <2>2, <2>3
<1> QED BY <1>17, <1>18, <1>4, <1>5, <1>6, <1>7, <1>8, <1>9, <1>10, <1>11, <1>12, <1>13, <1>14,
           <1>15, <1>16 DEF Handle

LEMMA TickStepTypes ==
  ASSUME TypeOK, NEW t \in Ticks, Reconcile(t)
  PROVE  TypeOK'
<1> USE ConstantsAssumption
<1>1. {"PENDING", "QUEUED", "ENQUEUE_PENDING", "DELIVERY_UNCERTAIN"} \subseteq Status
  BY DEF Status, Claimable, Terminal
<1>2. ASSUME NEW S, NEW s \in Status, SetStatus(S, s), UNCHANGED <<dlq, api, accepted>>
      PROVE  RowType'
  BY <1>2 DEF SetStatus, TypeOK, RowType
<1>3. ASSUME NEW m \in Msgs, MarkQueued(m), UNCHANGED <<dlq, api, accepted>>
      PROVE  RowType'
  BY <1>1, <1>2, <1>3 DEF MarkQueued
<1>4. ASSUME NEW p \in TickPc, NEW S \in SUBSET Msgs, NEW m \in Msgs \union {None},
             Advance(t, p, S, m), p \in {"mark", "unclaim"} => m \in Msgs, UNCHANGED up
      PROVE  ReconcilerType'
  BY <1>4 DEF Advance, TypeOK, ReconcilerType
<1>5. ASSUME UNCHANGED <<broker, hand>>
      PROVE  BrokerType' /\ HandlerType'
  BY <1>5 DEF TypeOK, BrokerType, HandlerType, hand
<1>6. ASSUME UNCHANGED hand, NEW c \in Copies, NEW m \in Msgs, Put(c, "main", m, 0)
      PROVE  BrokerType' /\ HandlerType'
  <2>1. BrokerType' /\ \A d \in Copies : broker[d].at = "held" => broker'[d] = broker[d]
    BY <1>6, PutTypes DEF Place
  <2> QED BY <1>6, <2>1 DEF TypeOK, HandlerType, hand
<1>7. ASSUME UNCHANGED <<row, dlq, api, accepted>>
      PROVE  RowType'
  BY <1>7 DEF TypeOK, RowType, row
<1>8. /\ {"idle", "release", "claim", "publish", "mark", "unclaim"} \subseteq TickPc
      /\ todo[t] \in SUBSET Msgs
      /\ tick[t] \in {"mark", "unclaim"} => cur[t] \in Msgs
  BY DEF TypeOK, ReconcilerType, TickPc
<1>9. CASE TickThrows(t)
  BY <1>9, <1>4, <1>5, <1>7, <1>8 DEF TickThrows, TypeOK
<1>10. CASE Recover(t)
  <2>1. RowType'
    BY <1>10, <1>1 DEF Recover, RecoveredStatus, TypeOK, RowType
  <2> QED BY <1>10, <2>1, <1>4, <1>5, <1>8 DEF Recover, TypeOK
<1>11. CASE ReleaseStale(t)
  BY <1>11, <1>1, <1>2, <1>4, <1>5, <1>8 DEF ReleaseStale, TypeOK
<1>12. CASE ClaimDue(t)
  <2>1. PICK S \in SUBSET Msgs : /\ SetStatus(S, "PENDING")
                                 /\ Advance(t, IF S = {} THEN "idle" ELSE "publish", S, None)
    BY <1>12 DEF ClaimDue
  <2>2. UNCHANGED <<broker, dlq, hand, api, up, accepted>>
    BY <1>12 DEF ClaimDue
  <2>3. RowType'
    BY <2>1, <2>2, <1>1, <1>2
  <2>4. ReconcilerType'
    BY <2>1, <2>2, <1>4, <1>8
  <2> QED BY <2>2, <2>3, <2>4, <1>5 DEF TypeOK
<1>13. ASSUME NEW m \in Msgs, Republish(t, m) \/ RepublishFailed(t, m)
       PROVE  TypeOK'
  <2>1. UNCHANGED broker \/ \E c \in Copies : Put(c, "main", m, 0)
    BY <1>13 DEF Republish, RepublishFailed, PutUnconfirmed
  <2>2. UNCHANGED <<row, dlq, hand, api, up, accepted>>
    BY <1>13 DEF Republish, RepublishFailed
  <2>3. BrokerType' /\ HandlerType'
    BY <2>1, <2>2, <1>5, <1>6
  <2>4. Advance(t, "mark", todo[t], m) \/ Advance(t, "unclaim", todo[t], m)
    BY <1>13 DEF Republish, RepublishFailed
  <2>5. ReconcilerType'
    BY <2>2, <2>4, <1>4, <1>8
  <2> QED BY <2>2, <2>3, <2>5, <1>7 DEF TypeOK
<1>14. ASSUME NextDue(t), UNCHANGED up
       PROVE  ReconcilerType'
  BY <1>14, <1>4, <1>8 DEF NextDue
<1>15. CASE TickMarkQueued(t)
  <2>1. UNCHANGED <<broker, dlq, hand, api, up, accepted>> /\ cur[t] \in Msgs
    BY <1>15, <1>8 DEF TickMarkQueued
  <2>2. RowType'
    BY <1>15, <2>1, <1>3, <1>7 DEF TickMarkQueued
  <2>3. NextDue(t) \/ Advance(t, "unclaim", todo[t], cur[t])
    BY <1>15 DEF TickMarkQueued
  <2>4. ReconcilerType'
    BY <2>1, <2>3, <1>4, <1>8, <1>14
  <2> QED BY <2>1, <2>2, <2>4, <1>5 DEF TypeOK
<1>16. CASE ReleaseClaim(t)
  BY <1>16, <1>1, <1>2, <1>5, <1>8, <1>14 DEF ReleaseClaim, TypeOK
<1> QED BY <1>9, <1>10, <1>11, <1>12, <1>13, <1>15, <1>16 DEF Reconcile

LEMMA OtherStepTypes ==
  ASSUME TypeOK,
         \/ ApiNext
         \/ \E x \in Handlers, c \in Copies : Deliver(x, c)
         \/ \E m \in Msgs : LeaseExpires(m)
         \/ \E c \in Copies : RetryDue(c)
         \/ \E w \in Workers : Crash(w) \/ Disconnect(w)
  PROVE  TypeOK'
<1> USE ConstantsAssumption
<1>1. ASSUME NEW m \in Msgs, Accept(m) PROVE TypeOK'
  BY <1>1 DEF Accept, TypeOK, RowType, BrokerType, HandlerType, ReconcilerType, hand, recon,
              Status, Claimable
<1>2. ASSUME NEW m \in Msgs, ApiPublish(m) PROVE TypeOK'
  <2>1. RowType' /\ ReconcilerType'
    BY <1>2 DEF ApiPublish, TypeOK, RowType, ReconcilerType, row, recon
  <2>2. UNCHANGED broker \/ \E c \in Copies : Put(c, "main", m, 0)
    BY <1>2 DEF ApiPublish, PutUnconfirmed
  <2>3. BrokerType' /\ \A d \in Copies : broker[d].at = "held" => broker'[d] = broker[d]
    BY <2>2, PutTypes DEF Place, TypeOK, BrokerType
  <2>4. HandlerType'
    BY <1>2, <2>3 DEF ApiPublish, TypeOK, HandlerType, hand
  <2> QED BY <2>1, <2>3, <2>4 DEF TypeOK
<1>3. ASSUME NEW m \in Msgs, ApiMarkQueued(m) PROVE TypeOK'
  <2>1. RowType'
    BY <1>3 DEF ApiMarkQueued, MarkQueued, SetStatus, TypeOK, RowType, row, Status, Claimable
  <2> QED BY <1>3, <2>1 DEF ApiMarkQueued, TypeOK, BrokerType, HandlerType, ReconcilerType,
                            hand, recon
<1>4. ASSUME NEW x \in Handlers, NEW c \in Copies, Deliver(x, c) PROVE TypeOK'
  <2>1. /\ [broker[c] EXCEPT !.at = "held"] \in CopyType
        /\ [broker[c] EXCEPT !.at = "held"].at = "held"
        /\ [broker[c] EXCEPT !.at = "held"].msg = broker[c].msg
        /\ broker[c].msg \in Msgs /\ broker[c].attempt \in 0..MaxRetries
    BY <1>4, Moved DEF Deliver, TypeOK, BrokerType, Place, CopyType
  <2>2. BrokerType'
    BY <1>4, <2>1 DEF Deliver, TypeOK, BrokerType
  <2>3. HandlerType'
    BY <1>4, <2>1 DEF Deliver, TypeOK, BrokerType, HandlerType, HandlerPc
  <2> QED BY <1>4, <2>2, <2>3 DEF Deliver, TypeOK, RowType, ReconcilerType, row, recon
<1>5. ASSUME NEW m \in Msgs, LeaseExpires(m) PROVE TypeOK'
  BY <1>5 DEF LeaseExpires, TypeOK, RowType, BrokerType, HandlerType, ReconcilerType, hand, recon
<1>6. ASSUME NEW c \in Copies, RetryDue(c) PROVE TypeOK'
  <2>1. /\ [broker[c] EXCEPT !.at = "main"] \in CopyType
        /\ [broker[c] EXCEPT !.at = "main"].at = "main"
        /\ [broker[c] EXCEPT !.at = "main"].msg = broker[c].msg
        /\ broker[c].msg \in Msgs
    BY <1>6, Moved DEF RetryDue, TypeOK, BrokerType, Place
  <2>2. BrokerType' /\ HandlerType'
    BY <1>6, <2>1 DEF RetryDue, TypeOK, BrokerType, HandlerType, hand
  <2> QED BY <1>6, <2>2 DEF RetryDue, TypeOK, RowType, ReconcilerType, row, recon
<1>7. \A c \in Copies : /\ [broker[c] EXCEPT !.at = "main"] \in CopyType
                        /\ [broker[c] EXCEPT !.at = "main"].at = "main"
                        /\ [broker[c] EXCEPT !.at = "main"].msg = broker[c].msg
  BY Moved DEF Place, TypeOK, BrokerType
<1>8. ASSUME NEW w \in Workers, Crash(w) PROVE TypeOK'
  <2>1. BrokerType'
    BY <1>8, <1>7 DEF Crash, Exit, Requeue, HandlersOf, TypeOK, BrokerType, HandlerType
  <2>2. HandlerType'
    BY <1>8 DEF Crash, Exit, Requeue, HandlersOf, NoWork, HandlerPc, Errors, TypeOK, BrokerType,
                HandlerType
  <2>3. ReconcilerType'
    BY <1>8 DEF Crash, Exit, TickPc, TypeOK, ReconcilerType
  <2> QED BY <1>8, <2>1, <2>2, <2>3 DEF Crash, TypeOK, RowType, row
<1>9. ASSUME NEW w \in Workers, Disconnect(w) PROVE TypeOK'
  <2>1. BrokerType'
    BY <1>9, <1>7 DEF Disconnect, Requeue, HandlersOf, TypeOK, BrokerType, HandlerType
  <2>2. HandlerType'
    BY <1>9 DEF Disconnect, Requeue, HandlersOf, TypeOK, BrokerType, HandlerType
  <2> QED BY <1>9, <2>1, <2>2 DEF Disconnect, TypeOK, RowType, ReconcilerType, row, recon
<1> QED BY <1>1, <1>2, <1>3, <1>4, <1>5, <1>6, <1>8, <1>9 DEF ApiNext

LEMMA TypeInit == Init => TypeOK
BY ConstantsAssumption DEF Init, TypeOK, RowType, BrokerType, HandlerType, ReconcilerType,
   NoWork, NoCopy, CopyType, Place, HandlerPc, Errors, TickPc

LEMMA TypeStep == TypeOK /\ [Next]_vars => TypeOK'
<1> SUFFICES ASSUME TypeOK, [Next]_vars PROVE TypeOK'
  OBVIOUS
<1>1. CASE UNCHANGED vars
  BY <1>1 DEF vars, TypeOK, RowType, BrokerType, HandlerType, ReconcilerType
<1>2. CASE Next
  BY <1>2, HandlerStepTypes, TickStepTypes, OtherStepTypes DEF Next
<1> QED BY <1>1, <1>2

\* Every state the model reaches is well typed: no row, copy, handler or tick is
\* ever left in a state the code has no branch for, and no attempt number
\* exceeds maxRetries.
THEOREM TypeCorrect == Spec => []TypeOK
BY TypeInit, TypeStep, PTL DEF Spec

-----------------------------------------------------------------------------
(***************************************************************************)
(* What holds of the rows whatever the number of handlers per worker.       *)
(***************************************************************************)
BasicInv ==
  /\ LeaseMatchesStatus
  /\ OutcomeIsBacked
  /\ \A x \in Handlers : /\ pc[x] = "sent" => Msg(x) \in accepted
                         /\ pc[x] = "buried" => Msg(x) \in dlq

\* A step of x takes x to one of the points P or ends it, and leaves the other
\* handlers where they are unless their process exits.
Frame(x, P) ==
  \A y \in Handlers : \/ pc'[y] \notin Working
                      \/ /\ work'[y] = work[y]
                         /\ IF y = x THEN pc'[y] \in P ELSE pc'[y] = pc[y]

LEMMA FrameReturn ==
  ASSUME TypeOK, NEW x \in Handlers, NEW P, Ack(x) \/ Nack(x)
  PROVE  Frame(x, P)
BY DEF TypeOK, HandlerType, Frame, Ack, Nack, Finish, Exit, Working

LEMMA FrameStep ==
  ASSUME TypeOK, NEW x \in Handlers, NEW P, NEW p \in P, Step(x, p)
  PROVE  Frame(x, P)
BY DEF TypeOK, HandlerType, Frame, Step

LEMMA FrameGoto ==
  ASSUME TypeOK, NEW x \in Handlers, NEW P,
         \/ \E p \in P : Goto(x, p)
         \/ "failed" \in P /\ \E e \in Errors : Throw(x, e)
  PROVE  Frame(x, P)
BY FrameStep DEF Goto, Throw

LEMMA LeaveRow ==
  ASSUME RowType, LeaseMatchesStatus, NEW m \in Msgs, NEW s \in Status \ {"PROCESSING"}, Leave(m, s)
  PROVE  LeaseMatchesStatus'
BY ConstantsAssumption DEF RowType, LeaseMatchesStatus, Leave

LEMMA SetStatusRow ==
  ASSUME RowType, LeaseMatchesStatus, NEW S, NEW s \in Status \ {"PROCESSING"}, SetStatus(S, s),
         \A m \in S : status[m] # "PROCESSING"
  PROVE  LeaseMatchesStatus'
BY ConstantsAssumption DEF RowType, LeaseMatchesStatus, SetStatus

Knowledge == \A x \in Handlers : /\ pc[x] = "sent" => Msg(x) \in accepted
                                 /\ pc[x] = "buried" => Msg(x) \in dlq

LEMMA KnowledgeFrame ==
  ASSUME Knowledge, NEW x \in Handlers, NEW P, Frame(x, P),
         accepted \subseteq accepted', dlq \subseteq dlq',
         "sent" \in P => Msg(x) \in accepted', "buried" \in P => Msg(x) \in dlq'
  PROVE  Knowledge'
BY DEF Knowledge, Frame, Msg, Working

LEMMA BasicHandlerStep ==
  ASSUME TypeOK, BasicInv, NEW x \in Handlers, Handle(x)
  PROVE  BasicInv'
<1> USE DEF BasicInv, Knowledge
<1>1. pc[x] # "idle" => Msg(x) \in Msgs
  BY DEF TypeOK, HandlerType, Msg
<1>2. {"SENT", "RETRYING", "FAILED", "DEAD"} \subseteq Status \ {"PROCESSING"}
  BY DEF Status, Claimable, Terminal
<1>3. ASSUME UNCHANGED <<status, owner, lease>>, accepted \subseteq accepted', dlq \subseteq dlq'
      PROVE  LeaseMatchesStatus' /\ OutcomeIsBacked'
  BY <1>3 DEF LeaseMatchesStatus, OutcomeIsBacked
<1>4. CASE Load(x) \/ AckDone(x) \/ DeadLetterMalformed(x) \/ PublishRetryFailed(x)
  <2>1. Frame(x, {"claim", "malformed"})
    <3>1. CASE Load(x)
      BY <3>1, FrameReturn, FrameGoto DEF Load
    <3>2. CASE AckDone(x) \/ DeadLetterMalformed(x)
      BY <3>2, FrameReturn DEF AckDone, DeadLetterMalformed
    <3>3. CASE PublishRetryFailed(x)
      <4>1. CASE Finish(x)
        BY <4>1 DEF Finish, Frame, TypeOK, HandlerType, Working
      <4>2. CASE Nack(x)
        BY <4>2, FrameReturn
      <4> QED BY <3>3, <4>1, <4>2 DEF PublishRetryFailed
    <3> QED BY <1>4, <3>1, <3>2, <3>3
  <2>2. UNCHANGED row /\ accepted' = accepted /\ dlq \subseteq dlq'
    BY <1>4 DEF Load, AckDone, DeadLetterMalformed, PublishRetryFailed
  <2> QED BY <2>1, <2>2, <1>3, KnowledgeFrame DEF row
<1>5. CASE Claim(x)
  <2>1. Frame(x, {"prepare"})
    BY <1>5, FrameReturn, FrameGoto DEF Claim
  <2>2. UNCHANGED <<accepted, dlq>> /\ (UNCHANGED row \/ ClaimFor(Msg(x), HostOf[x]))
    BY <1>5 DEF Claim
  <2>3. CASE UNCHANGED row
    BY <2>1, <2>2, <2>3, <1>3, KnowledgeFrame DEF row
  <2>4. CASE ClaimFor(Msg(x), HostOf[x])
    <3>1. HostOf[x] \in Workers /\ HostOf[x] # None
      BY ConstantsAssumption
    <3>2. LeaseMatchesStatus' /\ OutcomeIsBacked'
      BY <2>2, <2>4, <3>1 DEF ClaimFor, LeaseMatchesStatus, OutcomeIsBacked, TypeOK, RowType
    <3> QED BY <2>1, <2>2, <3>2, KnowledgeFrame
  <2> QED BY <2>2, <2>3, <2>4
<1>6. CASE Prepare(x) \/ Start(x) \/ SmtpFailed(x) \/ MarkFailed(x) \/ PublishRetry(x)
  <2>1. Frame(x, {"start", "failed", "smtp", "retry", "bury", "retrying"})
    <3>1. {"retryable", "permanent", "other"} \subseteq Errors
      BY DEF Errors
    <3>2. CASE Prepare(x)
      BY <3>1, <3>2, FrameGoto DEF Prepare
    <3>3. CASE Start(x)
      BY <3>1, <3>3, FrameGoto DEF Start
    <3>4. CASE SmtpFailed(x)
      BY <3>1, <3>4, FrameGoto DEF SmtpFailed
    <3>5. CASE MarkFailed(x)
      BY <3>5, FrameGoto, FrameReturn DEF MarkFailed
    <3>6. CASE PublishRetry(x)
      BY <3>6, FrameStep DEF PublishRetry
    <3> QED BY <1>6, <3>2, <3>3, <3>4, <3>5, <3>6
  <2>2. UNCHANGED <<status, owner, lease, accepted, dlq>>
    BY <1>6 DEF Prepare, Start, SmtpFailed, MarkFailed, PublishRetry, row
  <2> QED BY <2>1, <2>2, <1>3, KnowledgeFrame
<1>7. CASE SmtpAccepted(x)
  <2>1. Frame(x, {"sent"})
    BY <1>7, FrameGoto DEF SmtpAccepted
  <2> QED BY <1>7, <2>1, <1>3, KnowledgeFrame DEF SmtpAccepted, row
<1>8. CASE PublishDeadLetter(x)
  <2>1. CASE Goto(x, "buried") /\ dlq' = dlq \union {Msg(x)}
    <3>1. Frame(x, {"buried"})
      BY <2>1, FrameGoto
    <3> QED BY <1>8, <2>1, <3>1, <1>3, KnowledgeFrame DEF PublishDeadLetter, row
  <2>2. CASE Nack(x)
    <3>1. Frame(x, {})
      BY <2>2, FrameReturn
    <3>2. dlq \subseteq dlq' /\ accepted' = accepted /\ UNCHANGED row
      BY <1>8 DEF PublishDeadLetter
    <3> QED BY <3>1, <3>2, <1>3, KnowledgeFrame DEF row
  <2> QED BY <1>8, <2>1, <2>2 DEF PublishDeadLetter
<1>9. ASSUME NEW s \in {"SENT", "RETRYING", "FAILED", "DEAD"}, Store(x, s),
             pc[x] # "idle", UNCHANGED <<dlq, accepted>>,
             s = "SENT" => Msg(x) \in accepted, s \in {"FAILED", "DEAD"} => Msg(x) \in dlq
      PROVE  BasicInv'
  <2>1. Frame(x, {"ack"})
    BY <1>9, FrameReturn, FrameGoto DEF Store
  <2>2. UNCHANGED row \/ Leave(Msg(x), s)
    BY <1>9 DEF Store
  <2>3. LeaseMatchesStatus'
    BY <1>1, <1>2, <1>3, <1>9, <2>2, LeaveRow DEF row, TypeOK
  <2>4. OutcomeIsBacked'
    BY <1>1, <1>9, <2>2 DEF OutcomeIsBacked, Leave, row, TypeOK, RowType
  <2> QED BY <1>9, <2>1, <2>3, <2>4, KnowledgeFrame
<1>10. CASE StoreSent(x) \/ StoreRetrying(x) \/ StoreDead(x)
  BY <1>9, <1>10 DEF StoreSent, StoreRetrying, StoreDead
<1> QED BY <1>4, <1>5, <1>6, <1>7, <1>8, <1>10 DEF Handle

LEMMA BasicOtherStep ==
  ASSUME TypeOK, BasicInv,
         \/ ApiNext
         \/ \E x \in Handlers, c \in Copies : Deliver(x, c)
         \/ \E t \in Ticks : Reconcile(t)
         \/ \E m \in Msgs : LeaseExpires(m)
         \/ \E c \in Copies : RetryDue(c)
         \/ \E w \in Workers : Crash(w) \/ Disconnect(w)
  PROVE  BasicInv'
<1> USE DEF BasicInv, Knowledge
<1>1. {"QUEUED", "PENDING", "ENQUEUE_PENDING"} \subseteq Status \ {"PROCESSING"}
  BY DEF Status, Claimable, Terminal
<1>2. ASSUME UNCHANGED <<status, owner, lease, accepted, dlq>>
      PROVE  LeaseMatchesStatus' /\ OutcomeIsBacked'
  BY <1>2 DEF LeaseMatchesStatus, OutcomeIsBacked
<1>3. ASSUME NEW S, NEW s \in {"QUEUED", "PENDING", "ENQUEUE_PENDING"}, SetStatus(S, s),
             \A m \in S : status[m] # "PROCESSING", UNCHANGED <<accepted, dlq>>
      PROVE  LeaseMatchesStatus' /\ OutcomeIsBacked'
  <2>1. LeaseMatchesStatus'
    BY <1>1, <1>3, SetStatusRow DEF TypeOK
  <2> QED BY <1>3, <2>1 DEF OutcomeIsBacked, SetStatus
<1>4. ASSUME NEW m \in Msgs, MarkQueued(m), UNCHANGED <<accepted, dlq>>
      PROVE  LeaseMatchesStatus' /\ OutcomeIsBacked'
  BY <1>3, <1>4 DEF MarkQueued
<1>5. ASSUME UNCHANGED <<pc, work, accepted, dlq>>
      PROVE  Knowledge'
  BY <1>5 DEF Msg
<1>6. ASSUME NEW m \in Msgs, Accept(m) \/ ApiPublish(m) \/ ApiMarkQueued(m)
      PROVE  BasicInv'
  <2>1. UNCHANGED <<pc, work, accepted, dlq>>
    BY <1>6 DEF Accept, ApiPublish, ApiMarkQueued, hand
  <2>2. CASE Accept(m)
    <3>1. LeaseMatchesStatus' /\ OutcomeIsBacked'
      BY <2>2 DEF Accept, LeaseMatchesStatus, OutcomeIsBacked, TypeOK, RowType
    <3> QED BY <2>1, <3>1, <1>5
  <2>3. CASE ApiPublish(m)
    BY <2>1, <2>3, <1>2, <1>5 DEF ApiPublish, row
  <2>4. CASE ApiMarkQueued(m)
    BY <2>1, <2>4, <1>2, <1>4, <1>5 DEF ApiMarkQueued, row
  <2> QED BY <1>6, <2>2, <2>3, <2>4
<1>7. ASSUME NEW x \in Handlers, NEW c \in Copies, Deliver(x, c)
      PROVE  BasicInv'
  <2>1. Knowledge'
    BY <1>7 DEF Deliver, Msg, TypeOK, HandlerType
  <2> QED BY <1>7, <2>1, <1>2 DEF Deliver, row
<1>8. ASSUME NEW t \in Ticks, Reconcile(t)
      PROVE  BasicInv'
  <2>1. Knowledge' /\ UNCHANGED <<accepted, dlq>>
    BY <1>8, <1>5 DEF Reconcile, Recover, ReleaseStale, ClaimDue, Republish, RepublishFailed,
       TickMarkQueued, ReleaseClaim, TickThrows, hand
  <2>2. LeaseMatchesStatus' /\ OutcomeIsBacked'
    <3>1. CASE Recover(t)
      BY <3>1 DEF Recover, Expired, RecoveredStatus, LeaseMatchesStatus, OutcomeIsBacked, TypeOK,
         RowType
    <3>2. CASE ReleaseStale(t)
      BY <3>2, <1>3 DEF ReleaseStale
    <3>3. CASE ClaimDue(t)
      BY <3>3, <1>3 DEF ClaimDue
    <3>4. CASE \E m \in Msgs : Republish(t, m) \/ RepublishFailed(t, m)
      BY <3>4, <1>2 DEF Republish, RepublishFailed, row
    <3>5. CASE TickMarkQueued(t)
      BY <3>5, <2>1, <1>2, <1>4 DEF TickMarkQueued, row, TypeOK, ReconcilerType
    <3>6. CASE ReleaseClaim(t)
      BY <3>6, <2>1, <1>3 DEF ReleaseClaim
    <3>7. CASE TickThrows(t)
      BY <3>7, <1>2 DEF TickThrows, row
    <3> QED BY <1>8, <3>1, <3>2, <3>3, <3>4, <3>5, <3>6, <3>7 DEF Reconcile
  <2> QED BY <2>1, <2>2
<1>9. ASSUME NEW m \in Msgs, LeaseExpires(m)
      PROVE  BasicInv'
  <2>1. LeaseMatchesStatus' /\ OutcomeIsBacked'
    BY <1>9 DEF LeaseExpires, LeaseMatchesStatus, OutcomeIsBacked, TypeOK, RowType
  <2> QED BY <1>9, <2>1, <1>5 DEF LeaseExpires, hand
<1>10. ASSUME NEW c \in Copies, RetryDue(c)
       PROVE  BasicInv'
  BY <1>10, <1>2, <1>5 DEF RetryDue, row, hand
<1>11. ASSUME NEW w \in Workers, Crash(w) \/ Disconnect(w)
       PROVE  BasicInv'
  <2>1. Knowledge'
    BY <1>11 DEF Crash, Disconnect, Exit, Msg
  <2> QED BY <1>11, <2>1, <1>2 DEF Crash, Disconnect, row
<1> QED BY <1>6, <1>7, <1>8, <1>9, <1>10, <1>11 DEF ApiNext

LEMMA BasicInit == Init => BasicInv
BY DEF Init, BasicInv, LeaseMatchesStatus, OutcomeIsBacked

LEMMA BasicStep == TypeOK /\ BasicInv /\ [Next]_vars => BasicInv'
<1> SUFFICES ASSUME TypeOK, BasicInv, [Next]_vars PROVE BasicInv'
  OBVIOUS
<1>1. CASE UNCHANGED vars
  BY <1>1 DEF vars, BasicInv, LeaseMatchesStatus, OutcomeIsBacked, Msg
<1>2. CASE Next
  BY <1>2, BasicHandlerStep, BasicOtherStep DEF Next
<1> QED BY <1>1, <1>2

LEMMA BasicInvariant == Spec => []BasicInv
BY TypeInit, TypeStep, BasicInit, BasicStep, PTL DEF Spec

\* A row has an owner and a lease exactly while it is PROCESSING, whatever
\* failures strike and however many handlers share a worker id.
THEOREM LeaseCorrect == Spec => []LeaseMatchesStatus
<1>1. BasicInv => LeaseMatchesStatus
  BY DEF BasicInv
<1> QED BY <1>1, BasicInvariant, PTL

\* SENT rests on an SMTP acknowledgement, FAILED and DEAD on a dead letter.
THEOREM OutcomeCorrect == Spec => []OutcomeIsBacked
<1>1. BasicInv => OutcomeIsBacked
  BY DEF BasicInv
<1> QED BY <1>1, BasicInvariant, PTL

-----------------------------------------------------------------------------
(***************************************************************************)
(* When every worker id names one handler, the lease does what it is for:   *)
(* DeliveryInv is inductive, and with it SmtpExclusive, NeverResent and     *)
(* AcceptedIsAccounted hold for every set of messages, workers and faults.  *)
(***************************************************************************)

\* What a handler may do to a row: nothing, claim it, give back one it owns, or
\* record or reset the delivery attempt of one it owns.
RowByHandler(x) ==
  \/ UNCHANGED row
  \/ CanClaim(Msg(x)) /\ ClaimFor(Msg(x), HostOf[x])
  \/ CanStore(x) /\ \E s \in Status \ {"PROCESSING"} : Leave(Msg(x), s)
  \/ /\ Owns(x)
     /\ UNCHANGED <<status, owner, lease>>
     /\ \E b \in BOOLEAN : started' = [started EXCEPT ![Msg(x)] = b]

LEMMA StoreOwns ==
  ASSUME TypeOK, LeaseMatchesStatus, NEW x \in Handlers, pc[x] # "idle", CanStore(x)
  PROVE  Owns(x)
BY ConstantsAssumption DEF TypeOK, HandlerType, LeaseMatchesStatus, CanStore, Owns, Msg

\* A step of x leaves what another handler y knows intact.
LEMMA OthersKnow ==
  ASSUME SoleHandler, TypeOK, LeaseMatchesStatus, NEW x \in Handlers, NEW y \in Handlers, x # y,
         pc[x] # "idle", RowByHandler(x), UNCHANGED accepted, HandlerInv(y),
         pc'[y] \notin Working \/ (pc'[y] = pc[y] /\ work'[y] = work[y])
  PROVE  HandlerInv(y)'
<1>1. CASE pc'[y] \notin Working
  BY <1>1 DEF HandlerInv, Working
<1>2. CASE pc'[y] = pc[y] /\ work'[y] = work[y] /\ pc[y] \in Working
  <2>1. /\ HostOf[x] # HostOf[y] /\ HostOf[x] \in Workers /\ HostOf[y] \in Workers
        /\ None \notin Workers
    BY ConstantsAssumption DEF SoleHandler
  <2>2. Msg(x) \in Msgs /\ Msg(y) \in Msgs /\ Msg(y)' = Msg(y)
    BY <1>2 DEF Msg, TypeOK, HandlerType, Working
  <2>3. CASE UNCHANGED row
    BY <1>2, <2>2, <2>3 DEF HandlerInv, Owns, row
  <2>4. CASE CanClaim(Msg(x)) /\ ClaimFor(Msg(x), HostOf[x])
    BY <1>2, <2>1, <2>2, <2>4
    DEF HandlerInv, Owns, CanClaim, ClaimFor, Claimable, TypeOK, RowType
  <2>5. CASE CanStore(x) /\ \E s \in Status \ {"PROCESSING"} : Leave(Msg(x), s)
    <3>1. Owns(x)
      BY <2>5, StoreOwns
    <3> QED BY <1>2, <2>1, <2>2, <2>5, <3>1 DEF HandlerInv, Owns, Leave, TypeOK, RowType
  <2>6. CASE /\ Owns(x) /\ UNCHANGED <<status, owner, lease>>
             /\ \E b \in BOOLEAN : started' = [started EXCEPT ![Msg(x)] = b]
    BY <1>2, <2>1, <2>2, <2>6 DEF HandlerInv, Owns, TypeOK, RowType
  <2> QED BY <2>3, <2>4, <2>5, <2>6 DEF RowByHandler
<1> QED BY <1>1, <1>2

\* A step that takes nobody into SMTP keeps the exchanges apart.
LEMMA ExclusiveFrame ==
  ASSUME SmtpExclusive, NEW x \in Handlers, NEW P, Frame(x, P), "smtp" \notin P
  PROVE  SmtpExclusive'
BY DEF SmtpExclusive, Frame, Msg, Working

\* A handler step that keeps accepted keeps the invariant if it keeps the row
\* from being reopened and establishes what x knows.
LEMMA DeliveryFrame ==
  ASSUME SoleHandler, TypeOK, LeaseMatchesStatus, DeliveryInv,
         NEW x \in Handlers, pc[x] # "idle", NEW P, Frame(x, P), RowByHandler(x),
         UNCHANGED accepted, "smtp" \notin P, AcceptedIsAccounted', HandlerInv(x)'
  PROVE  DeliveryInv'
<1>1. SmtpExclusive'
  BY ExclusiveFrame DEF DeliveryInv
<1>2. ASSUME NEW y \in Handlers, y # x PROVE HandlerInv(y)'
  BY <1>2, OthersKnow DEF DeliveryInv, Frame
<1> QED BY <1>1, <1>2 DEF DeliveryInv

\* The same for a step that leaves the row alone.
LEMMA DeliveryQuiet ==
  ASSUME SoleHandler, TypeOK, LeaseMatchesStatus, DeliveryInv,
         NEW x \in Handlers, pc[x] # "idle", NEW P, Frame(x, P),
         UNCHANGED row, UNCHANGED accepted, P \intersect {"smtp"} = {}, HandlerInv(x)'
  PROVE  DeliveryInv'
<1>1. AcceptedIsAccounted'
  BY DEF DeliveryInv, AcceptedIsAccounted, row
<1> QED BY <1>1, DeliveryFrame DEF RowByHandler

-----------------------------------------------------------------------------
(* The handler's steps.                                                     *)

LEMMA DeliveryReturn ==
  ASSUME SoleHandler, TypeOK, LeaseMatchesStatus, DeliveryInv,
         NEW x \in Handlers, pc[x] # "idle", RowByHandler(x), UNCHANGED accepted,
         AcceptedIsAccounted', Frame(x, {}), pc'[x] \notin Working
  PROVE  DeliveryInv'
<1>1. HandlerInv(x)'
  BY DEF HandlerInv, Working
<1> QED BY <1>1, DeliveryFrame

LEMMA ReturnEnds ==
  ASSUME TypeOK, NEW x \in Handlers, Ack(x) \/ Nack(x)
  PROVE  Frame(x, {}) /\ pc'[x] \notin Working
<1>1. Frame(x, {})
  BY FrameReturn
<1> QED BY <1>1 DEF Frame

LEMMA DeliverySmtpAccepted ==
  ASSUME SoleHandler, TypeOK, LeaseMatchesStatus, DeliveryInv,
         NEW x \in Handlers, SmtpAccepted(x)
  PROVE  DeliveryInv'
<1>1. /\ pc[x] = "smtp" /\ UNCHANGED row /\ accepted' = accepted \union {Msg(x)}
      /\ pc' = [pc EXCEPT ![x] = "sent"] /\ work' = work
  BY DEF SmtpAccepted, Goto, Step
<1>2. SmtpExclusive /\ AcceptedIsAccounted /\ HandlerInv(x)
  BY DEF DeliveryInv
<1>3. Msg(x) \in Msgs /\ pc'[x] = "sent"
  BY <1>1 DEF TypeOK, HandlerType, Msg
<1>4. SmtpExclusive'
  BY <1>1, <1>2 DEF SmtpExclusive, Msg, TypeOK, HandlerType
<1>5. AcceptedIsAccounted'
  BY <1>1, <1>2 DEF AcceptedIsAccounted, HandlerInv, Owns, row
<1>6. ASSUME NEW y \in Handlers PROVE HandlerInv(y)'
  <2>1. CASE y = x
    BY <1>3, <2>1 DEF HandlerInv
  <2>2. CASE y # x
    <3>1. /\ pc'[y] = pc[y] /\ Msg(y)' = Msg(y) /\ Owns(y)' = Owns(y)
          /\ started' = started /\ status' = status /\ HandlerInv(y)
      BY <1>1, <2>2 DEF TypeOK, HandlerType, Msg, Owns, row, DeliveryInv
    <3>2. pc[y] = "smtp" => Msg(y) # Msg(x)
      BY <1>1, <1>2, <2>2 DEF SmtpExclusive
    <3>3. ~ (pc[y] = "failed" /\ Owns(y) /\ Msg(y) = Msg(x))
      <4>1. HostOf[x] # HostOf[y]
        BY <2>2 DEF SoleHandler
      <4> QED BY <1>1, <1>2, <4>1 DEF HandlerInv, Owns
    <3> QED BY <1>1, <3>1, <3>2, <3>3 DEF HandlerInv
  <2> QED BY <2>1, <2>2
<1> QED BY <1>4, <1>5, <1>6 DEF DeliveryInv

LEMMA DeliveryStart ==
  ASSUME SoleHandler, TypeOK, LeaseMatchesStatus, DeliveryInv,
         NEW x \in Handlers, Start(x)
  PROVE  DeliveryInv'
<1>1. pc[x] = "start" /\ Msg(x) \in Msgs /\ UNCHANGED <<status, owner, lease, accepted>>
  BY DEF Start, TypeOK, HandlerType, Msg
<1>2. AcceptedIsAccounted /\ HandlerInv(x) /\ SmtpExclusive
  BY DEF DeliveryInv
<1>3. CASE Throw(x, "retryable") /\ UNCHANGED started
  <2>1. Frame(x, {"failed"}) /\ pc' = [pc EXCEPT ![x] = "failed"] /\ work' = work
    BY <1>3, FrameGoto DEF Throw, Step, Errors
  <2>2. UNCHANGED row
    BY <1>1, <1>3 DEF row
  <2>3. Owns(x) => Msg(x) \notin accepted
    BY <1>1, <1>2 DEF AcceptedIsAccounted, HandlerInv, Owns
  <2>4. HandlerInv(x)'
    BY <1>1, <2>1, <2>2, <2>3 DEF HandlerInv, Owns, Msg, row, TypeOK, HandlerType
  <2> QED BY <1>1, <2>1, <2>2, <2>4, DeliveryQuiet
<1>4. CASE CanStart(x) /\ started' = [started EXCEPT ![Msg(x)] = TRUE]
  <2>1. Owns(x) /\ RowByHandler(x)
    BY <1>1, <1>4 DEF CanStart, Owns, RowByHandler
  <2>2. AcceptedIsAccounted'
    BY <1>1, <1>2, <1>4 DEF AcceptedIsAccounted, TypeOK, RowType
  <2>3. Msg(x) \notin accepted
    BY <1>1, <1>2, <2>1 DEF AcceptedIsAccounted, HandlerInv, Owns
  <2>4. CASE Throw(x, "retryable")
    <3>1. Frame(x, {"failed"}) /\ pc' = [pc EXCEPT ![x] = "failed"] /\ work' = work
      BY <2>4, FrameGoto DEF Throw, Step, Errors
    <3>2. HandlerInv(x)'
      BY <1>1, <2>3, <3>1 DEF HandlerInv, Msg, TypeOK, HandlerType
    <3> QED BY <1>1, <2>1, <2>2, <3>1, <3>2, DeliveryFrame
  <2>5. CASE Goto(x, "smtp")
    <3>1. /\ pc' = [pc EXCEPT ![x] = "smtp"] /\ pc'[x] = "smtp" /\ work' = work
          /\ \A y \in Handlers : Msg(y)' = Msg(y) /\ (y # x => pc'[y] = pc[y])
      BY <2>5 DEF Goto, Step, TypeOK, HandlerType, Msg
    <3>2. ASSUME NEW y \in Handlers, y # x, pc[y] = "smtp" PROVE Msg(y) # Msg(x)
      <4>1. HandlerInv(y) /\ HostOf[x] # HostOf[y]
        BY <3>2 DEF DeliveryInv, SoleHandler
      <4> QED BY <2>1, <3>2, <4>1 DEF HandlerInv, Owns
    <3>3. SmtpExclusive'
      BY <1>2, <3>1, <3>2 DEF SmtpExclusive
    <3>4. HandlerInv(x)'
      BY <1>1, <1>4, <2>1, <2>3, <3>1 DEF HandlerInv, Owns, TypeOK, RowType
    <3>5. ASSUME NEW y \in Handlers, y # x PROVE HandlerInv(y)'
      BY <1>1, <2>1, <3>1, <3>5, OthersKnow DEF DeliveryInv
    <3> QED BY <2>2, <3>3, <3>4, <3>5 DEF DeliveryInv
  <2> QED BY <1>4, <2>4, <2>5, <1>3 DEF Start
<1> QED BY <1>3, <1>4 DEF Start

\* The steps that leave the row alone.
LEMMA DeliveryNoRow ==
  ASSUME SoleHandler, TypeOK, LeaseMatchesStatus, DeliveryInv, NEW x \in Handlers,
         \/ Load(x) \/ DeadLetterMalformed(x) \/ AckDone(x) \/ PublishRetryFailed(x)
         \/ Prepare(x) \/ SmtpFailed(x) \/ PublishRetry(x) \/ PublishDeadLetter(x)
  PROVE  DeliveryInv'
<1>1. pc[x] # "idle" /\ UNCHANGED row /\ UNCHANGED accepted
  BY DEF Load, DeadLetterMalformed, AckDone, PublishRetryFailed, Prepare, SmtpFailed,
     PublishRetry, PublishDeadLetter
<1>2. AcceptedIsAccounted /\ HandlerInv(x) /\ AcceptedIsAccounted' /\ RowByHandler(x)
  BY <1>1 DEF DeliveryInv, AcceptedIsAccounted, row, RowByHandler
<1>3. CASE Ack(x) \/ Nack(x)
  BY <1>1, <1>2, <1>3, ReturnEnds, DeliveryReturn
<1>4. CASE Finish(x)
  <2>1. pc' = [pc EXCEPT ![x] = "idle"] /\ work' = [work EXCEPT ![x] = NoWork]
    BY <1>4 DEF Finish
  <2>2. Frame(x, {}) /\ pc'[x] \notin Working
    BY <2>1 DEF Frame, TypeOK, HandlerType, Working
  <2> QED BY <1>1, <1>2, <2>2, DeliveryReturn
<1>5. ASSUME NEW p \in {"claim", "malformed", "start", "failed", "retrying", "buried"},
             Step(x, p),
             p = "start" => pc[x] = "prepare", p = "failed" => pc[x] \in {"prepare", "smtp"},
             p = "retrying" => pc[x] = "retry", p = "buried" => pc[x] = "bury"
      PROVE  DeliveryInv'
  <2>1. pc'[x] = p /\ work' = work /\ Msg(x) \in Msgs /\ Msg(x)' = Msg(x) /\ Owns(x)' = Owns(x)
    BY <1>1, <1>5 DEF Step, TypeOK, HandlerType, Msg, Owns, row
  <2>2. Frame(x, {p})
    BY <1>5, FrameStep
  <2>3. p = "failed" /\ Owns(x) => Msg(x) \notin accepted
    BY <1>2, <1>5, <2>1 DEF HandlerInv, Owns, AcceptedIsAccounted
  <2>4. HandlerInv(x)'
    BY <1>1, <1>2, <1>5, <2>1, <2>3 DEF HandlerInv, row
  <2> QED BY <1>1, <1>5, <2>2, <2>4, DeliveryQuiet
<1>6. CASE Load(x) \/ DeadLetterMalformed(x) \/ AckDone(x)
  BY <1>3, <1>5, <1>6 DEF Load, DeadLetterMalformed, AckDone, Goto
<1>7. CASE PublishRetryFailed(x) \/ PublishRetry(x)
  BY <1>3, <1>4, <1>5, <1>7 DEF PublishRetryFailed, PublishRetry
<1>8. CASE Prepare(x) \/ SmtpFailed(x)
  BY <1>5, <1>8 DEF Prepare, SmtpFailed, Throw, Goto
<1>9. CASE PublishDeadLetter(x)
  BY <1>3, <1>5, <1>9 DEF PublishDeadLetter, Goto
<1> QED BY <1>6, <1>7, <1>8, <1>9

LEMMA DeliveryClaim ==
  ASSUME SoleHandler, TypeOK, LeaseMatchesStatus, DeliveryInv, NEW x \in Handlers, Claim(x)
  PROVE  DeliveryInv'
<1>1. pc[x] = "claim" /\ UNCHANGED accepted /\ Msg(x) \in Msgs
  BY DEF Claim, TypeOK, HandlerType, Msg
<1>2. AcceptedIsAccounted /\ HandlerInv(x) /\ RowByHandler(x)
  BY DEF DeliveryInv, RowByHandler, Claim
<1>3. AcceptedIsAccounted'
  <2>1. CASE UNCHANGED row
    BY <1>1, <1>2, <2>1 DEF AcceptedIsAccounted, row
  <2>2. CASE CanClaim(Msg(x)) /\ ClaimFor(Msg(x), HostOf[x])
    BY <1>1, <1>2, <2>2
    DEF AcceptedIsAccounted, CanClaim, Claimable, ClaimFor, TypeOK, RowType
  <2> QED BY <2>1, <2>2 DEF Claim
<1>4. CASE Ack(x) \/ Nack(x)
  BY <1>1, <1>2, <1>3, <1>4, ReturnEnds, DeliveryReturn
<1>5. CASE ClaimFor(Msg(x), HostOf[x]) /\ Goto(x, "prepare")
  <2>1. Frame(x, {"prepare"})
    BY <1>5, FrameGoto
  <2>2. pc'[x] = "prepare" /\ Msg(x)' = Msg(x) /\ started'[Msg(x)] = FALSE
    BY <1>1, <1>5 DEF Goto, Step, ClaimFor, TypeOK, HandlerType, RowType, Msg
  <2>3. HandlerInv(x)'
    BY <2>2 DEF HandlerInv
  <2> QED BY <1>1, <1>2, <1>3, <2>1, <2>3, DeliveryFrame
<1> QED BY <1>4, <1>5 DEF Claim

LEMMA DeliveryStore ==
  ASSUME SoleHandler, TypeOK, LeaseMatchesStatus, DeliveryInv, Knowledge, NEW x \in Handlers,
         StoreSent(x) \/ StoreRetrying(x) \/ StoreDead(x)
  PROVE  DeliveryInv'
<1>1. PICK s \in {"SENT", "RETRYING", "FAILED", "DEAD"} :
        /\ Store(x, s) /\ UNCHANGED accepted
        /\ pc[x] \in {"sent", "retrying", "buried"} /\ (pc[x] = "sent" => s = "SENT")
  BY DEF StoreSent, StoreRetrying, StoreDead
<1>2. /\ AcceptedIsAccounted /\ HandlerInv(x) /\ pc[x] # "idle" /\ Msg(x) \in Msgs
      /\ s \in Status \ {"PROCESSING"}
  BY <1>1 DEF DeliveryInv, TypeOK, HandlerType, Msg, Status, Claimable, Terminal
<1>3. RowByHandler(x)
  BY <1>1, <1>2 DEF Store, RowByHandler
<1>4. AcceptedIsAccounted'
  <2>1. CASE UNCHANGED row
    BY <1>1, <1>2, <2>1 DEF AcceptedIsAccounted, row
  <2>2. CASE CanStore(x) /\ Leave(Msg(x), s)
    <3>1. Owns(x)
      BY <1>2, <2>2, StoreOwns
    <3>2. s = "SENT" \/ ~started[Msg(x)]
      BY <1>1, <1>2, <3>1 DEF HandlerInv
    <3> QED BY <1>1, <1>2, <2>2, <3>1, <3>2 DEF AcceptedIsAccounted, Leave, Owns, TypeOK, RowType
  <2> QED BY <1>1, <2>1, <2>2 DEF Store
<1>5. CASE Nack(x)
  BY <1>1, <1>2, <1>3, <1>4, <1>5, ReturnEnds, DeliveryReturn
<1>6. CASE Goto(x, "ack")
  <2>1. Frame(x, {"ack"})
    BY <1>6, FrameGoto
  <2>2. pc'[x] = "ack"
    BY <1>6 DEF Goto, Step, TypeOK, HandlerType
  <2>3. HandlerInv(x)'
    BY <2>2 DEF HandlerInv
  <2> QED BY <1>1, <1>2, <1>3, <1>4, <2>1, <2>3, DeliveryFrame
<1> QED BY <1>1, <1>5, <1>6 DEF Store

LEMMA DeliveryMarkFailed ==
  ASSUME SoleHandler, TypeOK, LeaseMatchesStatus, DeliveryInv, NEW x \in Handlers, MarkFailed(x)
  PROVE  DeliveryInv'
<1>1. pc[x] = "failed" /\ UNCHANGED <<status, owner, lease, accepted>> /\ Msg(x) \in Msgs
  BY DEF MarkFailed, TypeOK, HandlerType, Msg
<1>2. AcceptedIsAccounted /\ HandlerInv(x)
  BY DEF DeliveryInv
<1>3. \/ Owns(x) /\ started' = [started EXCEPT ![Msg(x)] = FALSE]
      \/ started' = started
  BY DEF MarkFailed, Owns
<1>4. RowByHandler(x)
  BY <1>1, <1>3 DEF RowByHandler, row
<1>5. AcceptedIsAccounted'
  BY <1>1, <1>2, <1>3 DEF AcceptedIsAccounted, HandlerInv, TypeOK, RowType
<1>6. CASE Nack(x)
  BY <1>1, <1>4, <1>5, <1>6, ReturnEnds, DeliveryReturn
<1>7. CASE Goto(x, IF WillRetry(x) THEN "retry" ELSE "bury")
  <2>1. Frame(x, {"retry", "bury"})
    BY <1>7, FrameGoto
  <2>2. /\ pc'[x] \in {"retry", "bury"} /\ Msg(x)' = Msg(x) /\ Owns(x)' = Owns(x)
    BY <1>1, <1>7 DEF Goto, Step, TypeOK, HandlerType, Msg, Owns
  <2>3. Owns(x) => started'[Msg(x)] = FALSE
    <3>1. ~ Nack(x)
      BY <2>2, ReturnEnds DEF Working
    <3> QED BY <1>1, <3>1 DEF MarkFailed, Owns, TypeOK, RowType
  <2>4. HandlerInv(x)'
    BY <2>2, <2>3 DEF HandlerInv
  <2> QED BY <1>1, <1>4, <1>5, <2>1, <2>4, DeliveryFrame
<1> QED BY <1>6, <1>7 DEF MarkFailed

LEMMA DeliveryHandlerStep ==
  ASSUME SoleHandler, TypeOK, BasicInv, DeliveryInv, NEW x \in Handlers, Handle(x)
  PROVE  DeliveryInv'
BY DeliverySmtpAccepted, DeliveryStart, DeliveryNoRow, DeliveryClaim, DeliveryStore,
   DeliveryMarkFailed DEF Handle, BasicInv, Knowledge

-----------------------------------------------------------------------------
(* The other processes' steps.                                              *)

\* A handler that stays where it is, or stops, keeps what it knows of a row
\* that is not disturbed while it is claimed.
LEMMA DeliveryElsewhere ==
  ASSUME DeliveryInv, TypeOK, UNCHANGED accepted,
         \A x \in Handlers : \/ pc'[x] \notin Working
                             \/ pc'[x] = pc[x] /\ work'[x] = work[x],
         \A m \in Msgs :
           \/ status'[m] = status[m] /\ owner'[m] = owner[m] /\ started'[m] = started[m]
           \/ /\ status[m] \in {"none", "ENQUEUE_PENDING", "PENDING"}
              /\ status'[m] \in {"QUEUED", "ENQUEUE_PENDING", "PENDING"}
           \/ /\ status[m] = "PROCESSING" /\ started'[m] = started[m]
              /\ status'[m] = IF started[m] THEN "DELIVERY_UNCERTAIN" ELSE "ENQUEUE_PENDING"
  PROVE  DeliveryInv'
<1>1. SmtpExclusive'
  BY DEF DeliveryInv, SmtpExclusive, Msg, Working
<1>2. AcceptedIsAccounted'
  BY DEF DeliveryInv, AcceptedIsAccounted, TypeOK, RowType
<1>3. ASSUME NEW x \in Handlers PROVE HandlerInv(x)'
  <2>1. CASE pc'[x] \notin Working
    BY <2>1 DEF HandlerInv, Working
  <2>2. CASE pc'[x] = pc[x] /\ work'[x] = work[x] /\ pc[x] \in Working
    <3>1. HandlerInv(x) /\ Msg(x) \in Msgs /\ Msg(x)' = Msg(x)
      BY <2>2 DEF DeliveryInv, TypeOK, HandlerType, Msg, Working
    <3> QED BY <2>2, <3>1 DEF HandlerInv, Owns
  <2> QED BY <2>1, <2>2
<1> QED BY <1>1, <1>2, <1>3 DEF DeliveryInv

LEMMA DeliveryOtherStep ==
  ASSUME TypeOK, DeliveryInv,
         \/ ApiNext
         \/ \E x \in Handlers, c \in Copies : Deliver(x, c)
         \/ \E t \in Ticks : Reconcile(t)
         \/ \E m \in Msgs : LeaseExpires(m)
         \/ \E c \in Copies : RetryDue(c)
         \/ \E w \in Workers : Crash(w) \/ Disconnect(w)
  PROVE  DeliveryInv'
<1> DEFINE Same(m) == /\ status'[m] = status[m] /\ owner'[m] = owner[m]
                      /\ started'[m] = started[m]
           Early(m) == /\ status[m] \in {"none", "ENQUEUE_PENDING", "PENDING"}
                       /\ status'[m] \in {"QUEUED", "ENQUEUE_PENDING", "PENDING"}
           Settled(m) == /\ status[m] = "PROCESSING" /\ started'[m] = started[m]
                         /\ status'[m] = RecoveredStatus(m)
<1>1. ASSUME UNCHANGED <<pc, work, accepted>>,
             \A m \in Msgs : Same(m) \/ Early(m) \/ Settled(m)
      PROVE  DeliveryInv'
  BY <1>1, DeliveryElsewhere DEF RecoveredStatus
<1>2. ASSUME NEW S, NEW s \in {"QUEUED", "ENQUEUE_PENDING", "PENDING"}, SetStatus(S, s),
             \A m \in S : status[m] \in {"ENQUEUE_PENDING", "PENDING"}
      PROVE  \A m \in Msgs : Same(m) \/ Early(m)
  BY <1>2 DEF SetStatus
<1>3. ASSUME NEW m \in Msgs, MarkQueued(m)
      PROVE  \A n \in Msgs : Same(n) \/ Early(n)
  BY <1>2, <1>3 DEF MarkQueued
<1>4. ASSUME NEW m \in Msgs, Accept(m) \/ ApiPublish(m) \/ ApiMarkQueued(m)
      PROVE  DeliveryInv'
  <2>1. UNCHANGED <<pc, work, accepted>>
    BY <1>4 DEF Accept, ApiPublish, ApiMarkQueued, hand
  <2>2. CASE Accept(m)
    BY <2>1, <2>2, <1>1 DEF Accept, TypeOK, RowType
  <2>3. CASE ApiPublish(m)
    BY <2>1, <2>3, <1>1 DEF ApiPublish, row
  <2>4. CASE ApiMarkQueued(m)
    BY <2>1, <2>4, <1>1, <1>3 DEF ApiMarkQueued, row
  <2> QED BY <1>4, <2>2, <2>3, <2>4
<1>5. ASSUME NEW x \in Handlers, NEW c \in Copies, Deliver(x, c)
      PROVE  DeliveryInv'
  <2>1. /\ \A y \in Handlers : pc'[y] \notin Working \/ (pc'[y] = pc[y] /\ work'[y] = work[y])
        /\ UNCHANGED accepted /\ UNCHANGED row
    BY <1>5 DEF Deliver, TypeOK, HandlerType, Working
  <2> QED BY <2>1, DeliveryElsewhere DEF row
<1>6. ASSUME NEW t \in Ticks, Reconcile(t)
      PROVE  DeliveryInv'
  <2>1. UNCHANGED <<pc, work, accepted>>
    BY <1>6 DEF Reconcile, Recover, ReleaseStale, ClaimDue, Republish, RepublishFailed,
       TickMarkQueued, ReleaseClaim, TickThrows, hand
  <2>2. \A m \in Msgs : Same(m) \/ Early(m) \/ Settled(m)
    <3>1. CASE Recover(t)
      BY <3>1 DEF Recover, Expired
    <3>2. CASE ReleaseStale(t)
      BY <3>2, <1>2 DEF ReleaseStale
    <3>3. CASE ClaimDue(t)
      BY <3>3, <1>2 DEF ClaimDue
    <3>4. CASE \E m \in Msgs : Republish(t, m) \/ RepublishFailed(t, m)
      BY <3>4 DEF Republish, RepublishFailed, row
    <3>5. CASE TickMarkQueued(t)
      BY <3>5, <1>3 DEF TickMarkQueued, row, TypeOK, ReconcilerType
    <3>6. CASE ReleaseClaim(t)
      BY <3>6, <1>2 DEF ReleaseClaim
    <3>7. CASE TickThrows(t)
      BY <3>7 DEF TickThrows, row
    <3> QED BY <1>6, <3>1, <3>2, <3>3, <3>4, <3>5, <3>6, <3>7 DEF Reconcile
  <2> QED BY <2>1, <2>2, <1>1
<1>7. ASSUME NEW m \in Msgs, LeaseExpires(m)
      PROVE  DeliveryInv'
  BY <1>7, <1>1 DEF LeaseExpires, hand
<1>8. ASSUME NEW c \in Copies, RetryDue(c)
      PROVE  DeliveryInv'
  BY <1>8, <1>1 DEF RetryDue, row, hand
<1>9. ASSUME NEW w \in Workers, Crash(w) \/ Disconnect(w)
      PROVE  DeliveryInv'
  <2>1. /\ \A y \in Handlers : pc'[y] \notin Working \/ (pc'[y] = pc[y] /\ work'[y] = work[y])
        /\ UNCHANGED accepted /\ UNCHANGED row
    BY <1>9 DEF Crash, Disconnect, Exit, Working
  <2> QED BY <2>1, DeliveryElsewhere DEF row
<1> QED BY <1>4, <1>5, <1>6, <1>7, <1>8, <1>9 DEF ApiNext

LEMMA DeliveryInit == Init => DeliveryInv
BY DEF Init, DeliveryInv, SmtpExclusive, AcceptedIsAccounted, HandlerInv

LEMMA DeliveryStep ==
  SoleHandler /\ TypeOK /\ BasicInv /\ DeliveryInv /\ [Next]_vars => DeliveryInv'
<1> SUFFICES ASSUME SoleHandler, TypeOK, BasicInv, DeliveryInv, [Next]_vars PROVE DeliveryInv'
  OBVIOUS
<1>1. CASE UNCHANGED vars
  BY <1>1, DeliveryElsewhere DEF vars
<1>2. CASE Next
  BY <1>2, DeliveryHandlerStep, DeliveryOtherStep DEF Next
<1> QED BY <1>1, <1>2

\* With one handler to a worker id, DeliveryInv holds of every reachable state,
\* whatever the messages, the workers and the failures.
THEOREM DeliveryCorrect == SoleHandler /\ Spec => []DeliveryInv
<1>1. Spec => [](TypeOK /\ BasicInv)
  BY TypeCorrect, BasicInvariant, PTL
<1>2. CASE SoleHandler
  <2>1. TypeOK /\ BasicInv /\ DeliveryInv /\ [Next]_vars => DeliveryInv'
    BY <1>2, DeliveryStep
  <2> QED BY <1>1, <2>1, DeliveryInit, PTL DEF Spec
<1> QED BY <1>2

\* Then no two SMTP exchanges for one message overlap.
THEOREM Exclusive == SoleHandler /\ Spec => []SmtpExclusive
<1>1. DeliveryInv => SmtpExclusive
  BY DEF DeliveryInv
<1> QED BY <1>1, DeliveryCorrect, PTL

\* A message the SMTP server acknowledged is not handed to it again.
THEOREM SentOnce == SoleHandler /\ Spec => []NeverResent
<1>1. DeliveryInv => NeverResent
  BY DEF DeliveryInv, HandlerInv, NeverResent
<1> QED BY <1>1, DeliveryCorrect, PTL

\* An acknowledged message is never reported failed nor open to another claim.
THEOREM Accounted == SoleHandler /\ Spec => []AcceptedIsAccounted
<1>1. DeliveryInv => AcceptedIsAccounted
  BY DEF DeliveryInv
<1> QED BY <1>1, DeliveryCorrect, PTL

-----------------------------------------------------------------------------
(***************************************************************************)
(* Terminal statuses are final, and every step of MailDelivery is a step of  *)
(* MessageLifecycle or leaves the client's view alone.                      *)
(***************************************************************************)
LEMMA HandlerBusy ==
  ASSUME NEW x \in Handlers, Handle(x)
  PROVE  pc[x] # "idle"
BY DEF Handle, Load, DeadLetterMalformed, Claim, Prepare, Start, SmtpAccepted, SmtpFailed, StoreSent,
   MarkFailed, PublishRetry, PublishRetryFailed, StoreRetrying, PublishDeadLetter, StoreDead, AckDone

LEMMA HandlerMovesRow ==
  ASSUME TypeOK, NEW x \in Handlers, Handle(x)
  PROVE  RowByHandler(x)
<1>1. {"SENT", "RETRYING", "FAILED", "DEAD"} \subseteq Status \ {"PROCESSING"}
  BY DEF Status, Claimable, Terminal
<1>2. CASE Claim(x)
  BY <1>2 DEF Claim, RowByHandler
<1>3. CASE Start(x)
  BY <1>3 DEF Start, CanStart, Owns, RowByHandler, row
<1>4. CASE MarkFailed(x)
  BY <1>4 DEF MarkFailed, Owns, RowByHandler, row
<1>5. CASE StoreSent(x) \/ StoreRetrying(x) \/ StoreDead(x)
  BY <1>1, <1>5 DEF StoreSent, StoreRetrying, StoreDead, Store, RowByHandler
<1>6. CASE ~ (Claim(x) \/ Start(x) \/ MarkFailed(x) \/ StoreSent(x) \/ StoreRetrying(x) \/ StoreDead(x))
  <2>1. UNCHANGED row
    BY <1>6 DEF Handle, Load, DeadLetterMalformed, Prepare, SmtpAccepted, SmtpFailed, PublishRetry,
       PublishRetryFailed, PublishDeadLetter, AckDone
  <2> QED BY <2>1 DEF RowByHandler
<1> QED BY <1>2, <1>3, <1>4, <1>5, <1>6

-----------------------------------------------------------------------------
(* A terminal status is final.                                              *)

LEMMA TerminalStep ==
  ASSUME TypeOK, LeaseMatchesStatus, [Next]_vars, NEW m \in Msgs, status[m] \in Terminal
  PROVE  status'[m] = status[m]
<1>1. status[m] \notin {"none", "PROCESSING"} \union Claimable
  BY DEF Terminal, Claimable
<1>2. ASSUME NEW x \in Handlers, RowByHandler(x), pc[x] # "idle" PROVE status'[m] = status[m]
  <2>1. CanStore(x) => Owns(x)
    BY <1>2, StoreOwns
  <2> QED BY <1>1, <1>2, <2>1
      DEF RowByHandler, row, CanClaim, ClaimFor, Leave, Owns, TypeOK, RowType
<1>3. ASSUME NEW x \in Handlers, Handle(x) PROVE status'[m] = status[m]
  BY <1>2, <1>3, HandlerBusy, HandlerMovesRow
<1>4. CASE ApiNext
  BY <1>1, <1>4 DEF ApiNext, Accept, ApiPublish, ApiMarkQueued, MarkQueued, SetStatus, row, TypeOK,
     RowType, Claimable
<1>5. ASSUME NEW t \in Ticks, Reconcile(t) PROVE status'[m] = status[m]
  <2>1. CASE Recover(t)
    BY <1>1, <2>1 DEF Recover, Expired
  <2>2. CASE ReleaseStale(t)
    BY <1>1, <2>2 DEF ReleaseStale, SetStatus, Claimable
  <2>3. CASE ClaimDue(t)
    BY <1>1, <2>3 DEF ClaimDue, SetStatus, Claimable
  <2>4. CASE TickMarkQueued(t)
    BY <1>1, <2>4 DEF TickMarkQueued, MarkQueued, SetStatus, Claimable, row
  <2>5. CASE ReleaseClaim(t)
    BY <1>1, <2>5 DEF ReleaseClaim, SetStatus, Claimable
  <2>6. CASE TickThrows(t) \/ \E n \in Msgs : Republish(t, n) \/ RepublishFailed(t, n)
    BY <2>6 DEF TickThrows, Republish, RepublishFailed, row
  <2> QED BY <1>5, <2>1, <2>2, <2>3, <2>4, <2>5, <2>6 DEF Reconcile
<1>6. CASE \/ \E x \in Handlers, c \in Copies : Deliver(x, c)
           \/ \E n \in Msgs : LeaseExpires(n)
           \/ \E c \in Copies : RetryDue(c)
           \/ \E w \in Workers : Crash(w) \/ Disconnect(w)
  BY <1>6 DEF Deliver, LeaseExpires, RetryDue, Crash, Disconnect, row
<1>7. CASE UNCHANGED vars
  BY <1>7 DEF vars
<1> QED BY <1>3, <1>4, <1>5, <1>6, <1>7 DEF Next

\* No late publisher, stale handler, reconciler or redelivered copy moves a
\* settled row, whatever the number of handlers per worker.
THEOREM TerminalStays == Spec => TerminalIsFinal
<1>1. TypeOK /\ LeaseMatchesStatus /\ [Next]_vars
        => [\A m \in Msgs : status[m] \in Terminal => status'[m] = status[m]]_vars
  BY TerminalStep
<1> QED BY <1>1, TypeCorrect, LeaseCorrect, PTL DEF Spec, TerminalIsFinal

-----------------------------------------------------------------------------
(* The refinement.                                                          *)

LEMMA OneMove ==
  ASSUME NEW m \in Msgs, \A n \in Msgs \ {m} : Life(n)' = Life(n), UNCHANGED accepted
  PROVE  Lifecycle!Move(m, Life(m), Life(m)')
BY DEF Lifecycle!Move

LEMMA NoMove ==
  ASSUME \A n \in Msgs : Life(n)' = Life(n), UNCHANGED accepted
  PROVE  UNCHANGED Lifecycle!vars
BY DEF Lifecycle!vars

\* Nothing a client sees changes if every row keeps its status and attempt, or
\* moves among the statuses that are open to a claim.
LEMMA SameLife ==
  ASSUME UNCHANGED accepted,
         \A n \in Msgs :
           \/ status'[n] = status[n] /\ started'[n] = started[n]
           \/ /\ {status[n], status'[n]} \subseteq Claimable
              /\ started'[n] = started[n]
  PROVE  UNCHANGED Lifecycle!vars
<1>1. ASSUME NEW n \in Msgs PROVE Life(n)' = Life(n)
  BY <1>1 DEF Life, Claimable
<1> QED BY <1>1, NoMove

\* The rows other than m are as they were.
Elsewhere(m) ==
  \A n \in Msgs \ {m} : status'[n] = status[n] /\ started'[n] = started[n]

LEMMA MoveRow ==
  ASSUME NEW m \in Msgs, Elsewhere(m), UNCHANGED accepted
  PROVE  Lifecycle!Move(m, Life(m), Life(m)')
<1>1. ASSUME NEW n \in Msgs \ {m} PROVE Life(n)' = Life(n)
  BY <1>1 DEF Elsewhere, Life
<1> QED BY <1>1, OneMove

\* The values Life takes, before and after a step.
LEMMA LifeValues ==
  ASSUME NEW m \in Msgs
  PROVE  /\ status[m] = "none" => Life(m) = "absent"
         /\ status[m] \in Claimable => Life(m) = "open"
         /\ status[m] = "PROCESSING" /\ started[m] => Life(m) = "handed"
         /\ status[m] = "PROCESSING" /\ ~started[m] => Life(m) = "claimed"
         /\ status[m] = "SENT" => Life(m) = "sent"
         /\ status[m] \in {"FAILED", "DEAD"} => Life(m) = "failed"
         /\ status[m] = "DELIVERY_UNCERTAIN" => Life(m) = "uncertain"
BY DEF Life, Claimable

LEMMA LifeValuesNext ==
  ASSUME NEW m \in Msgs
  PROVE  /\ status'[m] \in Claimable => Life(m)' = "open"
         /\ status'[m] = "PROCESSING" /\ started'[m] => Life(m)' = "handed"
         /\ status'[m] = "PROCESSING" /\ ~started'[m] => Life(m)' = "claimed"
         /\ status'[m] = "SENT" => Life(m)' = "sent"
         /\ status'[m] \in {"FAILED", "DEAD"} => Life(m)' = "failed"
         /\ status'[m] = "DELIVERY_UNCERTAIN" => Life(m)' = "uncertain"
BY DEF Life, Claimable

Refined == Lifecycle!Next \/ UNCHANGED Lifecycle!vars

LEMMA RefineHandler ==
  ASSUME SoleHandler, TypeOK, BasicInv, DeliveryInv, NEW x \in Handlers, Handle(x)
  PROVE  Refined
<1> DEFINE m == Msg(x)
<1>1. /\ AcceptedIsAccounted /\ HandlerInv(x) /\ LeaseMatchesStatus
      /\ (pc[x] = "sent" => m \in accepted)
  BY DEF DeliveryInv, BasicInv
<1>2. m \in Msgs
  BY HandlerBusy DEF TypeOK, HandlerType, Msg
<1>3. CASE UNCHANGED row /\ UNCHANGED accepted
  BY <1>3, SameLife DEF Refined, row
<1>4. CASE Claim(x)
  <2>1. CASE CanClaim(m) /\ ClaimFor(m, HostOf[x])
    <3>1. Elsewhere(m) /\ UNCHANGED accepted /\ status'[m] = "PROCESSING" /\ ~started'[m]
      BY <1>2, <1>4, <2>1 DEF Elsewhere, ClaimFor, Claim, TypeOK, RowType
    <3>2. Lifecycle!Move(m, Life(m), "claimed")
      BY <1>2, <3>1, MoveRow, LifeValuesNext
    <3>3. Life(m) \in {"open", "claimed"}
      BY <1>2, <2>1, LifeValues DEF CanClaim
    <3>4. CASE Life(m) = "open"
      BY <1>2, <3>2, <3>4 DEF Refined, Lifecycle!Next, Lifecycle!Claim
    <3>5. CASE Life(m) = "claimed"
      <4>1. \A n \in Msgs : Life(n)' = Life(n)
        BY <1>2, <3>1, <3>5, LifeValuesNext DEF Elsewhere, Life
      <4> QED BY <3>1, <4>1, NoMove DEF Refined
    <3> QED BY <3>3, <3>4, <3>5
  <2>2. UNCHANGED accepted /\ (UNCHANGED row \/ (CanClaim(m) /\ ClaimFor(m, HostOf[x])))
    BY <1>4 DEF Claim
  <2> QED BY <1>3, <2>1, <2>2
<1>5. CASE Start(x)
  <2>1. CASE CanStart(x) /\ started' = [started EXCEPT ![m] = TRUE]
    <3>1. Elsewhere(m) /\ UNCHANGED accepted /\ status'[m] = "PROCESSING" /\ started'[m]
      BY <1>2, <1>5, <2>1 DEF Elsewhere, Start, CanStart, TypeOK, RowType
    <3>2. status[m] = "PROCESSING" /\ ~started[m]
      BY <1>1, <1>5, <2>1 DEF Start, CanStart, HandlerInv, Owns
    <3>3. Lifecycle!Move(m, "claimed", "handed")
      BY <1>2, <3>1, <3>2, MoveRow, LifeValues, LifeValuesNext
    <3> QED BY <1>2, <3>3 DEF Refined, Lifecycle!Next, Lifecycle!HandOver
  <2>2. CASE UNCHANGED started
    BY <1>3, <1>5, <2>2 DEF Start, row
  <2> QED BY <1>5, <2>1, <2>2 DEF Start
<1>6. CASE MarkFailed(x)
  <2>1. CASE Owns(x) /\ started[m] /\ started' = [started EXCEPT ![m] = FALSE]
    <3>1. Elsewhere(m) /\ UNCHANGED accepted /\ status'[m] = "PROCESSING" /\ ~started'[m]
      BY <1>2, <1>6, <2>1 DEF Elsewhere, MarkFailed, Owns, TypeOK, RowType
    <3>2. status[m] = "PROCESSING" /\ started[m] /\ m \notin accepted
      BY <1>1, <1>6, <2>1 DEF MarkFailed, HandlerInv, Owns
    <3>3. Lifecycle!Move(m, "handed", "claimed")
      BY <1>2, <3>1, <3>2, MoveRow, LifeValues, LifeValuesNext
    <3> QED BY <1>2, <3>2, <3>3 DEF Refined, Lifecycle!Next, Lifecycle!TakeBack
  <2>2. CASE UNCHANGED started
    BY <1>3, <1>6, <2>2 DEF MarkFailed, row
  <2>3. started' = started \/ (Owns(x) /\ started' = [started EXCEPT ![m] = FALSE])
    BY <1>6 DEF MarkFailed, Owns
  <2>4. started[m] = FALSE => [started EXCEPT ![m] = FALSE] = started
    BY <1>2 DEF TypeOK, RowType
  <2> QED BY <1>2, <2>1, <2>2, <2>3, <2>4 DEF TypeOK, RowType
<1>7. CASE SmtpAccepted(x)
  <2>1. \A n \in Msgs : Life(n)' = Life(n)
    BY <1>7 DEF SmtpAccepted, row, Life
  <2>2. /\ pc[x] = "smtp" /\ accepted' = accepted \union {m} /\ m \notin accepted
        /\ status[m] = "DELIVERY_UNCERTAIN" \/ (status[m] = "PROCESSING" /\ started[m])
    BY <1>1, <1>7 DEF SmtpAccepted, HandlerInv, Owns
  <2>3. Life(m) \in {"handed", "uncertain"}
    BY <1>2, <2>2, LifeValues
  <2>4. Lifecycle!Acknowledge(m)
    BY <1>2, <2>1, <2>2, <2>3 DEF Lifecycle!Acknowledge
  <2> QED BY <1>2, <2>4 DEF Refined, Lifecycle!Next
<1>8. CASE StoreSent(x) \/ StoreRetrying(x) \/ StoreDead(x)
  <2>1. PICK s \in {"SENT", "RETRYING", "FAILED", "DEAD"} :
          /\ Store(x, s) /\ UNCHANGED accepted
          /\ \/ pc[x] = "sent" /\ s = "SENT"
             \/ pc[x] \in {"retrying", "buried"} /\ s # "SENT"
    BY <1>8 DEF StoreSent, StoreRetrying, StoreDead
  <2>2. CASE CanStore(x) /\ Leave(m, s)
    <3>1. Owns(x)
      BY <1>1, <2>1, <2>2, StoreOwns
    <3>2. Elsewhere(m) /\ status'[m] = s
      BY <1>2, <2>1, <2>2 DEF Elsewhere, Leave, TypeOK, RowType
    <3>3. CASE s = "SENT"
      <4>1. m \in accepted /\ status[m] = "PROCESSING" /\ started[m]
        BY <1>1, <2>1, <3>1, <3>3 DEF AcceptedIsAccounted, Owns
      <4>2. Lifecycle!Move(m, "handed", "sent")
        BY <1>2, <2>1, <3>2, <3>3, <4>1, MoveRow, LifeValues, LifeValuesNext
      <4> QED BY <1>2, <4>1, <4>2 DEF Refined, Lifecycle!Next, Lifecycle!Settle
    <3>4. CASE s # "SENT"
      <4>1. status[m] = "PROCESSING" /\ ~started[m]
        BY <1>1, <2>1, <3>1, <3>4 DEF HandlerInv, Owns
      <4>2. Lifecycle!Move(m, "claimed", IF s = "RETRYING" THEN "open" ELSE "failed")
        BY <1>2, <2>1, <3>2, <3>4, <4>1, MoveRow, LifeValues, LifeValuesNext DEF Claimable
      <4> QED BY <1>2, <4>2 DEF Refined, Lifecycle!Next, Lifecycle!Reopen, Lifecycle!GiveUp
    <3> QED BY <3>3, <3>4
  <2>3. UNCHANGED row \/ (CanStore(x) /\ Leave(m, s))
    BY <2>1 DEF Store
  <2> QED BY <1>3, <2>1, <2>2, <2>3
<1>9. CASE ~ \/ Claim(x) \/ Start(x) \/ MarkFailed(x) \/ SmtpAccepted(x)
             \/ StoreSent(x) \/ StoreRetrying(x) \/ StoreDead(x)
  <2>1. UNCHANGED row /\ UNCHANGED accepted
    BY <1>9 DEF Handle, Load, DeadLetterMalformed, Prepare, SmtpFailed, PublishRetry,
       PublishRetryFailed, PublishDeadLetter, AckDone
  <2> QED BY <1>3, <2>1
<1> QED BY <1>4, <1>5, <1>6, <1>7, <1>8, <1>9

\* The recovery of the expired leases S.
RecoverSome(t, S, p) ==
  /\ \A m \in S : Expired(m)
  /\ status' = [m \in Msgs |-> IF m \in S THEN RecoveredStatus(m) ELSE status[m]]
  /\ owner' = [m \in Msgs |-> IF m \in S THEN None ELSE owner[m]]
  /\ lease' = [m \in Msgs |-> IF m \in S THEN "none" ELSE lease[m]]
  /\ Advance(t, p, {}, None)
  /\ UNCHANGED <<started, broker, dlq, hand, api, up, accepted>>

LEMMA RefineRecover ==
  ASSUME TypeOK, NEW t \in Ticks, NEW S \in SUBSET Msgs, NEW p, RecoverSome(t, S, p)
  PROVE  Refined
<1>1. /\ UNCHANGED <<accepted, started>> /\ \A m \in S : Expired(m)
      /\ \A m \in Msgs : status'[m] = IF m \in S THEN RecoveredStatus(m) ELSE status[m]
  BY DEF RecoverSome
<1>2. ASSUME NEW m \in Msgs \ S PROVE Life(m)' = Life(m)
  BY <1>1, <1>2 DEF Life
<1>3. ASSUME NEW m \in S
      PROVE  /\ Life(m) \in {"claimed", "handed"}
             /\ Life(m)' = IF Life(m) = "claimed" THEN "open" ELSE "uncertain"
  <2>1. status[m] = "PROCESSING" /\ status'[m] = RecoveredStatus(m) /\ m \in Msgs
    BY <1>1, <1>3 DEF Expired
  <2>2. CASE started[m]
    BY <2>1, <2>2, LifeValues, LifeValuesNext DEF RecoveredStatus
  <2>3. CASE ~started[m]
    <3>1. status'[m] \in Claimable
      BY <2>1, <2>3 DEF RecoveredStatus, Claimable
    <3> QED BY <2>1, <2>3, <3>1, LifeValues, LifeValuesNext
  <2> QED BY <2>2, <2>3
<1>4. CASE S = {}
  BY <1>1, <1>2, <1>4, NoMove DEF Refined
<1>5. CASE S # {}
  <2>1. [m \in Msgs |-> Life(m)]' =
          [m \in Msgs |-> IF m \notin S THEN Life(m)
                          ELSE IF Life(m) = "claimed" THEN "open" ELSE "uncertain"]
    BY <1>2, <1>3
  <2>2. \A m \in S : [n \in Msgs |-> Life(n)][m] \in {"claimed", "handed"}
    BY <1>3
  <2>3. Lifecycle!Expire(S)
    BY <1>1, <1>5, <2>1, <2>2 DEF Lifecycle!Expire
  <2> QED BY <2>3 DEF Refined, Lifecycle!Next
<1> QED BY <1>4, <1>5

LEMMA RefineOther ==
  ASSUME TypeOK,
         \/ ApiNext
         \/ \E x \in Handlers, c \in Copies : Deliver(x, c)
         \/ \E t \in Ticks : Reconcile(t)
         \/ \E m \in Msgs : LeaseExpires(m)
         \/ \E c \in Copies : RetryDue(c)
         \/ \E w \in Workers : Crash(w) \/ Disconnect(w)
  PROVE  Refined
<1> DEFINE Same == \A n \in Msgs :
             \/ status'[n] = status[n] /\ started'[n] = started[n]
             \/ /\ {status[n], status'[n]} \subseteq Claimable
                /\ started'[n] = started[n]
<1>1. ASSUME UNCHANGED accepted, Same PROVE Refined
  BY <1>1, SameLife DEF Refined
<1>2. ASSUME NEW S, NEW s \in {"QUEUED", "ENQUEUE_PENDING", "PENDING"}, SetStatus(S, s),
             \A m \in S : status[m] \in {"ENQUEUE_PENDING", "PENDING"}
      PROVE  Same
  BY <1>2 DEF SetStatus, Claimable
<1>3. ASSUME NEW m \in Msgs, MarkQueued(m) PROVE Same
  BY <1>2, <1>3 DEF MarkQueued
<1>4. ASSUME NEW m \in Msgs, Accept(m) PROVE Refined
  <2>1. Elsewhere(m) /\ UNCHANGED accepted /\ status'[m] \in Claimable /\ status[m] = "none"
    BY <1>4 DEF Accept, Elsewhere, Claimable, TypeOK, RowType
  <2>2. Lifecycle!Move(m, "absent", "open")
    BY <2>1, MoveRow, LifeValues, LifeValuesNext
  <2> QED BY <2>2 DEF Refined, Lifecycle!Next, Lifecycle!Submit
<1>5. ASSUME NEW m \in Msgs, ApiPublish(m) \/ ApiMarkQueued(m) PROVE Refined
  BY <1>1, <1>3, <1>5 DEF ApiPublish, ApiMarkQueued, row
<1>6. ASSUME NEW t \in Ticks, Reconcile(t), ~ Recover(t) PROVE Refined
  <2>1. UNCHANGED accepted
    BY <1>6 DEF Reconcile, ReleaseStale, ClaimDue, Republish, RepublishFailed, TickMarkQueued,
       ReleaseClaim, TickThrows
  <2>2. Same
    <3>1. CASE ReleaseStale(t)
      BY <3>1, <1>2 DEF ReleaseStale
    <3>2. CASE ClaimDue(t)
      BY <3>2, <1>2 DEF ClaimDue
    <3>3. CASE TickThrows(t) \/ \E m \in Msgs : Republish(t, m) \/ RepublishFailed(t, m)
      BY <3>3 DEF TickThrows, Republish, RepublishFailed, row
    <3>4. CASE TickMarkQueued(t)
      BY <3>4, <1>3 DEF TickMarkQueued, row, TypeOK, ReconcilerType
    <3>5. CASE ReleaseClaim(t)
      BY <3>5, <1>2 DEF ReleaseClaim
    <3> QED BY <1>6, <3>1, <3>2, <3>3, <3>4, <3>5 DEF Reconcile
  <2> QED BY <2>1, <2>2, <1>1
<1>7. CASE \/ \E x \in Handlers, c \in Copies : Deliver(x, c)
           \/ \E m \in Msgs : LeaseExpires(m)
           \/ \E c \in Copies : RetryDue(c)
           \/ \E w \in Workers : Crash(w) \/ Disconnect(w)
  BY <1>7, <1>1 DEF Deliver, LeaseExpires, RetryDue, Crash, Disconnect, row
<1>8. ASSUME NEW t \in Ticks, Recover(t) PROVE Refined
  <2>1. RecoverSome(t, {m \in Msgs : Expired(m)}, "release")
    BY <1>8 DEF Recover, RecoverSome
  <2> QED BY <2>1, RefineRecover
<1> QED BY <1>4, <1>5, <1>6, <1>7, <1>8 DEF ApiNext

LEMMA RefineInit == Init => Lifecycle!Init
BY LifeValues DEF Init, Lifecycle!Init

LEMMA RefineStep ==
  SoleHandler /\ TypeOK /\ BasicInv /\ DeliveryInv /\ [Next]_vars
    => [Lifecycle!Next]_(Lifecycle!vars)
<1> SUFFICES ASSUME SoleHandler, TypeOK, BasicInv, DeliveryInv, [Next]_vars
             PROVE  Refined
  BY DEF Refined
<1>1. CASE UNCHANGED vars
  BY <1>1, SameLife DEF vars, Refined
<1>2. CASE Next
  BY <1>2, RefineHandler, RefineOther DEF Next
<1> QED BY <1>1, <1>2

\* With one handler to a worker id, the queue, the leases and the reconciler
\* together implement what a client is promised of a message.
THEOREM Refinement == SoleHandler /\ Spec => ImplementsLifecycle
<1>1. Spec => [](TypeOK /\ BasicInv)
  BY TypeCorrect, BasicInvariant, PTL
<1>2. CASE SoleHandler
  <2>1. TypeOK /\ BasicInv /\ DeliveryInv /\ [Next]_vars => [Lifecycle!Next]_(Lifecycle!vars)
    BY <1>2, RefineStep
  <2>2. Spec => []DeliveryInv
    BY <1>2, DeliveryCorrect, PTL
  <2> QED BY <1>1, <2>1, <2>2, RefineInit, PTL DEF Spec, ImplementsLifecycle, Lifecycle!Spec
<1> QED BY <1>2


-----------------------------------------------------------------------------
(***************************************************************************)
(* Where nothing is slower than the timeouts allow and the database answers, *)
(* a row the reconciler does not look at has a copy on its way: CarriedInv is *)
(* inductive.                                                               *)
(***************************************************************************)

\* What a step of x does to the copies: those in a queue stay there, and a handler
\* keeps the one it holds or returns it. If acked, that of x may be gone.
Moves(x, acked) ==
  /\ \A c \in Copies : broker[c].at \in {"main", "retry"} => broker'[c] = broker[c]
  /\ \A y \in Handlers :
       \/ /\ held'[y] = held[y] /\ work'[y] = work[y]
          /\ y # x => pc'[y] = pc[y]
          /\ y = x => pc'[y] # "idle"
          /\ held[y] # None => broker'[held[y]] = broker[held[y]]
       \/ /\ held'[y] = None /\ pc'[y] = "idle"
          /\ held[y] # None /\ (y # x \/ ~acked) =>
               broker'[held[y]].at = "main" /\ broker'[held[y]].msg = broker[held[y]].msg
  /\ \A t \in Ticks : \/ tick'[t] = tick[t] /\ todo'[t] = todo[t] /\ cur'[t] = cur[t]
                      \/ tick'[t] = "idle" /\ todo'[t] = {}

LEMMA MainCopy ==
  ASSUME TypeOK
  PROVE  \A c \in Copies : /\ [broker[c] EXCEPT !.at = "main"].at = "main"
                           /\ [broker[c] EXCEPT !.at = "main"].msg = broker[c].msg
BY Moved DEF TypeOK, BrokerType, Place

LEMMA ExitCopies ==
  ASSUME TypeOK, NEW w, Exit(w)
  PROVE  /\ \A c \in Copies : broker[c].at \in {"main", "retry"} => broker'[c] = broker[c]
         /\ \A y \in Handlers :
              IF HostOf[y] = w
              THEN /\ held'[y] = None /\ pc'[y] = "idle"
                   /\ held[y] # None =>
                        broker'[held[y]].at = "main" /\ broker'[held[y]].msg = broker[held[y]].msg
              ELSE /\ held'[y] = held[y] /\ work'[y] = work[y] /\ pc'[y] = pc[y]
                   /\ held[y] # None => broker'[held[y]] = broker[held[y]]
         /\ \A t \in Ticks : \/ tick'[t] = tick[t] /\ todo'[t] = todo[t] /\ cur'[t] = cur[t]
                             \/ tick'[t] = "idle" /\ todo'[t] = {}
<1>1. ASSUME NEW c \in Copies, broker[c].at \in {"main", "retry"} PROVE broker'[c] = broker[c]
  BY <1>1, ConstantsAssumption DEF Exit, Requeue, HandlersOf, TypeOK, HandlerType
<1>2. ASSUME NEW y \in Handlers, HostOf[y] = w
      PROVE  /\ held'[y] = None /\ pc'[y] = "idle"
             /\ held[y] # None =>
                  broker'[held[y]].at = "main" /\ broker'[held[y]].msg = broker[held[y]].msg
  <2>1. held[y] # None => broker'[held[y]] = [broker[held[y]] EXCEPT !.at = "main"]
    BY <1>2 DEF Exit, Requeue, HandlersOf, TypeOK, HandlerType
  <2>2. held[y] # None => held[y] \in Copies
    BY DEF TypeOK, HandlerType
  <2>3. held[y] # None =>
          broker'[held[y]].at = "main" /\ broker'[held[y]].msg = broker[held[y]].msg
    BY <2>1, <2>2, MainCopy
  <2> QED BY <1>2, <2>3 DEF Exit
<1>3. ASSUME NEW y \in Handlers, HostOf[y] # w
      PROVE  /\ held'[y] = held[y] /\ work'[y] = work[y] /\ pc'[y] = pc[y]
             /\ held[y] # None => broker'[held[y]] = broker[held[y]]
  BY <1>3 DEF Exit, Requeue, HandlersOf, TypeOK, HandlerType
<1>4. ASSUME NEW t \in Ticks
      PROVE  \/ tick'[t] = tick[t] /\ todo'[t] = todo[t] /\ cur'[t] = cur[t]
             \/ tick'[t] = "idle" /\ todo'[t] = {}
  <2>1. /\ tick' = [u \in Ticks |-> IF HostOf[u] = w THEN "idle" ELSE tick[u]]
        /\ todo' = [u \in Ticks |-> IF HostOf[u] = w THEN {} ELSE todo[u]]
        /\ cur' = [u \in Ticks |-> IF HostOf[u] = w THEN None ELSE cur[u]]
    BY DEF Exit
  <2> QED BY <2>1
<1> QED BY <1>1, <1>2, <1>3, <1>4

LEMMA ExitMoves ==
  ASSUME TypeOK, NEW w, Exit(w), NEW x \in Handlers, NEW a \in BOOLEAN, pc[x] # "idle"
  PROVE  Moves(x, a)
BY ExitCopies DEF Moves

LEMMA FinishMoves ==
  ASSUME TypeOK, NEW x \in Handlers, Finish(x), held[x] # None, NEW a \in BOOLEAN,
         \A c \in Copies \ {held[x]} : broker[c].at # "free" => broker'[c] = broker[c],
         ~a => broker'[held[x]].at = "main" /\ broker'[held[x]].msg = broker[held[x]].msg
  PROVE  Moves(x, a)
<1>1. ASSUME NEW c \in Copies, broker[c].at \in {"main", "retry"} PROVE broker'[c] = broker[c]
  BY <1>1 DEF TypeOK, HandlerType
<1>2. ASSUME NEW y \in Handlers, y # x
      PROVE  /\ held'[y] = held[y] /\ work'[y] = work[y] /\ pc'[y] = pc[y]
             /\ held[y] # None => broker'[held[y]] = broker[held[y]]
  BY <1>2 DEF Finish, TypeOK, HandlerType
<1>3. held'[x] = None /\ pc'[x] = "idle"
  BY DEF Finish, TypeOK, HandlerType
<1>4. \A t \in Ticks : tick'[t] = tick[t] /\ todo'[t] = todo[t] /\ cur'[t] = cur[t]
  BY DEF Finish, recon
<1> QED BY <1>1, <1>2, <1>3, <1>4 DEF Moves

LEMMA ReturnMoves ==
  ASSUME TypeOK, NEW x \in Handlers, pc[x] # "idle"
  PROVE  (Ack(x) => Moves(x, TRUE)) /\ (Nack(x) => Moves(x, FALSE))
<1>1. ASSUME Ack(x) PROVE Moves(x, TRUE)
  <2>1. CASE held[x] # None /\ broker' = [broker EXCEPT ![held[x]] = NoCopy] /\ Finish(x)
    BY <2>1, FinishMoves DEF TypeOK, BrokerType
  <2> QED BY <1>1, <2>1, ExitMoves DEF Ack
<1>2. ASSUME Nack(x) PROVE Moves(x, FALSE)
  <2>1. CASE held[x] # None /\ broker' = [broker EXCEPT ![held[x]].at = "main"] /\ Finish(x)
    <3>1. held[x] \in Copies
      BY <2>1 DEF TypeOK, HandlerType
    <3> QED BY <2>1, <3>1, FinishMoves, MainCopy DEF TypeOK, BrokerType
  <2> QED BY <1>2, <2>1, ExitMoves DEF Nack
<1> QED BY <1>1, <1>2

LEMMA StepMoves ==
  ASSUME TypeOK, NEW x \in Handlers, NEW p, p # "idle", Step(x, p),
         \A c \in Copies : broker[c].at # "free" => broker'[c] = broker[c]
  PROVE  Moves(x, FALSE)
BY DEF Step, recon, Moves, TypeOK, HandlerType

LEMMA GotoMoves ==
  ASSUME TypeOK, NEW x \in Handlers,
         (\E p : p # "idle" /\ Goto(x, p)) \/ \E e : Throw(x, e)
  PROVE  Moves(x, FALSE)
BY StepMoves DEF Goto, Throw


\* A copy is lost only where its handler acks it or is about to.
LEMMA MovesKeep ==
  ASSUME TypeOK, CarriedInv, NEW x \in Handlers, NEW a \in BOOLEAN, Moves(x, a),
         NEW m \in Msgs, Carried(m), m # Msg(x) \/ pc[x] = "ack" \/ (~a /\ pc'[x] # "ack")
  PROVE  Carried(m)'
<1>1. CASE \E c \in Copies : broker[c].at \in {"main", "retry"} /\ broker[c].msg = m
  BY <1>1 DEF Moves, Carried
<1>2. ASSUME NEW y \in Handlers, held[y] # None, pc[y] \notin {"idle", "ack"}, Msg(y) = m
      PROVE  Carried(m)'
  <2>1. held[y] \in Copies /\ broker[held[y]].msg = m
    BY <1>2 DEF TypeOK, HandlerType, CarriedInv, CarriedRow, CarriedHandler
  <2>2. CASE held'[y] = None /\ broker'[held[y]].at = "main" /\ broker'[held[y]].msg = m
    BY <2>1, <2>2 DEF Carried
  <2>3. CASE held'[y] = held[y] /\ work'[y] = work[y] /\ pc'[y] \notin {"idle", "ack"}
    BY <1>2, <2>3 DEF Carried, Msg
  <2>4. y = x => ~a /\ pc'[x] # "ack"
    BY <1>2
  <2>5. CASE y = x
    BY <1>2, <2>1, <2>2, <2>3, <2>4, <2>5 DEF Moves
  <2>6. CASE y # x
    BY <1>2, <2>1, <2>2, <2>3, <2>6 DEF Moves
  <2> QED BY <2>5, <2>6
<1> QED BY <1>1, <1>2 DEF Carried

LEMMA RetryCarries ==
  ASSUME NEW x \in Handlers, RetryWaits(x),
         \A c \in Copies : broker[c].at \in {"main", "retry"} => broker'[c] = broker[c]
  PROVE  Carried(Msg(x)) /\ \A m \in Msgs : m = Msg(x) => Carried(m)'
BY DEF RetryWaits, Carried

LEMMA RetryFailedMoves ==
  ASSUME TypeOK, NEW x \in Handlers, PublishRetryFailed(x)
  PROVE  Moves(x, FALSE) /\ pc'[x] # "ack"
<1>1. pc[x] # "idle"
  BY DEF PublishRetryFailed
<1>2. CASE Nack(x)
  BY <1>1, <1>2, ReturnMoves DEF Nack, Finish, Exit, TypeOK, HandlerType
<1>3. CASE ~ Nack(x)
  <2> DEFINE r == [at |-> "retry", msg |-> Msg(x), attempt |-> Attempt(x) + 1]
  <2>1. held[x] # None /\ held[x] \in Copies /\ Finish(x)
    BY <1>3 DEF PublishRetryFailed, TypeOK, HandlerType
  <2>2. PICK c \in Copies : /\ broker[c].at = "free"
                           /\ broker' = [broker EXCEPT ![c] = r, ![held[x]].at = "main"]
    BY <1>3 DEF PublishRetryFailed
  <2>3. c # held[x]
    BY <2>1, <2>2 DEF TypeOK, HandlerType
  <2> HIDE DEF r
  <2>4. /\ broker'[held[x]] = [broker[held[x]] EXCEPT !.at = "main"]
        /\ \A d \in Copies \ {held[x], c} : broker'[d] = broker[d]
    BY <2>1, <2>2, <2>3 DEF TypeOK, BrokerType
  <2>5. Moves(x, FALSE)
    BY <2>1, <2>2, <2>4, FinishMoves, MainCopy
  <2> QED BY <2>1, <2>5 DEF Finish, TypeOK, HandlerType
<1> QED BY <1>2, <1>3

\* No step of a handler takes the last copy of a row that stays open to a claim.
HandlerKeeps(x) ==
  /\ \E a \in BOOLEAN : Moves(x, a)
  /\ \A m \in Msgs : Carried(m) /\ status'[m] \in Claimable => Carried(m)'

LEMMA HandlerCarries ==
  ASSUME TypeOK, Timely, CarriedInv, NEW x \in Handlers, Handle(x)
  PROVE  HandlerKeeps(x)
<1>1. pc[x] # "idle" /\ "db" \notin Faults /\ Msg(x) \in Msgs /\ pc[x] # "malformed"
  BY HandlerBusy DEF Timely, TypeOK, HandlerType, Msg, CarriedInv, CarriedRow, CarriedHandler
<1>2. ASSUME Moves(x, FALSE), pc'[x] # "ack" PROVE HandlerKeeps(x)
  BY <1>2, MovesKeep DEF HandlerKeeps
<1>3. ASSUME Ack(x), status'[Msg(x)] \notin Claimable \/ pc[x] = "ack" PROVE HandlerKeeps(x)
  BY <1>1, <1>3, ReturnMoves, MovesKeep DEF HandlerKeeps
<1>4. ASSUME Nack(x) PROVE HandlerKeeps(x)
  <2>1. pc'[x] # "ack"
    BY <1>1, <1>4 DEF Nack, Finish, Exit, TypeOK, HandlerType
  <2> QED BY <1>1, <1>2, <1>4, <2>1, ReturnMoves
<1>5. ASSUME NEW p, p \notin {"idle", "ack"}, Goto(x, p) PROVE HandlerKeeps(x)
  <2>1. pc'[x] # "ack"
    BY <1>5 DEF Goto, Step, TypeOK, HandlerType
  <2> QED BY <1>2, <1>5, <2>1, GotoMoves
<1>6. ASSUME NEW e, Throw(x, e) PROVE HandlerKeeps(x)
  <2>1. pc'[x] # "ack"
    BY <1>6 DEF Throw, Step, TypeOK, HandlerType
  <2> QED BY <1>2, <1>6, <2>1, GotoMoves
<1>7. ASSUME Goto(x, "ack"), status'[Msg(x)] \notin Claimable \/ RetryWaits(x) PROVE HandlerKeeps(x)
  <2>1. Moves(x, FALSE)
    BY <1>7, GotoMoves
  <2>2. RetryWaits(x) => \A m \in Msgs : m = Msg(x) => Carried(m)'
    BY <2>1, RetryCarries DEF Moves
  <2>3. \A m \in Msgs : Carried(m) /\ m # Msg(x) => Carried(m)'
    BY <2>1, MovesKeep
  <2> QED BY <1>1, <1>7, <2>1, <2>2, <2>3 DEF HandlerKeeps
<1>8. Terminal \intersect Claimable = {} /\ "RETRYING" \notin Terminal
  BY DEF Terminal, Claimable
<1>9. CASE Load(x) \/ AckDone(x)
  BY <1>1, <1>3, <1>5, <1>8, <1>9 DEF Load, AckDone, row
<1>10. CASE Claim(x)
  BY <1>1, <1>3, <1>5, <1>10 DEF Claim, CanClaim, row
<1>11. CASE Prepare(x) \/ Start(x) \/ SmtpAccepted(x) \/ SmtpFailed(x)
  BY <1>5, <1>6, <1>11 DEF Prepare, Start, SmtpAccepted, SmtpFailed
<1>12. CASE MarkFailed(x) \/ PublishDeadLetter(x) \/ PublishRetryFailed(x)
  BY <1>2, <1>4, <1>5, <1>12, RetryFailedMoves DEF MarkFailed, PublishDeadLetter
<1>13. CASE PublishRetry(x)
  <2>1. \A c \in Copies : broker[c].at # "free" => broker'[c] = broker[c]
    BY <1>13 DEF PublishRetry, Put, TypeOK, BrokerType
  <2>2. Moves(x, FALSE) /\ pc'[x] # "ack"
    BY <1>13, <2>1, StepMoves DEF PublishRetry, Step, TypeOK, HandlerType
  <2> QED BY <1>2, <2>2
<1>14. CASE StoreSent(x) \/ StoreRetrying(x) \/ StoreDead(x)
  <2>1. PICK s \in Terminal \union {"RETRYING"} :
          Store(x, s) /\ (s = "RETRYING" => RetryWaits(x))
    BY <1>8, <1>14 DEF StoreSent, StoreRetrying, StoreDead, Terminal, CarriedInv, CarriedRow, CarriedHandler
  <2>2. CASE CanStore(x) /\ Leave(Msg(x), s) /\ Goto(x, "ack")
    <3>1. status'[Msg(x)] = s
      BY <1>1, <2>2 DEF Leave, TypeOK, RowType
    <3> QED BY <1>7, <1>8, <2>1, <2>2, <3>1
  <2> QED BY <1>4, <2>1, <2>2 DEF Store
<1> QED
  BY <1>1, <1>9, <1>10, <1>11, <1>12, <1>13, <1>14 DEF Handle, DeadLetterMalformed


\* What a handler writes opens a row to another claim only after a published retry,
\* and lets no lease run out.
LEMMA HandlerReopens ==
  ASSUME TypeOK, NEW x \in Handlers, Handle(x), NEW m \in Msgs
  PROVE  /\ status'[m] \in Claimable =>
              \/ status'[m] = status[m]
              \/ m = Msg(x) /\ status'[m] = "RETRYING" /\ pc[x] = "retrying"
         /\ status'[m] = "none" => status[m] = "none"
         /\ lease'[m] = "expired" => lease[m] = "expired"
         /\ UNCHANGED api
<1>1. CASE StoreSent(x) \/ StoreDead(x)
  <2>1. PICK s \in Terminal : Store(x, s)
    BY <1>1 DEF StoreSent, StoreDead, Terminal
  <2>2. UNCHANGED row \/ Leave(Msg(x), s)
    BY <2>1 DEF Store
  <2>3. s \notin Claimable \union {"none"}
    BY DEF Terminal, Claimable
  <2> QED BY <1>1, <2>2, <2>3 DEF Leave, row, StoreSent, StoreDead, TypeOK, RowType
<1>2. CASE StoreRetrying(x)
  <2>1. UNCHANGED row \/ Leave(Msg(x), "RETRYING")
    BY <1>2 DEF StoreRetrying, Store
  <2> QED BY <1>2, <2>1 DEF Leave, row, StoreRetrying, TypeOK, RowType
<1>3. CASE Claim(x)
  BY <1>3 DEF Claim, ClaimFor, row, TypeOK, RowType, Claimable
<1>4. CASE ~ (StoreSent(x) \/ StoreDead(x) \/ StoreRetrying(x) \/ Claim(x))
  BY <1>4 DEF Handle, Load, DeadLetterMalformed, Prepare, Start, SmtpAccepted, SmtpFailed, MarkFailed,
     PublishRetry, PublishRetryFailed, PublishDeadLetter, AckDone, row
<1> QED BY <1>1, <1>2, <1>3, <1>4

LEMMA HandlerPoints ==
  ASSUME TypeOK, Timely, CarriedInv, NEW x \in Handlers, Handle(x)
  PROVE  /\ pc'[x] # "malformed"
         /\ pc'[x] = "retrying" => RetryWaits(x)'
<1>1. "db" \notin Faults /\ pc[x] # "malformed" /\ pc[x] # "idle"
  BY HandlerBusy DEF Timely, CarriedInv, CarriedRow, CarriedHandler
<1>2. ASSUME Ack(x) \/ Nack(x) PROVE pc'[x] = "idle"
  BY <1>2 DEF Ack, Nack, Finish, Exit, TypeOK, HandlerType
<1>3. ASSUME NEW p, Goto(x, p) \/ Step(x, p) PROVE pc'[x] = p
  BY <1>3 DEF Goto, Step, TypeOK, HandlerType
<1>4. ASSUME NEW e, Throw(x, e) PROVE pc'[x] = "failed"
  BY <1>4 DEF Throw, Step, TypeOK, HandlerType
<1>5. ASSUME NEW s, Store(x, s) PROVE pc'[x] \in {"idle", "ack"}
  BY <1>2, <1>3, <1>5 DEF Store
<1>6. CASE PublishRetry(x)
  <2>1. PICK c \in Copies : Put(c, "retry", Msg(x), Attempt(x) + 1)
    BY <1>6 DEF PublishRetry
  <2>2. /\ broker'[c].at = "retry" /\ broker'[c].msg = Msg(x)
        /\ broker'[c].attempt = Attempt(x) + 1
    BY <2>1 DEF Put, TypeOK, BrokerType
  <2>3. Msg(x)' = Msg(x) /\ Attempt(x)' = Attempt(x) /\ pc'[x] = "retrying"
    BY <1>3, <1>6 DEF PublishRetry, Step, Msg, Attempt
  <2> QED BY <2>2, <2>3 DEF RetryWaits
<1>7. CASE Load(x) \/ Claim(x) \/ Prepare(x) \/ Start(x) \/ SmtpAccepted(x) \/ SmtpFailed(x)
  BY <1>1, <1>2, <1>3, <1>4, <1>7 DEF Load, Claim, Prepare, Start, SmtpAccepted, SmtpFailed
<1>8. CASE StoreSent(x) \/ StoreRetrying(x) \/ StoreDead(x)
  BY <1>5, <1>8 DEF StoreSent, StoreRetrying, StoreDead
<1>9. CASE MarkFailed(x) \/ PublishRetryFailed(x) \/ PublishDeadLetter(x) \/ AckDone(x)
  BY <1>2, <1>3, <1>9 DEF MarkFailed, PublishRetryFailed, Finish, TypeOK, HandlerType,
     PublishDeadLetter, AckDone
<1> QED BY <1>1, <1>6, <1>7, <1>8, <1>9 DEF Handle, DeadLetterMalformed

LEMMA CarriedHandlerStep ==
  ASSUME TypeOK, Timely, CarriedInv, NEW x \in Handlers, Handle(x)
  PROVE  CarriedInv'
<1>1. PICK a \in BOOLEAN : Moves(x, a)
  BY HandlerCarries DEF HandlerKeeps
<1>2. ASSUME NEW y \in Handlers
      PROVE  CarriedHandler(y)'
  <2>1. held'[y] # None => broker'[held'[y]].msg = Msg(y)'
    BY <1>1 DEF Moves, CarriedInv, CarriedRow, CarriedHandler, Msg
  <2>2. CASE y = x
    BY <2>1, <2>2, HandlerPoints DEF CarriedHandler
  <2>3. CASE y # x
    <3>1. pc'[y] = "idle" \/ (pc'[y] = pc[y] /\ work'[y] = work[y])
      BY <1>1, <2>3 DEF Moves
    <3>2. RetryWaits(y) /\ work'[y] = work[y] => RetryWaits(y)'
      BY <1>1 DEF Moves, RetryWaits, Msg, Attempt
    <3> QED BY <2>1, <3>1, <3>2 DEF CarriedInv, CarriedRow, CarriedHandler
  <2> QED BY <2>2, <2>3
<1>3. \A t \in Ticks : tick'[t] = "mark" => tick[t] = "mark" /\ cur'[t] = cur[t] /\ todo'[t] = todo[t]
  BY <1>1 DEF Moves
<1>4. ASSUME NEW m \in Msgs
      PROVE  CarriedRow(m)'
  <2>1. Published(m)' => Published(m)
    BY <1>3, HandlerReopens DEF Published
  <2>2. InProgress(m)' => InProgress(m)
    BY <1>1 DEF Moves, InProgress
  <2>3. {"QUEUED", "RETRYING", "ENQUEUE_PENDING", "PENDING"} \subseteq Claimable
    BY DEF Claimable
  <2>4. pc[x] = "retrying" /\ m = Msg(x) => Carried(m)
    BY <1>1, RetryCarries DEF Moves, CarriedInv, CarriedRow, CarriedHandler
  <2>5. status'[m] \in Claimable /\ Carried(m) => Carried(m)'
    BY HandlerCarries DEF HandlerKeeps
  <2> QED BY <2>1, <2>2, <2>3, <2>4, <2>5, HandlerReopens DEF CarriedInv, CarriedRow, CarriedHandler
<1> QED BY <1>2, <1>3, <1>4 DEF CarriedInv


-----------------------------------------------------------------------------
(* The other processes' steps.                                              *)

\* What CarriedInv says of the handlers survives a step that leaves them alone and
\* fills free copies only, and so does every copy.
LEMMA CarriedQuiet ==
  ASSUME CarriedInv, TypeOK, UNCHANGED hand,
         \A c \in Copies : broker[c].at # "free" => broker'[c] = broker[c]
  PROVE  /\ \A x \in Handlers : CarriedHandler(x)'
         /\ \A m \in Msgs : Carried(m) => Carried(m)'
<1>1. ASSUME NEW x \in Handlers
      PROVE  CarriedHandler(x)'
  <2>1. held[x] # None => held[x] \in Copies /\ broker[held[x]].at = "held"
    BY DEF TypeOK, HandlerType
  <2>2. held'[x] # None => broker'[held'[x]].msg = Msg(x)'
    BY <2>1 DEF CarriedInv, CarriedRow, CarriedHandler, Msg, hand
  <2>3. RetryWaits(x) => RetryWaits(x)'
    BY DEF RetryWaits, Msg, Attempt, hand
  <2> QED BY <2>2, <2>3 DEF CarriedInv, CarriedRow, CarriedHandler, hand
<1>2. ASSUME NEW m \in Msgs, Carried(m) PROVE Carried(m)'
  BY <1>2 DEF Carried, Msg, hand
<1> QED BY <1>1, <1>2

LEMMA CarriedApi ==
  ASSUME TypeOK, BasicInv, CarriedInv, Timely, ApiNext
  PROVE  CarriedInv'
<1>1. ASSUME NEW m \in Msgs, Accept(m) PROVE CarriedInv'
  <2>1. /\ UNCHANGED <<broker, hand, recon, lease>> /\ status[m] = "none"
        /\ status' = [status EXCEPT ![m] = "ENQUEUE_PENDING"] /\ api' = [api EXCEPT ![m] = "publish"]
    BY <1>1 DEF Accept
  <2>2. lease[m] # "expired" /\ ~InProgress(m)
    BY <2>1 DEF BasicInv, LeaseMatchesStatus, CarriedInv, CarriedRow, CarriedHandler
  <2>3. \A n \in Msgs : (InProgress(n)' <=> InProgress(n)) /\ (n # m => (Published(n)' <=> Published(n)))
    BY <2>1 DEF InProgress, Published, recon, TypeOK, RowType
  <2>4. ~ Published(m)'
    BY <2>1, <2>2 DEF Published, InProgress, CarriedInv, recon, TypeOK, RowType
  <2>5. ASSUME NEW n \in Msgs
        PROVE  CarriedRow(n)'
    <3>1. Carried(n) => Carried(n)'
      BY <2>1, CarriedQuiet
    <3>2. CASE n = m
      BY <2>1, <2>2, <2>3, <2>4, <3>2 DEF CarriedRow, TypeOK, RowType
    <3>3. CASE n # m
      BY <2>1, <2>3, <3>1, <3>3 DEF CarriedInv, CarriedRow, CarriedHandler, TypeOK, RowType
    <3> QED BY <3>2, <3>3
  <2>6. \A t \in Ticks : tick'[t] = "mark" => cur'[t] \in todo'[t]
    BY <2>1 DEF CarriedInv, recon
  <2> QED BY <2>1, <2>5, <2>6, CarriedQuiet DEF CarriedInv, CarriedRow, CarriedHandler
<1>2. ASSUME NEW m \in Msgs, ApiPublish(m) PROVE CarriedInv'
  <2>1. UNCHANGED row /\ UNCHANGED hand /\ UNCHANGED recon /\ api[m] = "publish"
    BY <1>2 DEF ApiPublish
  <2>2. \A c \in Copies : broker[c].at # "free" => broker'[c] = broker[c]
    BY <1>2 DEF ApiPublish, PutUnconfirmed, Put, TypeOK, BrokerType
  <2>3. \/ api' = [api EXCEPT ![m] = "done"]
        \/ api' = [api EXCEPT ![m] = "mark"] /\ Carried(m)'
    <3>1. ASSUME NEW c \in Copies, Put(c, "main", m, 0) PROVE Carried(m)'
      BY <3>1 DEF Put, Carried, TypeOK, BrokerType
    <3> QED BY <1>2, <3>1 DEF ApiPublish
  <2>4. ASSUME NEW n \in Msgs
        PROVE  CarriedRow(n)'
    <3>1. Carried(n) => Carried(n)'
      BY <2>1, <2>2, CarriedQuiet
    <3>2. InProgress(n)' <=> InProgress(n)
      BY <2>1 DEF InProgress, recon
    <3>3. Published(n)' => Published(n) \/ Carried(n)'
      BY <2>1, <2>3 DEF Published, recon, TypeOK, RowType
    <3>4. api'[n] \in {"publish", "mark"} => api[n] \in {"publish", "mark"}
      BY <2>1, <2>3 DEF TypeOK, RowType
    <3> QED BY <2>1, <3>1, <3>2, <3>3, <3>4 DEF CarriedInv, CarriedRow, CarriedHandler, row
  <2>5. \A t \in Ticks : tick'[t] = "mark" => cur'[t] \in todo'[t]
    BY <2>1 DEF CarriedInv, recon
  <2> QED BY <2>1, <2>2, <2>4, <2>5, CarriedQuiet DEF CarriedInv, CarriedRow, CarriedHandler
<1>3. ASSUME NEW m \in Msgs, ApiMarkQueued(m) PROVE CarriedInv'
  <2>1. /\ UNCHANGED <<broker, hand, recon, lease>> /\ api[m] = "mark"
        /\ api' = [api EXCEPT ![m] = "done"] /\ (MarkQueued(m) \/ UNCHANGED row)
    BY <1>3 DEF ApiMarkQueued, MarkQueued, SetStatus, row
  <2>2. ASSUME NEW n \in Msgs
        PROVE  status'[n] = status[n] \/ (status'[n] = "QUEUED" /\ Carried(n))
    BY <2>1 DEF MarkQueued, SetStatus, row, CarriedInv, CarriedRow, CarriedHandler, Published
  <2>3. ASSUME NEW n \in Msgs
        PROVE  CarriedRow(n)'
    <3>1. Carried(n) => Carried(n)'
      BY <2>1, CarriedQuiet
    <3>2. (InProgress(n)' <=> InProgress(n)) /\ (Published(n)' => Published(n))
      BY <2>1 DEF InProgress, Published, recon, TypeOK, RowType
    <3>3. api'[n] \in {"publish", "mark"} => api[n] \in {"publish", "mark"}
      BY <2>1 DEF TypeOK, RowType
    <3> QED BY <2>1, <2>2, <3>1, <3>2, <3>3 DEF CarriedInv, CarriedRow, CarriedHandler
  <2>4. \A t \in Ticks : tick'[t] = "mark" => cur'[t] \in todo'[t]
    BY <2>1 DEF CarriedInv, recon
  <2> QED BY <2>1, <2>3, <2>4, CarriedQuiet DEF CarriedInv, CarriedRow, CarriedHandler
<1> QED BY <1>1, <1>2, <1>3 DEF ApiNext

\* A tick that takes up nothing new keeps the invariant if what it writes to a row
\* opens no lease, and marks or reopens only rows that are carried.
LEMMA CarriedTick ==
  ASSUME TypeOK, CarriedInv, UNCHANGED hand, UNCHANGED api,
         \A c \in Copies : broker[c].at # "free" => broker'[c] = broker[c],
         NEW t \in Ticks, NEW p, p # "mark", NEW S, S \subseteq todo[t], NEW n, Advance(t, p, S, n),
         \A m \in Msgs :
           /\ status'[m] = "none" => status[m] = "none"
           /\ lease'[m] = "expired" => lease[m] = "expired"
           /\ status'[m] \in {"QUEUED", "RETRYING"} => status'[m] = status[m] \/ Carried(m)
           /\ status'[m] \in {"ENQUEUE_PENDING", "PENDING"} /\ Published(m) =>
                status[m] \in {"ENQUEUE_PENDING", "PENDING"}
  PROVE  CarriedInv'
<1>1. ASSUME NEW u \in Ticks
      PROVE  /\ todo'[u] \subseteq todo[u]
             /\ tick'[u] = "mark" => tick[u] = "mark" /\ cur'[u] = cur[u] /\ todo'[u] = todo[u]
  BY DEF Advance, TypeOK, ReconcilerType
<1>2. \A u \in Ticks : tick'[u] = "mark" => cur'[u] \in todo'[u]
  BY <1>1 DEF CarriedInv
<1>3. ASSUME NEW m \in Msgs PROVE CarriedRow(m)'
  <2>1. (Published(m)' => Published(m)) /\ (InProgress(m)' => InProgress(m))
    BY <1>1 DEF Published, InProgress
  <2>2. Carried(m) => Carried(m)'
    BY CarriedQuiet
  <2> QED BY <2>1, <2>2 DEF CarriedInv, CarriedRow
<1> QED BY <1>2, <1>3, CarriedQuiet DEF CarriedInv

LEMMA CarriedClaimDue ==
  ASSUME TypeOK, BasicInv, CarriedInv, NEW t \in Ticks, ClaimDue(t)
  PROVE  CarriedInv'
<1>1. UNCHANGED hand /\ UNCHANGED <<broker, api, lease>>
  BY DEF ClaimDue, SetStatus
<1>2. PICK S \in SUBSET {m \in Msgs : status[m] = "ENQUEUE_PENDING"} :
        SetStatus(S, "PENDING") /\ Advance(t, IF S = {} THEN "idle" ELSE "publish", S, None)
  BY DEF ClaimDue
<1>3. ASSUME NEW u \in Ticks
      PROVE  /\ todo'[u] \subseteq todo[u] \union S
             /\ tick'[u] = "mark" => tick[u] = "mark" /\ cur'[u] = cur[u] /\ todo'[u] = todo[u]
  BY <1>2 DEF Advance, TypeOK, ReconcilerType
<1>4. \A u \in Ticks : tick'[u] = "mark" => cur'[u] \in todo'[u]
  BY <1>3 DEF CarriedInv
<1>5. ASSUME NEW m \in Msgs PROVE CarriedRow(m)'
  <2>1. (Published(m)' => Published(m)) /\ (InProgress(m)' => InProgress(m) \/ m \in S)
    BY <1>1, <1>3 DEF Published, InProgress
  <2>2. Carried(m) => Carried(m)'
    BY <1>1, CarriedQuiet
  <2>3. CASE m \in S
    <3>1. status[m] = "ENQUEUE_PENDING" /\ status'[m] = "PENDING" /\ lease'[m] # "expired"
      BY <1>1, <1>2, <2>3 DEF SetStatus, BasicInv, LeaseMatchesStatus
    <3> QED BY <2>1, <2>2, <3>1 DEF CarriedInv, CarriedRow
  <2>4. CASE m \notin S
    <3>1. status'[m] = status[m]
      BY <1>2, <2>4 DEF SetStatus
    <3> QED BY <1>1, <2>1, <2>2, <2>4, <3>1 DEF CarriedInv, CarriedRow
  <2> QED BY <2>3, <2>4
<1> QED BY <1>1, <1>4, <1>5, CarriedQuiet DEF CarriedInv

LEMMA CarriedRepublish ==
  ASSUME TypeOK, CarriedInv, NEW t \in Ticks, NEW m \in Msgs, Republish(t, m)
  PROVE  CarriedInv'
<1>1. UNCHANGED hand /\ UNCHANGED <<row, api>> /\ m \in todo[t] /\ Advance(t, "mark", todo[t], m)
  BY DEF Republish
<1>2. PICK c \in Copies : Put(c, "main", m, 0)
  BY DEF Republish
<1>3. (\A d \in Copies : broker[d].at # "free" => broker'[d] = broker[d]) /\ Carried(m)'
  BY <1>2 DEF Put, Carried, TypeOK, BrokerType
<1>4. ASSUME NEW u \in Ticks
      PROVE  /\ todo'[u] = todo[u]
             /\ \/ tick'[u] = "mark" /\ cur'[u] = m /\ m \in todo[u]
                \/ tick'[u] = tick[u] /\ cur'[u] = cur[u]
  BY <1>1 DEF Advance, TypeOK, ReconcilerType
<1>5. \A u \in Ticks : tick'[u] = "mark" => cur'[u] \in todo'[u]
  BY <1>4 DEF CarriedInv
<1>6. ASSUME NEW n \in Msgs PROVE CarriedRow(n)'
  <2>1. Published(n)' => Published(n) \/ Carried(n)'
    BY <1>1, <1>3, <1>4 DEF Published
  <2>2. InProgress(n)' => InProgress(n)
    BY <1>4 DEF InProgress
  <2>3. Carried(n) => Carried(n)'
    BY <1>1, <1>3, CarriedQuiet
  <2> QED BY <1>1, <2>1, <2>2, <2>3 DEF CarriedInv, CarriedRow, row
<1> QED BY <1>1, <1>3, <1>5, <1>6, CarriedQuiet DEF CarriedInv

LEMMA CarriedReconcile ==
  ASSUME TypeOK, BasicInv, CarriedInv, NEW t \in Ticks, Reconcile(t)
  PROVE  CarriedInv'
<1>1. CASE TickThrows(t)
  <2>1. UNCHANGED hand /\ UNCHANGED <<row, api, broker>> /\ Advance(t, "idle", {}, None)
    BY <1>1 DEF TickThrows
  <2> QED BY <2>1, CarriedTick DEF row
<1>2. CASE Recover(t)
  <2>1. UNCHANGED hand /\ UNCHANGED <<api, broker>> /\ Advance(t, "release", {}, None)
    BY <1>2 DEF Recover
  <2>2. ASSUME NEW m \in Msgs
        PROVE  IF Expired(m)
               THEN /\ status'[m] \in {"DELIVERY_UNCERTAIN", "ENQUEUE_PENDING"}
                    /\ lease'[m] = "none" /\ ~Published(m)
               ELSE status'[m] = status[m] /\ lease'[m] = lease[m]
    <3>1. Expired(m) => ~Published(m)
      BY DEF Expired, Published, CarriedInv, CarriedRow, InProgress
    <3> QED BY <1>2, <3>1 DEF Recover, RecoveredStatus
  <2> QED BY <2>1, <2>2, CarriedTick
<1>3. CASE ReleaseStale(t)
  <2>1. UNCHANGED hand /\ UNCHANGED <<api, broker, lease>> /\ Advance(t, "claim", {}, None)
    BY <1>3 DEF ReleaseStale, SetStatus
  <2>2. ASSUME NEW m \in Msgs
        PROVE  status'[m] = status[m] \/ (status'[m] = "ENQUEUE_PENDING" /\ status[m] = "PENDING")
    <3>1. PICK S \in SUBSET {n \in Msgs : status[n] = "PENDING"} : SetStatus(S, "ENQUEUE_PENDING")
      BY <1>3 DEF ReleaseStale
    <3>2. m \in S => status[m] = "PENDING"
      BY <3>1
    <3> QED BY <3>1, <3>2 DEF SetStatus
  <2> QED BY <2>1, <2>2, CarriedTick
<1>4. CASE ClaimDue(t)
  BY <1>4, CarriedClaimDue
<1>5. ASSUME NEW m \in Msgs, Republish(t, m) \/ RepublishFailed(t, m)
      PROVE  CarriedInv'
  <2>1. CASE Republish(t, m)
    BY <2>1, CarriedRepublish
  <2>2. CASE RepublishFailed(t, m)
    <3>1. UNCHANGED hand /\ UNCHANGED <<row, api>> /\ Advance(t, "unclaim", todo[t], m)
      BY <2>2 DEF RepublishFailed
    <3>2. \A c \in Copies : broker[c].at # "free" => broker'[c] = broker[c]
      BY <2>2 DEF RepublishFailed, PutUnconfirmed, Put, TypeOK, BrokerType
    <3> QED BY <3>1, <3>2, CarriedTick DEF row
  <2> QED BY <1>5, <2>1, <2>2
<1>6. CASE TickMarkQueued(t)
  <2>1. /\ UNCHANGED hand /\ UNCHANGED <<api, broker, lease>>
        /\ tick[t] = "mark" /\ cur[t] \in Msgs
        /\ MarkQueued(cur[t]) \/ UNCHANGED row
        /\ NextDue(t) \/ Advance(t, "unclaim", todo[t], cur[t])
    BY <1>6 DEF TickMarkQueued, MarkQueued, SetStatus, row, TypeOK, ReconcilerType
  <2>2. ASSUME NEW m \in Msgs
        PROVE  status'[m] = status[m] \/ (status'[m] = "QUEUED" /\ Carried(m))
    BY <2>1 DEF MarkQueued, SetStatus, row, CarriedInv, CarriedRow, Published
  <2>3. PICK p \in {"idle", "publish", "unclaim"}, S \in SUBSET todo[t], n \in {None, cur[t]} :
          Advance(t, p, S, n)
    BY <2>1 DEF NextDue
  <2> QED BY <2>1, <2>2, <2>3, CarriedTick
<1>7. CASE ReleaseClaim(t)
  <2>1. UNCHANGED hand /\ UNCHANGED <<api, broker, lease>> /\ NextDue(t)
    BY <1>7 DEF ReleaseClaim, SetStatus
  <2>2. ASSUME NEW m \in Msgs
        PROVE  status'[m] = status[m] \/ (status'[m] = "ENQUEUE_PENDING" /\ status[m] = "PENDING")
    <3>1. PICK S \in SUBSET {n \in Msgs : status[n] = "PENDING"} : SetStatus(S, "ENQUEUE_PENDING")
      BY <1>7 DEF ReleaseClaim, TypeOK, ReconcilerType
    <3>2. m \in S => status[m] = "PENDING"
      BY <3>1
    <3> QED BY <3>1, <3>2 DEF SetStatus
  <2>3. PICK p \in {"idle", "publish"}, S \in SUBSET todo[t] : Advance(t, p, S, None)
    BY <2>1 DEF NextDue
  <2> QED BY <2>1, <2>2, <2>3, CarriedTick
<1> QED BY <1>1, <1>2, <1>3, <1>4, <1>5, <1>6, <1>7 DEF Reconcile

\* A process that exits, or loses its connection, returns the copies it holds.
LEMMA CarriedReturn ==
  ASSUME TypeOK, CarriedInv, UNCHANGED <<row, api>>,
         \A c \in Copies : broker[c].at \in {"main", "retry"} => broker'[c] = broker[c],
         \A y \in Handlers :
           \/ /\ held'[y] = held[y] /\ pc'[y] = pc[y] /\ work'[y] = work[y]
              /\ held[y] # None => broker'[held[y]] = broker[held[y]]
           \/ /\ held'[y] = None
              /\ pc'[y] = "idle" \/ (pc'[y] = pc[y] /\ work'[y] = work[y])
              /\ held[y] # None =>
                   broker'[held[y]].at = "main" /\ broker'[held[y]].msg = broker[held[y]].msg,
         \A t \in Ticks : \/ tick'[t] = tick[t] /\ todo'[t] = todo[t] /\ cur'[t] = cur[t]
                          \/ tick'[t] = "idle" /\ todo'[t] = {}
  PROVE  CarriedInv'
<1>1. ASSUME NEW y \in Handlers PROVE CarriedHandler(y)'
  <2>1. held'[y] # None => broker'[held'[y]].msg = Msg(y)'
    BY DEF CarriedInv, CarriedHandler, Msg
  <2>2. pc'[y] = "idle" \/ (pc'[y] = pc[y] /\ work'[y] = work[y])
    OBVIOUS
  <2>3. RetryWaits(y) /\ work'[y] = work[y] => RetryWaits(y)'
    BY DEF RetryWaits, Msg, Attempt
  <2> QED BY <2>1, <2>2, <2>3 DEF CarriedInv, CarriedHandler
<1>2. ASSUME NEW m \in Msgs, Carried(m) PROVE Carried(m)'
  <2>1. CASE \E c \in Copies : broker[c].at \in {"main", "retry"} /\ broker[c].msg = m
    BY <2>1 DEF Carried
  <2>2. ASSUME NEW y \in Handlers, held[y] # None, pc[y] \notin {"idle", "ack"}, Msg(y) = m
        PROVE  Carried(m)'
    <3>1. held[y] \in Copies /\ broker[held[y]].msg = m
      BY <2>2 DEF TypeOK, HandlerType, CarriedInv, CarriedHandler
    <3>2. CASE broker'[held[y]].at = "main" /\ broker'[held[y]].msg = m
      BY <3>1, <3>2 DEF Carried
    <3>3. CASE held'[y] = held[y] /\ pc'[y] = pc[y] /\ work'[y] = work[y]
      BY <2>2, <3>3 DEF Carried, Msg
    <3> QED BY <2>2, <3>1, <3>2, <3>3
  <2> QED BY <1>2, <2>1, <2>2 DEF Carried
<1>3. \A t \in Ticks : tick'[t] = "mark" => cur'[t] \in todo'[t]
  BY DEF CarriedInv
<1>4. ASSUME NEW m \in Msgs PROVE CarriedRow(m)'
  <2>1. (Published(m)' => Published(m)) /\ (InProgress(m)' => InProgress(m))
    BY DEF Published, InProgress
  <2> QED BY <1>2, <2>1 DEF CarriedInv, CarriedRow, row
<1> QED BY <1>1, <1>3, <1>4 DEF CarriedInv

LEMMA CarriedFailure ==
  ASSUME TypeOK, CarriedInv, NEW w \in Workers, Crash(w) \/ Disconnect(w)
  PROVE  CarriedInv'
<1>1. CASE Crash(w)
  <2>1. UNCHANGED <<row, api>> /\ Exit(w)
    BY <1>1 DEF Crash
  <2> QED BY <2>1, ExitCopies, CarriedReturn
<1>2. CASE Disconnect(w)
  <2>1. /\ UNCHANGED <<row, api, pc, work, recon>> /\ Requeue(w)
        /\ held' = [x \in Handlers |-> IF HostOf[x] = w THEN None ELSE held[x]]
    BY <1>2 DEF Disconnect
  <2>2. \A c \in Copies : broker[c].at \in {"main", "retry"} => broker'[c] = broker[c]
    BY <2>1, ConstantsAssumption DEF Requeue, HandlersOf, TypeOK, HandlerType
  <2>3. ASSUME NEW y \in Handlers
        PROVE  \/ /\ held'[y] = held[y]
                  /\ held[y] # None => broker'[held[y]] = broker[held[y]]
               \/ /\ held'[y] = None
                  /\ held[y] # None =>
                       broker'[held[y]].at = "main" /\ broker'[held[y]].msg = broker[held[y]].msg
    <3>1. held[y] # None => held[y] \in Copies
      BY DEF TypeOK, HandlerType
    <3>2. CASE HostOf[y] = w
      <4>1. held[y] # None => broker'[held[y]] = [broker[held[y]] EXCEPT !.at = "main"]
        BY <2>1, <3>1, <3>2 DEF Requeue, HandlersOf
      <4> QED BY <2>1, <3>1, <3>2, <4>1, MainCopy
    <3>3. CASE HostOf[y] # w
      BY <2>1, <3>1, <3>3 DEF Requeue, HandlersOf, TypeOK, HandlerType
    <3> QED BY <3>2, <3>3
  <2>4. UNCHANGED <<tick, todo, cur>>
    BY <2>1 DEF recon
  <2> QED BY <2>1, <2>2, <2>3, <2>4, CarriedReturn
<1> QED BY <1>1, <1>2

LEMMA CarriedDeliver ==
  ASSUME TypeOK, CarriedInv, NEW x \in Handlers, NEW c \in Copies, Deliver(x, c)
  PROVE  CarriedInv'
<1>1. /\ UNCHANGED <<row, recon, api>> /\ pc[x] = "idle" /\ broker[c].at = "main"
      /\ broker' = [broker EXCEPT ![c].at = "held"]
      /\ pc'[x] = "load" /\ held'[x] = c /\ Msg(x)' = broker[c].msg
  BY DEF Deliver, TypeOK, HandlerType, Msg
<1>2. /\ broker'[c] = [broker[c] EXCEPT !.at = "held"]
      /\ \A d \in Copies \ {c} : broker'[d] = broker[d]
  BY <1>1 DEF TypeOK, BrokerType
<1>3. broker'[c].msg = broker[c].msg
  BY <1>2, Moved DEF TypeOK, BrokerType, Place
<1>4. ASSUME NEW y \in Handlers, y # x
      PROVE  pc'[y] = pc[y] /\ work'[y] = work[y] /\ held'[y] = held[y] /\ held[y] # c
  BY <1>1, <1>4, ConstantsAssumption DEF Deliver, TypeOK, HandlerType
<1>5. ASSUME NEW y \in Handlers PROVE CarriedHandler(y)'
  <2>1. CASE y = x
    BY <1>1, <1>3, <2>1 DEF CarriedHandler
  <2>2. CASE y # x
    <3>1. held'[y] # None => broker'[held'[y]].msg = Msg(y)'
      BY <1>2, <1>4, <2>2 DEF CarriedInv, CarriedHandler, Msg, TypeOK, HandlerType
    <3>2. RetryWaits(y) => RetryWaits(y)'
      BY <1>1, <1>2, <1>4, <2>2 DEF RetryWaits, Msg, Attempt
    <3> QED BY <1>4, <2>2, <3>1, <3>2 DEF CarriedInv, CarriedHandler
  <2> QED BY <2>1, <2>2
<1>6. ASSUME NEW m \in Msgs, Carried(m) PROVE Carried(m)'
  <2>1. CASE m = broker[c].msg
    BY <1>1, <2>1, ConstantsAssumption DEF Carried
  <2>2. CASE m # broker[c].msg
    <3>1. CASE \E d \in Copies : broker[d].at \in {"main", "retry"} /\ broker[d].msg = m
      BY <1>2, <2>2, <3>1 DEF Carried
    <3>2. ASSUME NEW y \in Handlers, held[y] # None, pc[y] \notin {"idle", "ack"}, Msg(y) = m
          PROVE  Carried(m)'
      BY <1>1, <1>4, <3>2 DEF Carried, Msg
    <3> QED BY <1>6, <3>1, <3>2 DEF Carried
  <2> QED BY <2>1, <2>2
<1>7. ASSUME NEW m \in Msgs PROVE CarriedRow(m)'
  <2>1. (Published(m)' <=> Published(m)) /\ (InProgress(m)' <=> InProgress(m))
    BY <1>1 DEF Published, InProgress, recon
  <2> QED BY <1>1, <1>6, <2>1 DEF CarriedInv, CarriedRow, row
<1>8. \A t \in Ticks : tick'[t] = "mark" => cur'[t] \in todo'[t]
  BY <1>1 DEF CarriedInv, recon
<1> QED BY <1>5, <1>7, <1>8 DEF CarriedInv

LEMMA CarriedClock ==
  ASSUME TypeOK, Timely, CarriedInv,
         (\E m \in Msgs : LeaseExpires(m)) \/ \E c \in Copies : RetryDue(c)
  PROVE  CarriedInv'
<1>1. ASSUME NEW m \in Msgs, LeaseExpires(m) PROVE CarriedInv'
  <2>1. /\ UNCHANGED <<status, broker, api, recon>> /\ UNCHANGED hand
        /\ lease' = [lease EXCEPT ![m] = "expired"] /\ ~Attended(m)
    BY <1>1 DEF LeaseExpires, Timely
  <2>2. ASSUME NEW n \in Msgs PROVE CarriedRow(n)'
    <3>1. (Published(n)' <=> Published(n)) /\ (InProgress(n)' <=> InProgress(n))
      BY <2>1 DEF Published, InProgress, recon
    <3>2. lease'[n] = "expired" => lease[n] = "expired" \/ n = m
      BY <2>1 DEF TypeOK, RowType
    <3>3. Carried(n) => Carried(n)'
      BY <2>1, CarriedQuiet
    <3> QED BY <2>1, <3>1, <3>2, <3>3 DEF Attended, CarriedInv, CarriedRow
  <2>3. \A t \in Ticks : tick'[t] = "mark" => cur'[t] \in todo'[t]
    BY <2>1 DEF CarriedInv, recon
  <2> QED BY <2>1, <2>2, <2>3, CarriedQuiet DEF CarriedInv
<1>2. ASSUME NEW c \in Copies, RetryDue(c) PROVE CarriedInv'
  <2>1. /\ UNCHANGED <<row, api, recon>> /\ UNCHANGED hand
        /\ broker[c].at = "retry" /\ broker' = [broker EXCEPT ![c].at = "main"]
        /\ \A x \in Handlers : pc[x] = "retrying" /\ Msg(x) = broker[c].msg =>
             Attempt(x) + 1 # broker[c].attempt
    BY <1>2 DEF RetryDue, Timely
  <2>2. /\ broker'[c] = [broker[c] EXCEPT !.at = "main"]
        /\ \A d \in Copies \ {c} : broker'[d] = broker[d]
    BY <2>1 DEF TypeOK, BrokerType
  <2>3. broker'[c].at = "main" /\ broker'[c].msg = broker[c].msg
    BY <2>2, MainCopy
  <2>4. ASSUME NEW y \in Handlers PROVE CarriedHandler(y)'
    <3>1. held'[y] # None => broker'[held'[y]].msg = Msg(y)'
      BY <2>1, <2>2, <2>3 DEF hand, CarriedInv, CarriedHandler, Msg, TypeOK, HandlerType
    <3>2. pc[y] = "retrying" /\ RetryWaits(y) => RetryWaits(y)'
      BY <2>1, <2>2 DEF hand, RetryWaits, Msg, Attempt
    <3> QED BY <2>1, <3>1, <3>2 DEF hand, CarriedInv, CarriedHandler
  <2>5. ASSUME NEW m \in Msgs, Carried(m) PROVE Carried(m)'
    <3>1. CASE \E d \in Copies : broker[d].at \in {"main", "retry"} /\ broker[d].msg = m
      BY <2>2, <2>3, <3>1 DEF Carried
    <3>2. CASE \E y \in Handlers : held[y] # None /\ pc[y] \notin {"idle", "ack"} /\ Msg(y) = m
      BY <2>1, <3>2 DEF hand, Carried, Msg
    <3> QED BY <2>5, <3>1, <3>2 DEF Carried
  <2>6. ASSUME NEW m \in Msgs PROVE CarriedRow(m)'
    <3>1. (Published(m)' <=> Published(m)) /\ (InProgress(m)' <=> InProgress(m))
      BY <2>1 DEF Published, InProgress, recon
    <3> QED BY <2>1, <2>5, <3>1 DEF CarriedInv, CarriedRow, row
  <2>7. \A t \in Ticks : tick'[t] = "mark" => cur'[t] \in todo'[t]
    BY <2>1 DEF CarriedInv, recon
  <2> QED BY <2>4, <2>6, <2>7 DEF CarriedInv
<1> QED BY <1>1, <1>2

LEMMA CarriedStep ==
  ASSUME TypeOK, BasicInv, Timely, CarriedInv, [Next]_vars
  PROVE  CarriedInv'
<1>1. CASE UNCHANGED vars
  <2>1. UNCHANGED hand /\ UNCHANGED <<status, lease, broker, api, tick, todo, cur>>
    BY <1>1 DEF vars, hand
  <2>2. ASSUME NEW m \in Msgs PROVE CarriedRow(m)'
    <3>1. (Published(m)' <=> Published(m)) /\ (InProgress(m)' <=> InProgress(m))
      BY <2>1 DEF Published, InProgress
    <3> QED BY <2>1, <3>1, CarriedQuiet DEF CarriedInv, CarriedRow
  <2> QED BY <2>1, <2>2, CarriedQuiet DEF CarriedInv
<1> QED
  BY <1>1, CarriedApi, CarriedHandlerStep, CarriedDeliver, CarriedReconcile, CarriedClock,
     CarriedFailure DEF Next

LEMMA CarriedInit == Init => CarriedInv
BY DEF Init, CarriedInv, CarriedHandler, CarriedRow, InProgress, Published

LEMMA CarriedHasCopy ==
  ASSUME CarriedInv
  PROVE  NotStranded
BY DEF CarriedInv, CarriedRow, Carried, NotStranded, HasCopy

\* Whatever the broker loses and however processes die or lose their connections, a
\* row that is marked QUEUED or RETRYING, which the reconciler never reads, has a
\* copy on its way: where no lease, threshold or retry delay ends too soon and the
\* database answers, no message is stranded.
THEOREM NoneStranded == Timely /\ Spec => []NotStranded
<1>1. CASE Timely
  <2>1. Spec => [](TypeOK /\ BasicInv)
    BY TypeCorrect, BasicInvariant, PTL
  <2>2. TypeOK /\ BasicInv /\ CarriedInv /\ [Next]_vars => CarriedInv'
    BY <1>1, CarriedStep
  <2>3. CarriedInv => NotStranded
    BY CarriedHasCopy
  <2> QED BY <2>1, <2>2, <2>3, CarriedInit, PTL DEF Spec
<1>2. CASE ~Timely
  BY <1>2
<1> QED BY <1>1, <1>2

=============================================================================
