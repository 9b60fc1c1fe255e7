--------------------------- MODULE BulkSendProofs ---------------------------
(***************************************************************************)
(* Proofs about BulkSend: a Log row is as well typed, leased and final as a  *)
(* Message row, a complete batch is settled, and a settled batch that is     *)
(* still open is about to be counted or has lost a count.                    *)
(*                                                                          *)
(* Most steps of BulkSend are steps of MailDelivery, and what is proved of    *)
(* those is cited; the kinds that are not are named first.                  *)
(***************************************************************************)
EXTENDS BulkSend, MailDeliveryProofs

\* compileTemplate or createTransport throws.
FailStart(x) ==
  /\ pc[x] = "start" /\ \E e \in {"permanent", "other"} : Throw(x, e)
  /\ UNCHANGED <<row, dlq, api, accepted>>

\* A call throws before the claim or after the final status.
GiveBack(x) ==
  /\ pc[x] \in {"load", "ack"} /\ Nack(x)
  /\ UNCHANGED <<row, dlq, api, accepted>>

NewStep ==
  \/ \E x \in Handlers : FailStart(x) \/ GiveBack(x)
  \/ \E b \in Batches : PostBatch(b)
  \/ \E t \in Ticks : \/ ClaimDueLogs(t)
                     \/ \E S \in SUBSET Msgs, p \in {"requeue", "release"} : RecoverSome(t, S, p)

LEMMA JobStep ==
  ASSUME TypeOK, StageInv, NEW x \in Handlers, HandleJob(x)
  PROVE  Handle(x) \/ FailStart(x) \/ GiveBack(x) \/ UNCHANGED vars
<1>1. ASSUME pc[x] = "load" \/ pc[x] = "start", Goto(x, pc[x]), UNCHANGED <<row, dlq, api, accepted>>
      PROVE  UNCHANGED vars
  BY <1>1 DEF Goto, Step, TypeOK, HandlerType, vars, row, recon
<1>2. CASE Validate(x)
  BY <1>1, <1>2 DEF Validate, Handle, Load
<1>3. CASE CompileTemplate(x)
  BY <1>1, <1>3 DEF CompileTemplate, StageInv, FailStart
<1>4. CASE StartDelivery(x)
  BY <1>4 DEF StartDelivery, Handle, FailStart
<1>5. CASE CountItems(x) \/ CompleteBatch(x)
  BY <1>5 DEF CountItems, CompleteBatch
<1>6. CASE ReadFails(x)
  BY <1>6 DEF ReadFails, StageInv, GiveBack
<1>7. CASE FindLog(x) \/ ClaimLog(x) \/ GetCredentials(x) \/ SendMail(x) \/ StoreFinal(x)
  BY <1>7 DEF FindLog, ClaimLog, GetCredentials, SendMail, StoreFinal, Handle, Load
<1>8. CASE AckJob(x) \/ MarkAttemptFailed(x) \/ RetryOrBury(x)
  BY <1>8 DEF AckJob, MarkAttemptFailed, RetryOrBury, Handle
<1> QED BY <1>2, <1>3, <1>4, <1>5, <1>6, <1>7, <1>8 DEF HandleJob

LEMMA ReconcileStep ==
  ASSUME NEW t \in Ticks, ReconcileLogs(t)
  PROVE  \/ Reconcile(t) \/ ClaimDueLogs(t)
         \/ \E S \in SUBSET Msgs, p \in {"requeue", "release"} : RecoverSome(t, S, p)
<1>1. CASE RecoverUncertain(t)
  <2> DEFINE S == {m \in Msgs : Expired(m) /\ started[m]}
  <2>1. RecoverSome(t, S, "requeue")
    BY <1>1 DEF RecoverUncertain, RecoverSome, RecoveredStatus
  <2> QED BY <2>1
<1>2. CASE RequeueExpired(t)
  <2> DEFINE S == {m \in Msgs : Expired(m) /\ ~started[m]}
  <2>1. RecoverSome(t, S, "release")
    BY <1>2 DEF RequeueExpired, RecoverSome, RecoveredStatus
  <2> QED BY <2>1
<1>3. CASE \/ ReleaseStale(t) \/ SettleClaim(t) \/ TickThrows(t)
           \/ \E m \in Msgs : Republish(t, m) \/ RepublishFailed(t, m)
  BY <1>3 DEF SettleClaim, Reconcile
<1> QED BY <1>1, <1>2, <1>3 DEF ReconcileLogs

LEMMA BulkStep ==
  ASSUME TypeOK, StageInv, [BulkNext]_bulkVars
  PROVE  [Next]_vars \/ NewStep
<1>1. ASSUME NEW x \in Handlers, HandleJob(x) PROVE [Next]_vars \/ NewStep
  BY <1>1, JobStep DEF Next, NewStep
<1>2. ASSUME NEW x \in Handlers, DeliverJob(x) PROVE [Next]_vars \/ NewStep
  BY <1>2 DEF DeliverJob, Next
<1>3. ASSUME NEW t \in Ticks, ReconcileLogs(t) PROVE [Next]_vars \/ NewStep
  BY <1>3, ReconcileStep DEF Next, NewStep
<1>4. CASE \/ \E b \in Batches : PostBatch(b) \/ Heal(b)
           \/ \E m \in Msgs : BecomeDue(m)
           \/ UNCHANGED bulkVars
  BY <1>4 DEF NewStep, Heal, BecomeDue, bulkVars
<1>5. CASE Time \/ \E w \in Workers : LoseWorker(w)
  BY <1>5 DEF Time, LoseWorker, Next
<1> QED BY <1>1, <1>2, <1>3, <1>4, <1>5 DEF BulkNext

-----------------------------------------------------------------------------
(* Log rows keep what is proved of Message rows.                            *)

LEMMA NewStepTypes ==
  ASSUME TypeOK, NewStep
  PROVE  TypeOK'
<1> USE ConstantsAssumption
<1>1. ASSUME NEW x \in Handlers, FailStart(x) PROVE TypeOK'
  <2>1. RowType' /\ \E e \in Errors : Throw(x, e)
    BY <1>1 DEF FailStart, TypeOK, RowType, row, Errors
  <2> QED BY <1>1, <2>1, GotoTypes DEF FailStart, TypeOK
<1>2. ASSUME NEW x \in Handlers, GiveBack(x) PROVE TypeOK'
  <2>1. RowType'
    BY <1>2 DEF GiveBack, TypeOK, RowType, row
  <2> QED BY <1>2, <2>1, ReturnTypes DEF GiveBack, TypeOK
<1>3. {"PENDING", "ENQUEUE_PENDING", "DELIVERY_UNCERTAIN"} \subseteq Status
  BY DEF Status, Claimable, Terminal
<1>4. ASSUME NEW b \in Batches, PostBatch(b) PROVE TypeOK'
  <2>1. RowType'
    BY <1>3, <1>4 DEF PostBatch, SetStatus, TypeOK, RowType
  <2> QED BY <1>4, <2>1 DEF PostBatch, TypeOK, BrokerType, HandlerType, ReconcilerType, hand, recon
<1>5. ASSUME UNCHANGED <<broker, hand>> PROVE BrokerType' /\ HandlerType'
  BY <1>5 DEF TypeOK, BrokerType, HandlerType, hand
<1>6. ASSUME NEW t \in Ticks, NEW p \in {"requeue", "release", "idle", "publish"},
             NEW S \in SUBSET Msgs, Advance(t, p, S, None), UNCHANGED up
      PROVE  ReconcilerType'
  BY <1>6 DEF Advance, TypeOK, ReconcilerType, TickPc
<1>7. ASSUME NEW t \in Ticks, ClaimDueLogs(t) PROVE TypeOK'
  <2>1. PICK S \in SUBSET Msgs : /\ SetStatus(S, "PENDING")
                                 /\ Advance(t, IF S = {} THEN "idle" ELSE "publish", S, None)
    BY <1>7 DEF ClaimDueLogs, DueLogs
  <2>2. UNCHANGED <<broker, dlq, hand, api, up, accepted>>
    BY <1>7 DEF ClaimDueLogs
  <2>3. RowType'
    BY <2>1, <2>2, <1>3 DEF SetStatus, TypeOK, RowType
  <2> QED BY <2>1, <2>2, <2>3, <1>5, <1>6 DEF TypeOK
<1>8. ASSUME NEW t \in Ticks, NEW S \in SUBSET Msgs, NEW p \in {"requeue", "release"},
             RecoverSome(t, S, p)
      PROVE  TypeOK'
  <2>1. RowType'
    BY <1>3, <1>8 DEF RecoverSome, RecoveredStatus, TypeOK, RowType
  <2> QED BY <1>8, <2>1, <1>5, <1>6 DEF RecoverSome, TypeOK
<1> QED BY <1>1, <1>2, <1>4, <1>7, <1>8 DEF NewStep


LEMMA PostBatchRows ==
  ASSUME TypeOK, BatchFirst, NEW b \in Batches, PostBatch(b)
  PROVE  /\ \A m \in Items(b) : status[m] = "none" /\ status'[m] = "ENQUEUE_PENDING"
         /\ \A m \in Msgs \ Items(b) : status'[m] = status[m]
         /\ UNCHANGED <<owner, lease, started, broker, dlq, hand, recon, up, accepted>>
BY DEF PostBatch, BatchFirst, SetStatus, Items, TypeOK, RowType

LEMMA NewStepBasic ==
  ASSUME TypeOK, BasicInv, BatchFirst, NewStep
  PROVE  BasicInv'
<1> USE DEF BasicInv, Knowledge
<1>1. ASSUME UNCHANGED row, UNCHANGED <<accepted, dlq>>
      PROVE  LeaseMatchesStatus' /\ OutcomeIsBacked'
  BY <1>1 DEF LeaseMatchesStatus, OutcomeIsBacked, row
<1>2. ASSUME NEW x \in Handlers, FailStart(x) \/ GiveBack(x) PROVE BasicInv'
  <2>1. UNCHANGED row /\ UNCHANGED <<accepted, dlq>>
    BY <1>2 DEF FailStart, GiveBack
  <2>2. Frame(x, {"failed"})
    BY <1>2, FrameGoto, FrameReturn DEF FailStart, GiveBack, Errors
  <2> QED BY <2>1, <2>2, <1>1, KnowledgeFrame
<1>3. ASSUME UNCHANGED <<pc, work, accepted, dlq>> PROVE Knowledge'
  BY <1>3 DEF Msg
<1>4. ASSUME NEW b \in Batches, PostBatch(b) PROVE BasicInv'
  <2>1. LeaseMatchesStatus' /\ OutcomeIsBacked'
    BY <1>4, PostBatchRows DEF LeaseMatchesStatus, OutcomeIsBacked, Items
  <2> QED BY <1>3, <1>4, <2>1 DEF PostBatch, hand
<1>5. ASSUME NEW t \in Ticks, ClaimDueLogs(t) PROVE BasicInv'
  <2>1. PICK S \in SUBSET DueLogs : SetStatus(S, "PENDING")
    BY <1>5 DEF ClaimDueLogs
  <2>2. /\ "PENDING" \in Status \ {"PROCESSING"} /\ \A m \in S : status[m] # "PROCESSING"
        /\ UNCHANGED <<pc, work, accepted, dlq>>
    BY <1>5 DEF ClaimDueLogs, DueLogs, Status, Claimable, hand
  <2>3. LeaseMatchesStatus'
    BY <2>1, <2>2, SetStatusRow DEF TypeOK
  <2>4. OutcomeIsBacked'
    BY <2>1, <2>2 DEF OutcomeIsBacked, SetStatus
  <2> QED BY <2>2, <2>3, <2>4, <1>3
<1>6. ASSUME NEW t \in Ticks, NEW S \in SUBSET Msgs, NEW p \in {"requeue", "release"},
             RecoverSome(t, S, p)
      PROVE  BasicInv'
  <2>1. LeaseMatchesStatus' /\ OutcomeIsBacked'
    BY <1>6 DEF RecoverSome, Expired, RecoveredStatus, LeaseMatchesStatus, OutcomeIsBacked, TypeOK,
       RowType
  <2> QED BY <1>3, <1>6, <2>1 DEF RecoverSome, hand
<1> QED BY <1>2, <1>4, <1>5, <1>6 DEF NewStep

\* A settled Log row stays as it is.
LEMMA NewStepTerminal ==
  ASSUME TypeOK, BatchFirst, NewStep, NEW m \in Msgs, status[m] \in Terminal
  PROVE  status'[m] = status[m]
<1>1. status[m] \notin {"none", "PROCESSING", "ENQUEUE_PENDING"}
  BY DEF Terminal
<1>2. CASE \E x \in Handlers : FailStart(x) \/ GiveBack(x)
  BY <1>2 DEF FailStart, GiveBack, row
<1>3. CASE \E b \in Batches : PostBatch(b)
  BY <1>1, <1>3, PostBatchRows
<1>4. CASE \E t \in Ticks : ClaimDueLogs(t)
  BY <1>1, <1>4 DEF ClaimDueLogs, DueLogs, SetStatus
<1>5. CASE \E t \in Ticks, S \in SUBSET Msgs, p \in {"requeue", "release"} : RecoverSome(t, S, p)
  BY <1>1, <1>5 DEF RecoverSome, Expired
<1> QED BY <1>2, <1>3, <1>4, <1>5 DEF NewStep

LEMMA SettledStays ==
  ASSUME TypeOK, BasicInv, StageInv, BatchFirst, [BulkNext]_bulkVars, NEW b, Settled(b)
  PROVE  Settled(b)'
<1>1. ASSUME NEW m \in Items(b) PROVE status'[m] \in Terminal
  <2>1. m \in Msgs /\ status[m] \in Terminal
    BY <1>1 DEF Settled, Items
  <2> QED BY <2>1, BulkStep, TerminalStep, NewStepTerminal DEF BasicInv
<1> QED BY <1>1 DEF Settled, Items


-----------------------------------------------------------------------------
(* What a step of one handler does to the others, and to what it awaits.    *)

LEMMA HandlerMoves ==
  ASSUME NEW x \in Handlers, Handle(x) \/ FailStart(x) \/ GiveBack(x)
  PROVE  (\E p : Step(x, p)) \/ Finish(x) \/ Exit(HostOf[x])
<1>1. ASSUME Ack(x) \/ Nack(x) PROVE Finish(x) \/ Exit(HostOf[x])
  BY <1>1 DEF Ack, Nack
<1>2. ASSUME NEW s, Store(x, s) PROVE (\E p : Step(x, p)) \/ Finish(x) \/ Exit(HostOf[x])
  BY <1>1, <1>2 DEF Store, Goto
<1>3. CASE Load(x) \/ Claim(x) \/ PublishDeadLetter(x) \/ MarkFailed(x) \/ AckDone(x)
  BY <1>1, <1>3 DEF Load, Claim, PublishDeadLetter, MarkFailed, AckDone, Goto
<1>4. CASE Prepare(x) \/ Start(x) \/ SmtpAccepted(x) \/ SmtpFailed(x) \/ FailStart(x)
  BY <1>4 DEF Prepare, Start, SmtpAccepted, SmtpFailed, FailStart, Goto, Throw
<1>5. CASE DeadLetterMalformed(x) \/ PublishRetry(x) \/ PublishRetryFailed(x) \/ GiveBack(x)
  BY <1>1, <1>5 DEF DeadLetterMalformed, PublishRetry, PublishRetryFailed, GiveBack
<1>6. CASE StoreSent(x) \/ StoreRetrying(x) \/ StoreDead(x)
  BY <1>2, <1>6 DEF StoreSent, StoreRetrying, StoreDead
<1> QED BY <1>3, <1>4, <1>5, <1>6 DEF Handle

\* A handler that goes on keeps its job, and the others stay where they are.
LEMMA JobFrame ==
  ASSUME TypeOK, StageInv, NEW x \in Handlers, HandleJob(x), NEW y \in Handlers
  PROVE  pc'[y] = "idle" \/ (work'[y] = work[y] /\ (y # x => pc'[y] = pc[y]))
<1>1. CASE \E p : Step(x, p)
  BY <1>1 DEF Step, TypeOK, HandlerType
<1>2. CASE Finish(x)
  BY <1>2 DEF Finish, TypeOK, HandlerType
<1>3. CASE Exit(HostOf[x])
  BY <1>3 DEF Exit
<1>4. CASE UNCHANGED vars
  BY <1>4 DEF vars
<1> QED BY <1>1, <1>2, <1>3, <1>4, JobStep, HandlerMoves

\* What the handler awaits after its step.
LEMMA JobStage ==
  ASSUME TypeOK, BulkTypeOK, StageInv, NEW x \in Handlers, HandleJob(x)
  PROVE  /\ \E s \in {"none", "find", "template", "count", "complete"} : Resume(x, s)
         /\ stage'[x] = "find" => pc'[x] = "load"
         /\ stage'[x] = "template" => pc'[x] = "start"
         /\ stage'[x] = "count" => pc'[x] = "ack"
         /\ stage'[x] = "complete" =>
              pc'[x] = "ack" /\ UNCHANGED vars /\ Remaining(BatchOf[Msg(x)]) = {}
<1>1. ASSUME NEW s \in {"none", "find", "template", "count", "complete"}, Resume(x, s)
      PROVE  stage'[x] \in {"none", s} /\ (pc'[x] = "idle" => stage'[x] = "none")
  BY <1>1 DEF Resume
<1>2. CASE Validate(x)
  BY <1>1, <1>2 DEF Validate, Goto, Step, TypeOK, HandlerType
<1>3. CASE GetCredentials(x)
  BY <1>1, <1>3 DEF GetCredentials
<1>4. CASE StoreFinal(x)
  BY <1>1, <1>4 DEF StoreFinal
<1>5. CASE CountItems(x)
  BY <1>1, <1>5 DEF CountItems, StageInv, vars
<1>6. CASE \/ FindLog(x) \/ ClaimLog(x) \/ CompileTemplate(x) \/ StartDelivery(x) \/ SendMail(x)
           \/ AckJob(x) \/ MarkAttemptFailed(x) \/ RetryOrBury(x) \/ CompleteBatch(x)
           \/ ReadFails(x)
  <2>1. Resume(x, "none")
    BY <1>6 DEF FindLog, ClaimLog, CompileTemplate, StartDelivery, SendMail, AckJob,
       MarkAttemptFailed, RetryOrBury, CompleteBatch, ReadFails
  <2> QED BY <1>1, <2>1
<1> QED BY <1>2, <1>3, <1>4, <1>5, <1>6 DEF HandleJob

\* The batch and the counts: only a handler that counts writes the batch, and only
\* after it has seen that nothing remains.
LEMMA JobBatch ==
  ASSUME TypeOK, BulkTypeOK, StageInv, NEW x \in Handlers, HandleJob(x)
  PROVE  \/ UNCHANGED batch
         \/ stage[x] = "complete" /\ batch' = [batch EXCEPT ![BatchOf[Msg(x)]] = "complete"]
BY DEF HandleJob, CountItems, CompleteBatch, ReadFails


-----------------------------------------------------------------------------
(* The batch's invariants.                                                  *)

\* Only the transaction that commits its batch creates a row.
LEMMA NoneStays ==
  ASSUME TypeOK, BasicInv, StageInv, NEW m \in Msgs, status[m] = "none",
         \/ \E x \in Handlers : HandleJob(x) \/ DeliverJob(x)
         \/ \E t \in Ticks : ReconcileLogs(t)
         \/ Time
         \/ \E w \in Workers : LoseWorker(w)
  PROVE  status'[m] = "none"
<1>1. ASSUME NEW x \in Handlers, HandleJob(x) PROVE status'[m] = "none"
  <2>1. CASE Handle(x)
    <3>1. RowByHandler(x) /\ (CanStore(x) => Owns(x))
      BY <2>1, HandlerBusy, HandlerMovesRow, StoreOwns DEF BasicInv
    <3> QED BY <3>1 DEF RowByHandler, CanClaim, ClaimFor, Leave, Owns, Claimable, row, TypeOK, RowType
  <2>2. CASE FailStart(x) \/ GiveBack(x) \/ UNCHANGED vars
    BY <2>2 DEF FailStart, GiveBack, row, vars
  <2> QED BY <1>1, <2>1, <2>2, JobStep
<1>2. ASSUME NEW t \in Ticks, ReconcileLogs(t) PROVE status'[m] = "none"
  <2>1. CASE RecoverUncertain(t) \/ RequeueExpired(t)
    BY <2>1 DEF RecoverUncertain, RequeueExpired, Expired
  <2>2. CASE ReleaseStale(t) \/ ClaimDueLogs(t)
    BY <2>2 DEF ReleaseStale, ClaimDueLogs, DueLogs, SetStatus
  <2>3. CASE SettleClaim(t)
    BY <2>3 DEF SettleClaim, TickMarkQueued, MarkQueued, ReleaseClaim, SetStatus, row
  <2>4. CASE TickThrows(t) \/ \E n \in Msgs : Republish(t, n) \/ RepublishFailed(t, n)
    BY <2>4 DEF TickThrows, Republish, RepublishFailed, row
  <2> QED BY <1>2, <2>1, <2>2, <2>3, <2>4 DEF ReconcileLogs
<1>3. CASE \/ \E x \in Handlers : DeliverJob(x)
           \/ Time
           \/ \E w \in Workers : LoseWorker(w)
  BY <1>3 DEF DeliverJob, Deliver, Time, LeaseExpires, RetryDue, LoseWorker, Crash, row
<1> QED BY <1>1, <1>2, <1>3

LEMMA BulkTypeStep ==
  ASSUME TypeOK, BulkTypeOK, StageInv, [BulkNext]_bulkVars
  PROVE  BulkTypeOK'
<1> USE DEF BulkTypeOK
<1>1. NoteLost => lost' \subseteq Batches
  BY DEF NoteLost
<1>2. ASSUME NEW x \in Handlers, HandleJob(x) PROVE BulkTypeOK'
  <2>1. UNCHANGED due /\ NoteLost
    BY <1>2 DEF HandleJob
  <2>2. stage' \in [Handlers -> {"none", "find", "template", "count", "complete"}]
    BY <1>2, JobStage DEF Resume
  <2>3. batch' \in [Batches -> {"none", "open", "complete"}]
    BY <1>2, JobBatch
  <2> QED BY <1>1, <2>1, <2>2, <2>3
<1>3. CASE \/ \E m \in Msgs : BecomeDue(m)
           \/ \E x \in Handlers : DeliverJob(x)
           \/ \E b \in Batches : PostBatch(b) \/ Heal(b)
           \/ Time
           \/ UNCHANGED bulkVars
  BY <1>3 DEF PostBatch, BecomeDue, DeliverJob, Heal, Time, bulk, bulkVars
<1>4. CASE (\E t \in Ticks : ReconcileLogs(t)) \/ \E w \in Workers : LoseWorker(w)
  BY <1>1, <1>4 DEF ReconcileLogs, LoseWorker
<1> QED BY <1>2, <1>3, <1>4 DEF BulkNext

LEMMA StageStep ==
  ASSUME TypeOK, BasicInv, BulkTypeOK, StageInv, BatchFirst, [BulkNext]_bulkVars
  PROVE  StageInv'
<1>1. ASSUME NEW x \in Handlers,
             stage'[x] = "none" \/ (stage'[x] = stage[x] /\ pc'[x] = pc[x] /\ work'[x] = work[x])
      PROVE  /\ stage'[x] = "find" => pc'[x] = "load"
             /\ stage'[x] = "template" => pc'[x] = "start"
             /\ stage'[x] \in {"count", "complete"} => pc'[x] = "ack"
             /\ stage'[x] = "complete" => Settled(BatchOf[Msg(x)])'
  <2>1. stage'[x] = "complete" => Settled(BatchOf[Msg(x)]) /\ Msg(x)' = Msg(x)
    BY <1>1 DEF StageInv, Msg
  <2>2. Settled(BatchOf[Msg(x)]) => Settled(BatchOf[Msg(x)])' \/ Msg(x)' # Msg(x)
    BY SettledStays DEF Settled, Items
  <2> QED BY <1>1, <2>1, <2>2 DEF StageInv
<1>2. ASSUME \A x \in Handlers :
               stage'[x] = "none" \/ (stage'[x] = stage[x] /\ pc'[x] = pc[x] /\ work'[x] = work[x])
      PROVE  StageInv'
  BY <1>1, <1>2 DEF StageInv
<1>3. ASSUME NEW x \in Handlers, HandleJob(x) PROVE StageInv'
  <2>1. ASSUME NEW y \in Handlers, y # x
        PROVE  stage'[y] = "none" \/ (stage'[y] = stage[y] /\ pc'[y] = pc[y] /\ work'[y] = work[y])
    BY <1>3, <2>1, JobFrame, JobStage DEF Resume
  <2>2. stage'[x] = "complete" => Settled(BatchOf[Msg(x)])'
    BY <1>3, JobStage DEF Settled, Remaining, Items, vars, Msg
  <2>3. /\ stage'[x] = "find" => pc'[x] = "load"
        /\ stage'[x] = "template" => pc'[x] = "start"
        /\ stage'[x] \in {"count", "complete"} => pc'[x] = "ack"
    BY <1>3, JobStage
  <2> QED BY <1>1, <2>1, <2>2, <2>3 DEF StageInv
<1>4. ASSUME NEW x \in Handlers, DeliverJob(x) PROVE StageInv'
  <2>1. stage' = stage /\ stage[x] = "none"
    BY <1>4 DEF DeliverJob, Deliver, bulk, StageInv, BulkTypeOK
  <2>2. \A y \in Handlers : y # x => pc'[y] = pc[y] /\ work'[y] = work[y]
    BY <1>4 DEF DeliverJob, Deliver, TypeOK, HandlerType
  <2> QED BY <1>2, <2>1, <2>2
<1>5. ASSUME NEW w \in Workers, LoseWorker(w) PROVE StageInv'
  <2>1. \A x \in Handlers : pc'[x] = "idle" \/ (pc'[x] = pc[x] /\ work'[x] = work[x])
    BY <1>5 DEF LoseWorker, Crash, Exit
  <2> QED BY <1>2, <1>5, <2>1 DEF LoseWorker
<1>6. CASE \/ \E b \in Batches : PostBatch(b) \/ Heal(b)
           \/ \E m \in Msgs : BecomeDue(m)
           \/ Time
           \/ \E t \in Ticks : ReconcileLogs(t)
           \/ UNCHANGED bulkVars
  <2>1. UNCHANGED <<stage, pc, work>>
    <3>1. CASE \E t \in Ticks : ReconcileLogs(t)
      BY <3>1 DEF ReconcileLogs, RecoverUncertain, RequeueExpired, ReleaseStale, ClaimDueLogs,
         Republish, RepublishFailed, SettleClaim, TickMarkQueued, ReleaseClaim, TickThrows, hand
    <3>2. CASE ~ \E t \in Ticks : ReconcileLogs(t)
      BY <1>6, <3>2 DEF PostBatch, Heal, BecomeDue, Time, LeaseExpires, RetryDue, bulk, bulkVars,
         vars, hand
    <3> QED BY <3>1, <3>2
  <2> QED BY <1>2, <2>1
<1> QED BY <1>3, <1>4, <1>5, <1>6 DEF BulkNext


LEMMA BatchFirstStep ==
  ASSUME TypeOK, BasicInv, BulkTypeOK, StageInv, BatchFirst, [BulkNext]_bulkVars
  PROVE  BatchFirst'
<1> SUFFICES ASSUME NEW b \in Batches, batch'[b] = "none", NEW m \in Items(b)
             PROVE  status'[m] = "none"
  BY DEF BatchFirst, Items
<1>1. m \in Msgs
  BY DEF Items
<1>2. CASE \E c \in Batches : PostBatch(c)
  <2>1. PICK c \in Batches : PostBatch(c)
    BY <1>2
  <2>2. c # b /\ batch[b] = "none"
    BY <2>1 DEF PostBatch, BulkTypeOK
  <2>3. m \notin Items(c) /\ status[m] = "none"
    BY <2>2 DEF Items, BatchFirst
  <2> QED BY <1>1, <2>1, <2>3, PostBatchRows
<1>3. CASE ~ \E c \in Batches : PostBatch(c)
  <2>1. batch[b] = "none"
    <3>1. CASE \E x \in Handlers : HandleJob(x)
      BY <3>1, JobBatch DEF BulkTypeOK
    <3>2. CASE ~ \E x \in Handlers : HandleJob(x)
      BY <1>3, <3>2 DEF BulkNext, BecomeDue, DeliverJob, ReconcileLogs, Time, LoseWorker, Heal,
         bulk, bulkVars, BulkTypeOK
    <3> QED BY <3>1, <3>2
  <2>2. status[m] = "none"
    BY <2>1 DEF BatchFirst
  <2>3. CASE (\E n \in Msgs : BecomeDue(n)) \/ (\E c \in Batches : Heal(c)) \/ UNCHANGED bulkVars
    BY <2>2, <2>3 DEF BecomeDue, Heal, bulkVars, vars
  <2> QED BY <1>1, <1>3, <2>2, <2>3, NoneStays DEF BulkNext
<1> QED BY <1>2, <1>3

LEMMA CompletedStep ==
  ASSUME TypeOK, BasicInv, BulkTypeOK, StageInv, BatchFirst, CompletedIsSettled,
         [BulkNext]_bulkVars
  PROVE  CompletedIsSettled'
<1> SUFFICES ASSUME NEW b \in Batches, batch'[b] = "complete" PROVE Settled(b)'
  BY DEF CompletedIsSettled, Settled, Items
<1>1. batch[b] = "complete" => Settled(b)
  BY DEF CompletedIsSettled
<1>2. batch[b] = "complete" \/ Settled(b)
  <2>1. ASSUME NEW x \in Handlers, HandleJob(x) PROVE batch[b] = "complete" \/ Settled(b)
    BY <2>1, JobBatch DEF StageInv, BulkTypeOK
  <2>2. CASE \E c \in Batches : PostBatch(c) \/ Heal(c)
    BY <2>2 DEF PostBatch, Heal, BulkTypeOK
  <2>3. CASE \/ \E m \in Msgs : BecomeDue(m)
             \/ \E x \in Handlers : DeliverJob(x)
             \/ \E t \in Ticks : ReconcileLogs(t)
             \/ Time
             \/ \E w \in Workers : LoseWorker(w)
             \/ UNCHANGED bulkVars
    BY <2>3 DEF BecomeDue, DeliverJob, ReconcileLogs, Time, LoseWorker, bulk, bulkVars
  <2> QED BY <2>1, <2>2, <2>3 DEF BulkNext
<1> QED BY <1>1, <1>2, SettledStays

-----------------------------------------------------------------------------
(* A settled batch that is still open.                                      *)

\* The handler that settles a row goes on to count it.
LEMMA SettlerCounts ==
  ASSUME TypeOK, StageInv, NEW x \in Handlers, HandleJob(x),
         pc'[x] = "ack", pc[x] # "ack", status'[Msg(x)] \in Terminal
  PROVE  stage'[x] = "count"
<1>1. pc[x] # "idle" => Msg(x) \in Msgs
  BY DEF TypeOK, HandlerType, Msg
<1>2. CASE StoreFinal(x)
  BY <1>2 DEF StoreFinal, Resume
<1>3. ASSUME NEW p \in HandlerPc \ {"ack"}, Goto(x, p) PROVE FALSE
  BY <1>3 DEF Goto, Step, TypeOK, HandlerType
<1>4. ASSUME Ack(x) \/ Nack(x) PROVE FALSE
  BY <1>4, FrameReturn DEF Ack, Nack, Finish, Exit, TypeOK, HandlerType
<1>5. ASSUME NEW e, Throw(x, e) PROVE FALSE
  BY <1>5 DEF Throw, Step, TypeOK, HandlerType
<1>6. ASSUME NEW p \in {"retrying", "idle"}, pc' = [pc EXCEPT ![x] = p] PROVE FALSE
  BY <1>6 DEF TypeOK, HandlerType
<1>7. {"load", "malformed", "claim", "prepare", "start", "smtp", "sent", "retry", "bury", "buried"}
        \subseteq HandlerPc \ {"ack"}
  BY DEF HandlerPc, Working
<1>8. ~ StoreRetrying(x)
  <2>1. ASSUME StoreRetrying(x) PROVE FALSE
    <3>1. Leave(Msg(x), "RETRYING") /\ pc[x] = "retrying"
      BY <1>4, <2>1 DEF StoreRetrying, Store
    <3> QED BY <1>1, <3>1 DEF Leave, Terminal, TypeOK, RowType
  <2> QED BY <2>1
<1>9. ~ (Validate(x) \/ FindLog(x) \/ ClaimLog(x) \/ GetCredentials(x) \/ CompileTemplate(x))
  BY <1>3, <1>4, <1>5, <1>7 DEF Validate, FindLog, ClaimLog, GetCredentials, CompileTemplate, Claim,
     Prepare
<1>10. ~ (StartDelivery(x) \/ SendMail(x) \/ MarkAttemptFailed(x))
  BY <1>3, <1>4, <1>5, <1>7 DEF StartDelivery, SendMail, MarkAttemptFailed, Start, SmtpAccepted,
     SmtpFailed, MarkFailed
<1>11. ~ (AckJob(x) \/ ReadFails(x) \/ CountItems(x) \/ CompleteBatch(x))
  BY <1>4 DEF AckJob, AckDone, ReadFails, CountItems, CompleteBatch, StageInv
<1>12. ~ RetryOrBury(x)
  BY <1>3, <1>4, <1>6, <1>7, <1>8 DEF RetryOrBury, DeadLetterMalformed, PublishRetry, PublishRetryFailed,
     PublishDeadLetter, Step, Finish
<1> QED BY <1>2, <1>9, <1>10, <1>11, <1>12 DEF HandleJob


\* A handler that was to count its batch finds rows that remain, sees to it that the
\* batch is completed, or returns.
LEMMA CounterMoves ==
  ASSUME TypeOK, BulkTypeOK, StageInv, NEW x \in Handlers, HandleJob(x),
         stage[x] \in {"count", "complete"}, pc'[x] # "idle", BatchOf[Msg(x)] \in Batches
  PROVE  \/ stage'[x] = "complete"
         \/ UNCHANGED vars /\ Remaining(BatchOf[Msg(x)]) # {}
         \/ batch'[BatchOf[Msg(x)]] = "complete"
<1>1. pc[x] = "ack"
  BY DEF StageInv
<1>2. ~ (Validate(x) \/ FindLog(x) \/ ClaimLog(x) \/ GetCredentials(x) \/ CompileTemplate(x)
         \/ StartDelivery(x) \/ SendMail(x) \/ StoreFinal(x) \/ AckJob(x))
  BY <1>1 DEF Validate, FindLog, ClaimLog, Claim, GetCredentials, Prepare, CompileTemplate,
     StartDelivery, SendMail, SmtpAccepted, SmtpFailed, StoreFinal, StoreSent, StoreDead, AckJob
<1>3. ~ (MarkAttemptFailed(x) \/ RetryOrBury(x))
  BY <1>1 DEF MarkAttemptFailed, MarkFailed, RetryOrBury, DeadLetterMalformed, PublishRetry,
     PublishRetryFailed, StoreRetrying, PublishDeadLetter
<1>4. CASE CountItems(x)
  BY <1>4 DEF CountItems, Resume
<1>5. CASE CompleteBatch(x)
  BY <1>5 DEF CompleteBatch, BulkTypeOK
<1>6. CASE ReadFails(x)
  BY <1>6 DEF ReadFails, Nack, Finish, Exit, TypeOK, HandlerType
<1> QED BY <1>2, <1>3, <1>4, <1>5, <1>6 DEF HandleJob

\* A step that records the losses, whose handlers go on waiting for the count or
\* return, keeps a settled batch attended.
LEMMA AttendedBy ==
  ASSUME OpenIsAttended, NoteLost, NEW b \in Batches, batch[b] = "open", Settled(b)',
         \A x \in Handlers : Counting(x, b) => pc'[x] = "idle" \/ Counting(x, b)',
         \A x \in Handlers : pc'[x] = "ack" /\ pc[x] # "ack" /\ Msg(x) \in Items(b)
                               /\ status'[Msg(x)] \in Terminal => Counting(x, b)'
  PROVE  b \in lost' \/ \E x \in Handlers : Counting(x, b)'
<1>1. CASE Settled(b)
  BY <1>1 DEF OpenIsAttended, NoteLost
<1>2. CASE ~ Settled(b)
  <2>1. PICK m \in Items(b) : status[m] \notin Terminal /\ status'[m] \in Terminal
    BY <1>2 DEF Settled, Items
  <2> QED BY <2>1 DEF NoteLost
<1> QED BY <1>1, <1>2

LEMMA AttendedStep ==
  ASSUME TypeOK, BasicInv, BulkTypeOK, StageInv, BatchFirst, OpenIsAttended, [BulkNext]_bulkVars
  PROVE  OpenIsAttended'
<1> SUFFICES ASSUME NEW b \in Batches, batch'[b] = "open", Settled(b)'
             PROVE  b \in lost' \/ \E x \in Handlers : Counting(x, b)'
  BY DEF OpenIsAttended, Settled, Items, Counting
<1>1. \A x \in Handlers : Counting(x, b) => pc[x] = "ack" /\ BatchOf[Msg(x)] = b
  BY DEF Counting, StageInv
<1>2. ASSUME NEW x \in Handlers, HandleJob(x)
      PROVE  b \in lost' \/ \E y \in Handlers : Counting(y, b)'
  <2>1. batch[b] = "open" /\ NoteLost
    BY <1>2, JobBatch DEF BulkTypeOK, HandleJob
  <2>2. ASSUME NEW y \in Handlers, Counting(y, b) PROVE pc'[y] = "idle" \/ Counting(y, b)'
    <3>1. pc'[y] = "idle" \/ (Msg(y)' = Msg(y) /\ (y # x => stage'[y] = stage[y]))
      BY <1>2, JobFrame, JobStage DEF Resume, Msg
    <3>2. CASE y # x
      BY <2>2, <3>1, <3>2 DEF Counting
    <3>3. CASE y = x /\ pc'[x] # "idle"
      <4>1. stage[x] \in {"count", "complete"} /\ BatchOf[Msg(x)] = b
        BY <2>2, <3>3 DEF Counting
      <4>2. stage'[x] = "complete" \/ (UNCHANGED vars /\ Remaining(b) # {})
        BY <1>2, <3>3, <4>1, CounterMoves
      <4>3. ~ (UNCHANGED vars /\ Remaining(b) # {})
        BY DEF Remaining, Settled, Items, vars
      <4> QED BY <3>1, <3>3, <4>1, <4>2, <4>3 DEF Counting
    <3> QED BY <3>2, <3>3
  <2>3. ASSUME NEW y \in Handlers, pc'[y] = "ack", pc[y] # "ack", Msg(y) \in Items(b),
               status'[Msg(y)] \in Terminal
        PROVE  Counting(y, b)'
    <3>1. y = x /\ Msg(y)' = Msg(y) /\ stage'[x] = "count"
      BY <1>2, <2>3, JobFrame, SettlerCounts DEF Msg
    <3> QED BY <2>3, <3>1 DEF Counting, Items
  <2> QED BY <2>1, <2>2, <2>3, AttendedBy

<1>3. ASSUME NEW c \in Batches, PostBatch(c)
      PROVE  b \in lost' \/ \E y \in Handlers : Counting(y, b)'
  <2>1. CASE c = b
    <3>1. PICK m \in Msgs : m \in Items(b)
      BY BulkAssumption DEF Items
    <3>2. status'[m] = "ENQUEUE_PENDING" /\ status'[m] \in Terminal
      BY <1>3, <2>1, <3>1, PostBatchRows DEF Settled, Items
    <3> QED BY <3>2 DEF Terminal
  <2>2. CASE c # b
    <3>1. batch[b] = "open" /\ UNCHANGED <<stage, work, lost>>
      BY <1>3, <2>2 DEF PostBatch, BulkTypeOK, hand
    <3>2. \A m \in Items(b) : status'[m] = status[m]
      BY <1>3, <2>2, PostBatchRows DEF Items
    <3>3. Settled(b)
      BY <3>2 DEF Settled, Items
    <3> QED BY <3>1, <3>3 DEF OpenIsAttended, Counting, Msg
  <2> QED BY <2>1, <2>2
<1>4. ASSUME NEW t \in Ticks, ReconcileLogs(t)
      PROVE  b \in lost' \/ \E y \in Handlers : Counting(y, b)'
  <2>1. UNCHANGED <<stage, pc, work, batch>> /\ NoteLost
    BY <1>4 DEF ReconcileLogs, RecoverUncertain, RequeueExpired, ReleaseStale, ClaimDueLogs,
       Republish, RepublishFailed, SettleClaim, TickMarkQueued, ReleaseClaim, TickThrows, hand
  <2> QED BY <2>1, AttendedBy DEF Counting, Msg
<1>5. ASSUME NEW w \in Workers, LoseWorker(w)
      PROVE  b \in lost' \/ \E y \in Handlers : Counting(y, b)'
  <2>1. UNCHANGED <<batch, status>> /\ NoteLost
    BY <1>5 DEF LoseWorker, Crash, row
  <2>2. \A y \in Handlers :
          pc'[y] = "idle" \/ (pc'[y] = pc[y] /\ work'[y] = work[y] /\ stage'[y] = stage[y])
    BY <1>5 DEF LoseWorker, Crash, Exit
  <2> QED BY <2>1, <2>2, AttendedBy DEF Counting, Msg
<1>6. ASSUME UNCHANGED <<stage, lost, status>>, batch[b] = "open",
             \A y \in Handlers : pc[y] = "ack" => work'[y] = work[y]
      PROVE  b \in lost' \/ \E y \in Handlers : Counting(y, b)'
  <2>1. Settled(b)
    BY <1>6 DEF Settled, Items
  <2> QED BY <1>1, <1>6, <2>1 DEF OpenIsAttended, Counting, Msg
<1>7. ASSUME NEW x \in Handlers, DeliverJob(x)
      PROVE  b \in lost' \/ \E y \in Handlers : Counting(y, b)'
  BY <1>6, <1>7 DEF DeliverJob, Deliver, bulk, row
<1>8. CASE \/ \E c \in Batches : Heal(c)
           \/ \E m \in Msgs : BecomeDue(m)
           \/ Time
           \/ UNCHANGED bulkVars
  BY <1>6, <1>8 DEF Heal, BecomeDue, Time, LeaseExpires, RetryDue, bulk, bulkVars, vars, hand, row,
     BulkTypeOK
<1> QED BY <1>2, <1>3, <1>4, <1>5, <1>7, <1>8 DEF BulkNext

-----------------------------------------------------------------------------
(* The theorems.                                                            *)

LEMMA BulkInitial == BulkInit => TypeOK /\ BasicInv /\ BulkInv
<1> SUFFICES ASSUME BulkInit PROVE TypeOK /\ BasicInv /\ BulkInv
  OBVIOUS
<1>1. TypeOK /\ BasicInv
  BY TypeInit, BasicInit DEF BulkInit
<1> QED BY <1>1 DEF BulkInit, Init, BulkInv, BulkTypeOK, StageInv, BatchFirst, CompletedIsSettled,
           OpenIsAttended, Items

LEMMA BulkInductive ==
  TypeOK /\ BasicInv /\ BulkInv /\ [BulkNext]_bulkVars => TypeOK' /\ BasicInv' /\ BulkInv'
<1> SUFFICES ASSUME TypeOK, BasicInv, BulkInv, [BulkNext]_bulkVars
             PROVE  TypeOK' /\ BasicInv' /\ BulkInv'
  OBVIOUS
<1> USE DEF BulkInv
<1>1. TypeOK' /\ BasicInv'
  BY BulkStep, TypeStep, BasicStep, NewStepTypes, NewStepBasic
<1> QED BY <1>1, BulkTypeStep, StageStep, BatchFirstStep, CompletedStep, AttendedStep

\* Whatever the batches, the rows, the workers and the failures: every state the bulk
\* sends reach satisfies BulkInv, and the Log rows are typed and leased as Message rows.
THEOREM BulkCorrect == BulkSpec => [](TypeOK /\ BasicInv /\ BulkInv)
BY BulkInitial, BulkInductive, PTL DEF BulkSpec

\* A batch is reported complete only when every one of its rows has a final status.
THEOREM Completed == BulkSpec => []CompletedIsSettled
<1>1. BulkInv => CompletedIsSettled
  BY DEF BulkInv
<1> QED BY <1>1, BulkCorrect, PTL

\* Of the handlers that settle the last rows of a batch, one counts that nothing
\* remains, however many there are and however their counts interleave.
THEOREM OpenAttended == BulkSpec => []OpenIsAttended
<1>1. BulkInv => OpenIsAttended
  BY DEF BulkInv
<1> QED BY <1>1, BulkCorrect, PTL


-----------------------------------------------------------------------------
(* Log rows implement what a client is promised of a message, when every     *)
(* worker id names one handler.                                              *)

LEMMA FailStartDelivery ==
  ASSUME SoleHandler, TypeOK, BasicInv, DeliveryInv, NEW x \in Handlers, FailStart(x)
  PROVE  DeliveryInv'
<1>1. /\ pc[x] = "start" /\ UNCHANGED row /\ UNCHANGED accepted /\ Msg(x) \in Msgs
      /\ LeaseMatchesStatus /\ AcceptedIsAccounted /\ HandlerInv(x)
  BY DEF FailStart, TypeOK, HandlerType, Msg, BasicInv, DeliveryInv
<1>2. pc' = [pc EXCEPT ![x] = "failed"] /\ work' = work /\ Step(x, "failed")
  BY DEF FailStart, Throw, Step
<1>3. pc'[x] = "failed" /\ Msg(x)' = Msg(x) /\ Owns(x)' = Owns(x)
  BY <1>1, <1>2 DEF TypeOK, HandlerType, Msg, Owns, row
<1>4. Owns(x) => Msg(x) \notin accepted
  BY <1>1 DEF HandlerInv, Owns, AcceptedIsAccounted
<1>5. HandlerInv(x)'
  BY <1>1, <1>3, <1>4 DEF HandlerInv
<1>6. Frame(x, {"failed"})
  BY <1>2, FrameStep
<1> QED BY <1>1, <1>5, <1>6, DeliveryQuiet

LEMMA NewStepDelivery ==
  ASSUME SoleHandler, TypeOK, BasicInv, DeliveryInv, BatchFirst, NewStep
  PROVE  DeliveryInv'
<1> DEFINE Kept(m) == /\ status'[m] = status[m] /\ owner'[m] = owner[m]
                      /\ started'[m] = started[m]
           Opened(m) == /\ status[m] \in {"none", "ENQUEUE_PENDING", "PENDING"}
                        /\ status'[m] \in {"QUEUED", "ENQUEUE_PENDING", "PENDING"}
           Recovered(m) == /\ status[m] = "PROCESSING" /\ started'[m] = started[m]
                           /\ status'[m] = RecoveredStatus(m)
<1>1. ASSUME UNCHANGED <<hand, accepted>>, \A m \in Msgs : Kept(m) \/ Opened(m) \/ Recovered(m)
      PROVE  DeliveryInv'
  BY <1>1, DeliveryElsewhere DEF RecoveredStatus, hand
<1>2. ASSUME NEW x \in Handlers, GiveBack(x) PROVE DeliveryInv'
  <2>1. /\ pc[x] # "idle" /\ RowByHandler(x) /\ UNCHANGED accepted
        /\ AcceptedIsAccounted' /\ LeaseMatchesStatus
    BY <1>2 DEF GiveBack, RowByHandler, BasicInv, DeliveryInv, AcceptedIsAccounted, row
  <2> QED BY <1>2, <2>1, ReturnEnds, DeliveryReturn DEF GiveBack
<1>3. ASSUME NEW b \in Batches, PostBatch(b) PROVE DeliveryInv'
  BY <1>1, <1>3, PostBatchRows DEF Items
<1>4. ASSUME NEW t \in Ticks, ClaimDueLogs(t) PROVE DeliveryInv'
  BY <1>1, <1>4 DEF ClaimDueLogs, DueLogs, SetStatus
<1>5. ASSUME NEW t \in Ticks, NEW S \in SUBSET Msgs, NEW p, RecoverSome(t, S, p) PROVE DeliveryInv'
  BY <1>1, <1>5 DEF RecoverSome, Expired
<1> QED BY <1>2, <1>3, <1>4, <1>5, FailStartDelivery DEF NewStep

LEMMA RefineBatch ==
  ASSUME TypeOK, BatchFirst, NEW b \in Batches, PostBatch(b)
  PROVE  Refined
<1>1. PICK n \in Msgs : n \in Items(b)
  BY BulkAssumption DEF Items
<1>2. Items(b) # {} /\ Items(b) \subseteq Msgs
  BY <1>1 DEF Items
<1>3. ASSUME NEW m \in Items(b) PROVE Life(m) = "absent" /\ Life(m)' = "open"
  <2>1. status[m] = "none" /\ status'[m] \in Claimable
    BY <1>3, PostBatchRows DEF Claimable
  <2> QED BY <1>2, <1>3, <2>1, LifeValues, LifeValuesNext
<1>4. ASSUME NEW m \in Msgs \ Items(b) PROVE Life(m)' = Life(m)
  BY <1>4, PostBatchRows DEF Life
<1>5. [m \in Msgs |-> Life(m)]' = [m \in Msgs |-> IF m \in Items(b) THEN "open" ELSE Life(m)]
  BY <1>3, <1>4
<1>6. UNCHANGED accepted
  BY PostBatchRows
<1>7. Lifecycle!SubmitAll(Items(b))
  BY <1>2, <1>3, <1>5, <1>6 DEF Lifecycle!SubmitAll
<1> QED BY <1>2, <1>7 DEF Refined, Lifecycle!Next

LEMMA NewStepRefined ==
  ASSUME TypeOK, BatchFirst, NewStep
  PROVE  Refined
<1>1. ASSUME NEW x \in Handlers, FailStart(x) \/ GiveBack(x) PROVE Refined
  BY <1>1, SameLife DEF FailStart, GiveBack, Refined, row
<1>2. ASSUME NEW t \in Ticks, ClaimDueLogs(t) PROVE Refined
  <2>1. /\ UNCHANGED <<accepted, started>>
        /\ \A n \in Msgs : status'[n] = status[n]
                             \/ (status[n] = "ENQUEUE_PENDING" /\ status'[n] = "PENDING")
    BY <1>2 DEF ClaimDueLogs, DueLogs, SetStatus
  <2> QED BY <2>1, SameLife DEF Refined, Claimable
<1> QED BY <1>1, <1>2, RefineBatch, RefineRecover DEF NewStep

\* With one handler to a worker id, an acknowledged item of a batch is never sent again
\* nor reported failed, and its outcome is final, as for a message of the V1 API.
THEOREM BulkRefinement == SoleHandler /\ BulkSpec => ImplementsLifecycle
<1>1. CASE SoleHandler
  <2>1. TypeOK /\ BasicInv /\ BulkInv /\ DeliveryInv /\ [BulkNext]_bulkVars => DeliveryInv'
    BY <1>1, BulkStep, DeliveryStep, NewStepDelivery DEF BulkInv
  <2>2. TypeOK /\ BasicInv /\ BulkInv /\ DeliveryInv /\ [BulkNext]_bulkVars
          => [Lifecycle!Next]_(Lifecycle!vars)
    BY <1>1, BulkStep, RefineStep, NewStepRefined DEF BulkInv, Refined
  <2>3. BulkInit => DeliveryInv /\ Lifecycle!Init
    BY DeliveryInit, RefineInit DEF BulkInit
  <2> QED BY <2>1, <2>2, <2>3, BulkCorrect, PTL DEF BulkSpec, ImplementsLifecycle, Lifecycle!Spec
<1> QED BY <1>1

=============================================================================
