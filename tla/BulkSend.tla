------------------------------ MODULE BulkSend ------------------------------
(***************************************************************************)
(* Paced bulk sends: a batch and its Log rows, the rows' way through the     *)
(* reconciler and the V2 half of the consumer, the completion of the batch,  *)
(* and the page that watches it.                                             *)
(*                                                                          *)
(* A Log row is claimed, leased, delivered, retried and recovered by the     *)
(* same guarded updates as a Message row, so this module EXTENDS             *)
(* MailDelivery, reads its Msgs as Log rows, and adds what differs: the      *)
(* handler validates and finds the row in two calls, counts its batch after  *)
(* a final status, the recovery takes two statements and completes no batch, *)
(* a row is published only when its schedule says so, and at most Chunk      *)
(* rows by one iteration.                                                    *)
(***************************************************************************)
EXTENDS MailDelivery, FiniteSets

CONSTANTS
  Batches,   \* bulk batches
  BatchOf,   \* the batch of each Log row
  Chunk,     \* DUE_ENQUEUE_CHUNK_SIZE, 50 in the code
  ReadFaults \* the reads and the batch update of a V2 handler may fail

\* A request none of whose recipients is accepted commits no batch.
ASSUME BulkAssumption ==
  /\ BatchOf \in [Msgs -> Batches]
  /\ \A b \in Batches : \E m \in Msgs : BatchOf[m] = b
  /\ Chunk \in Nat \ {0} /\ ReadFaults \in BOOLEAN
  /\ IsFiniteSet(Msgs)

VARIABLES
  stage,   \* what the handler awaits besides pc: row, template, count, batch
  due,     \* Log.scheduledFor is past
  batch,   \* BulkSendBatch.completedAt is set, or not, or there is no row
  lost     \* history: batches one of whose counts a fault has prevented

bulk == <<stage, due, batch, lost>>
bulkVars == <<vars, bulk>>

Items(b) == {m \in Msgs : BatchOf[m] = b}
Settled(b) == \A m \in Items(b) : status[m] \in Terminal

BulkInit ==
  /\ Init
  /\ stage = [x \in Handlers |-> "none"]
  /\ due = [m \in Msgs |-> FALSE]
  /\ batch = [b \in Batches |-> "none"]
  /\ lost = {}

-----------------------------------------------------------------------------
(* What the steps have in common.                                           *)

\* A handler that returned or died waits for nothing.
Resume(x, s) ==
  stage' = [y \in Handlers |-> IF pc'[y] = "idle" THEN "none"
                               ELSE IF y = x THEN s ELSE stage[y]]

Counting(x, b) == stage[x] \in {"count", "complete"} /\ BatchOf[Msg(x)] = b

\* A row was settled by the recovery, by a store whose answer was lost or by a handler
\* that died of it, or a handler that was to count will not.
NoteLost ==
  lost' = lost \union {b \in Batches :
    \/ \E m \in Items(b) :
         /\ status[m] \notin Terminal /\ status'[m] \in Terminal
         /\ ~ \E x \in Handlers : pc'[x] = "ack" /\ pc[x] # "ack" /\ Msg(x) = m
    \/ \E x \in Handlers : Counting(x, b) /\ pc'[x] = "idle"}

-----------------------------------------------------------------------------
(* The batch. POST /api/send/bulk commits it with its rows in one            *)
(* transaction, and the schedule is kept by the rows.                        *)

PostBatch(b) ==
  /\ batch[b] = "none"
  /\ batch' = [batch EXCEPT ![b] = "open"]
  /\ SetStatus(Items(b), "ENQUEUE_PENDING")
  /\ api' = [m \in Msgs |-> IF m \in Items(b) THEN "done" ELSE api[m]]
  /\ UNCHANGED <<broker, dlq, hand, recon, up, accepted, stage, due, lost>>

BecomeDue(m) ==
  /\ batch[BatchOf[m]] # "none" /\ ~due[m]
  /\ due' = [due EXCEPT ![m] = TRUE]
  /\ UNCHANGED <<vars, stage, batch, lost>>

-----------------------------------------------------------------------------
(* The consumer: handleMessage for a V2 job.                                *)

\* validateAccount and validateTemplate; a read that throws dead-letters the job.
Validate(x) ==
  /\ pc[x] = "load" /\ stage[x] = "none"
  /\ \/ Goto(x, "load") /\ Resume(x, "find")
     \/ "db" \in Faults /\ Goto(x, "malformed") /\ Resume(x, "none")
  /\ UNCHANGED <<row, dlq, api, accepted>>

\* findLogById, then the early return on a final status. Every job of this
\* repository names an existing row.
FindLog(x) ==
  /\ pc[x] = "load" /\ stage[x] = "find"
  /\ \/ status[Msg(x)] \in Terminal /\ Ack(x)
     \/ status[Msg(x)] \notin Terminal /\ Goto(x, "claim")
  /\ Resume(x, "none")
  /\ UNCHANGED <<row, dlq, api, accepted>>

ClaimLog(x) == Claim(x) /\ Resume(x, "none")

\* The row's account and template, the circuit breaker's verdict.
GetCredentials(x) ==
  /\ Prepare(x)
  /\ Resume(x, IF pc'[x] = "start" THEN "template" ELSE "none")

\* compileTemplate: what is missing or malformed is permanent; a store that cannot
\* be read for the moment is neither permanent nor retryable, and so final as well.
CompileTemplate(x) ==
  /\ stage[x] = "template"
  /\ \/ Goto(x, "start")
     \/ Throw(x, "permanent")
     \/ ReadFaults /\ Throw(x, "other")
  /\ Resume(x, "none")
  /\ UNCHANGED <<row, dlq, api, accepted>>

\* createTransport throws a ValueError, or markDeliveryAttemptStarted is awaited.
StartDelivery(x) ==
  /\ stage[x] = "none"
  /\ \/ Start(x)
     \/ pc[x] = "start" /\ Throw(x, "permanent") /\ UNCHANGED <<row, dlq, api, accepted>>
  /\ Resume(x, "none")

SendMail(x) == (SmtpAccepted(x) \/ SmtpFailed(x)) /\ Resume(x, "none")

\* updateLogStatus with a final status goes on to count the batch.
\* Mutant: only deliveries are counted.
StoreFinal_SentOnly(x) ==
  /\ StoreSent(x) \/ StoreDead(x)
  /\ Resume(x, IF pc'[x] = "ack" /\ pc[x] = "sent" THEN "count" ELSE "none")

StoreFinal(x) ==
  /\ StoreSent(x) \/ StoreDead(x)
  /\ Resume(x, IF pc'[x] = "ack" THEN "count" ELSE "none")

Remaining(b) == {m \in Items(b) : status[m] \notin Terminal}

\* Mutant: claimed rows are forgotten when the rest of the batch is counted.
CountItems_NotClaimed(x) ==
  /\ stage[x] = "count"
  /\ UNCHANGED <<vars, batch>>
  /\ Resume(x, IF \A m \in Remaining(BatchOf[Msg(x)]) : status[m] = "PROCESSING"
               THEN "complete" ELSE "none")

CountItems(x) ==
  /\ stage[x] = "count"
  /\ UNCHANGED <<vars, batch>>
  /\ Resume(x, IF Remaining(BatchOf[Msg(x)]) = {} THEN "complete" ELSE "none")

CompleteBatch(x) ==
  /\ stage[x] = "complete"
  /\ batch' = [batch EXCEPT ![BatchOf[Msg(x)]] = "complete"]
  /\ UNCHANGED vars
  /\ Resume(x, "none")

\* findLogById, the count or the update of the batch throws: the copy is requeued,
\* and a row that was settled is not counted again.
ReadFails(x) ==
  /\ ReadFaults /\ stage[x] \in {"find", "count", "complete"}
  /\ \/ UNCHANGED batch
     \/ stage[x] = "complete" /\ batch' = [batch EXCEPT ![BatchOf[Msg(x)]] = "complete"]
  /\ Nack(x)
  /\ UNCHANGED <<row, dlq, api, accepted>>
  /\ Resume(x, "none")

AckJob(x) == stage[x] = "none" /\ AckDone(x) /\ Resume(x, "none")

\* The catch block: markDeliveryAttemptFailed and the choice it leads to, then a
\* retry or the dead-letter queue.
MarkAttemptFailed(x) == MarkFailed(x) /\ Resume(x, "none")

RetryOrBury(x) ==
  /\ \/ DeadLetterMalformed(x) \/ PublishRetry(x) \/ PublishRetryFailed(x)
     \/ StoreRetrying(x) \/ PublishDeadLetter(x)
  /\ Resume(x, "none")

HandleJob(x) ==
  /\ \/ /\ \/ Validate(x) \/ FindLog(x) \/ ClaimLog(x) \/ GetCredentials(x)
           \/ CompileTemplate(x) \/ StartDelivery(x) \/ SendMail(x) \/ StoreFinal(x)
           \/ AckJob(x) \/ MarkAttemptFailed(x) \/ RetryOrBury(x)
        /\ UNCHANGED batch
     \/ CountItems(x) \/ CompleteBatch(x) \/ ReadFails(x)
  /\ NoteLost
  /\ UNCHANGED due

DeliverJob(x) ==
  /\ \E c \in Copies : Deliver(x, c)
  /\ UNCHANGED bulk

-----------------------------------------------------------------------------
(* The reconciler: the Log half of an iteration.                            *)

\* recoverExpiredProcessingLeases: one statement for the attempts SMTP may have
\* seen, and one for the others.
RecoverUncertain(t) ==
  /\ HostOf[t] \in up
  /\ tick[t] = "idle"
  /\ LET S == {m \in Msgs : Expired(m) /\ started[m]} IN
     /\ status' = [m \in Msgs |-> IF m \in S THEN "DELIVERY_UNCERTAIN" ELSE status[m]]
     /\ owner' = [m \in Msgs |-> IF m \in S THEN None ELSE owner[m]]
     /\ lease' = [m \in Msgs |-> IF m \in S THEN "none" ELSE lease[m]]
  /\ Advance(t, "requeue", {}, None)
  /\ UNCHANGED <<started, broker, dlq, hand, api, up, accepted>>

\* Mutant: the second statement forgets deliveryAttemptStartedAt.
RequeueExpired_Any(t) ==
  /\ tick[t] = "requeue"
  /\ status' = [m \in Msgs |-> IF Expired(m) THEN "ENQUEUE_PENDING" ELSE status[m]]
  /\ owner' = [m \in Msgs |-> IF Expired(m) THEN None ELSE owner[m]]
  /\ lease' = [m \in Msgs |-> IF Expired(m) THEN "none" ELSE lease[m]]
  /\ Advance(t, "release", {}, None)
  /\ UNCHANGED <<started, broker, dlq, hand, api, up, accepted>>

RequeueExpired(t) ==
  /\ tick[t] = "requeue"
  /\ LET S == {m \in Msgs : Expired(m) /\ ~started[m]} IN
     /\ status' = [m \in Msgs |-> IF m \in S THEN "ENQUEUE_PENDING" ELSE status[m]]
     /\ owner' = [m \in Msgs |-> IF m \in S THEN None ELSE owner[m]]
     /\ lease' = [m \in Msgs |-> IF m \in S THEN "none" ELSE lease[m]]
  /\ Advance(t, "release", {}, None)
  /\ UNCHANGED <<started, broker, dlq, hand, api, up, accepted>>

DueLogs == {m \in Msgs : status[m] = "ENQUEUE_PENDING" /\ due[m]}

\* claimDueEnqueuePending: the rows whose time has come, Chunk at most.
ClaimDueLogs(t) ==
  /\ tick[t] = "claim"
  /\ \E S \in SUBSET DueLogs :
       /\ Cardinality(S) = Chunk \/ (S = DueLogs /\ Cardinality(S) < Chunk)
       /\ SetStatus(S, "PENDING")
       /\ Advance(t, IF S = {} THEN "idle" ELSE "publish", S, None)
  /\ UNCHANGED <<broker, dlq, hand, api, up, accepted>>

\* markQueuedAfterPublish, or releaseEnqueueClaim where the publish failed.
SettleClaim(t) == TickMarkQueued(t) \/ ReleaseClaim(t)

ReconcileLogs(t) ==
  /\ \/ RecoverUncertain(t) \/ RequeueExpired(t) \/ ReleaseStale(t) \/ ClaimDueLogs(t)
     \/ \E m \in Msgs : Republish(t, m) \/ RepublishFailed(t, m)
     \/ SettleClaim(t) \/ TickThrows(t)
  /\ UNCHANGED <<stage, due, batch>>
  /\ NoteLost

-----------------------------------------------------------------------------
(* GET /api/send/bulk/{id}: a reader who finds every row settled completes    *)
(* the batch, where completedAt is null.                                     *)

Heal(b) ==
  /\ batch[b] = "open" /\ Settled(b)
  /\ batch' = [batch EXCEPT ![b] = "complete"]
  /\ UNCHANGED <<vars, stage, due, lost>>

-----------------------------------------------------------------------------
Time == (\E m \in Msgs : LeaseExpires(m) \/ \E c \in Copies : RetryDue(c)) /\ UNCHANGED bulk

LoseWorker(w) ==
  /\ Crash(w)
  /\ stage' = [y \in Handlers |-> IF pc'[y] = "idle" THEN "none" ELSE stage[y]]
  /\ NoteLost
  /\ UNCHANGED <<due, batch>>

BulkNext ==
  \/ \E b \in Batches : PostBatch(b)
  \/ \E m \in Msgs : BecomeDue(m)
  \/ \E x \in Handlers : HandleJob(x) \/ DeliverJob(x)
  \/ \E t \in Ticks : ReconcileLogs(t)
  \/ Time
  \/ \E w \in Workers : LoseWorker(w)
  \/ \E b \in Batches : Heal(b)

BulkSpec == BulkInit /\ [][BulkNext]_bulkVars

-----------------------------------------------------------------------------
(* Properties. NeverResent, TerminalIsFinal and the other properties of a     *)
(* row follow for Log rows from ImplementsLifecycle.                         *)

\* A batch is reported complete only when each of its rows has a final status,
\* whichever handler counted and whoever read it: updateLogStatus counts after
\* its own update, and no recovery or late publisher opens a row again.
CompletedIsSettled == \A b \in Batches : batch[b] = "complete" => Settled(b)

\* Of the handlers that settle the last rows of a batch at the same time, one sees
\* that nothing remains: a settled batch is open only while a handler is on its way
\* to count it, or after one of the losses that a reader has to make good (a worker
\* that died or a call that failed between the two, a row settled by the recovery).
OpenIsAttended ==
  \A b \in Batches : batch[b] = "open" /\ Settled(b) =>
    b \in lost \/ \E x \in Handlers : Counting(x, b)

-----------------------------------------------------------------------------
(* Why they hold. With TypeOK and LeaseMatchesStatus of MailDelivery, which   *)
(* make a final status final, the following is inductive.                   *)

BulkTypeOK ==
  /\ stage \in [Handlers -> {"none", "find", "template", "count", "complete"}]
  /\ due \in [Msgs -> BOOLEAN]
  /\ batch \in [Batches -> {"none", "open", "complete"}]
  /\ lost \subseteq Batches

\* What a handler awaits besides pc, at which point of its own, and what the one
\* that is about to write the batch has seen.
StageInv ==
  \A x \in Handlers :
    /\ stage[x] = "find" => pc[x] = "load"
    /\ stage[x] = "template" => pc[x] = "start"
    /\ stage[x] \in {"count", "complete"} => pc[x] = "ack"
    /\ stage[x] = "complete" => Settled(BatchOf[Msg(x)])

\* The rows are there from the transaction that commits their batch.
BatchFirst ==
  \A b \in Batches : batch[b] = "none" => \A m \in Items(b) : status[m] = "none"

BulkInv ==
  BulkTypeOK /\ StageInv /\ BatchFirst /\ CompletedIsSettled /\ OpenIsAttended

=============================================================================
