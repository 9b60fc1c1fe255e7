---------------------------- MODULE MailDelivery ----------------------------
(***************************************************************************)
(* The path of an accepted message from the HTTP API to SMTP: the row the   *)
(* API commits, the copies RabbitMQ holds of it, the worker's consumer that *)
(* claims a lease on the row and hands the message to SMTP, and the         *)
(* reconciler that repairs what a failure left behind.                      *)
(*                                                                          *)
(* The row's status is the only thing the processes share besides the       *)
(* broker; every step below is one awaited call of the code (one database   *)
(* transaction, one publish, one SMTP exchange), so that the interleavings   *)
(* are those of the event loops of several processes.                       *)
(*                                                                          *)
(* Time is abstracted to its order: a lease is live or expired, and the     *)
(* CONSTANT Faults says which failures and delays a run injects.            *)
(***************************************************************************)
EXTENDS Naturals

CONSTANTS
  Msgs,        \* messages the API may accept
  Workers,     \* worker processes; the id is config.workerId
  Handlers,    \* concurrent executions of handleImmutableMessage (prefetch)
  Ticks,       \* concurrent iterations of the reconciler's setInterval callback
  HostOf,      \* the worker process each handler and tick runs in
  Copies,      \* the broker's capacity: bounds the copies that exist at once
  MaxRetries,  \* config.maxRetries
  Faults,      \* the failures this instance injects
  None         \* SQL NULL, and "no copy", "no message"

(***************************************************************************)
(* "db"         a database call throws, having committed or not             *)
(* "broker"     a publish is not confirmed, having reached the queue or not *)
(* "crash"      a worker process dies; its replacement draws a new workerId *)
(* "disconnect" a worker loses its AMQP connection and keeps its handlers   *)
(* "slow"       a process outlasts a lease or a reconciler threshold        *)
(* "early"      a retry's delay (1.6s at first) ends before its publish is  *)
(*              confirmed (up to 5s) and RETRYING is stored                 *)
(***************************************************************************)
FaultKinds == {"db", "broker", "crash", "disconnect", "slow", "early"}

ASSUME ConstantsAssumption ==
  /\ HostOf \in [Handlers \union Ticks -> Workers]
  /\ MaxRetries \in Nat
  /\ Faults \subseteq FaultKinds
  /\ None \notin Msgs \union Workers \union Copies

VARIABLES
  status,    \* Message.status, "none" before the row exists
  owner,     \* Message.processingOwner
  lease,     \* Message.processingLeaseExpiresAt against the clock
  started,   \* Message.deliveryAttemptStartedAt is set
  broker,    \* what each copy is and where: main queue, retry queue, unacked
  dlq,       \* messages with a copy in the dead-letter queue
  pc,        \* the handler's next awaited call
  work,      \* the queue message the handler was given
  held,      \* the unacked copy the handler can still ack, None after a disconnect
  err,       \* the class of the error the handler caught
  api,       \* the request handler that accepted the message
  tick,      \* the reconciler iteration's next awaited call
  todo,      \* the messages it claimed and has not published
  cur,       \* the message its publish loop is at
  up,        \* the worker processes that run
  accepted   \* history: messages the SMTP server acknowledged to a handler

row  == <<status, owner, lease, started>>
hand == <<pc, work, held, err>>
recon == <<tick, todo, cur>>
vars == <<status, owner, lease, started, broker, dlq, pc, work, held, err,
          api, tick, todo, cur, up, accepted>>

\* Mutant: an uncertain delivery may be claimed again.
Claimable_Uncertain == {"ENQUEUE_PENDING", "QUEUED", "RETRYING", "PENDING", "DELIVERY_UNCERTAIN"}
Claimable == {"ENQUEUE_PENDING", "QUEUED", "RETRYING", "PENDING"}
Terminal  == {"SENT", "FAILED", "DEAD", "DELIVERY_UNCERTAIN"}
Status    == Claimable \union Terminal \union {"PROCESSING"}

NoWork   == [msg |-> None, attempt |-> 0]
NoCopy   == [at |-> "free", msg |-> None, attempt |-> 0]

\* The points of handleImmutableMessage that follow a successful claim.
Working == {"prepare", "start", "smtp", "sent", "failed",
            "retry", "retrying", "bury", "buried"}
HandlerPc == Working \union {"idle", "load", "malformed", "claim", "ack"}
\* "requeue" is a step of the Log rows' recovery only, which takes two statements.
TickPc == {"idle", "requeue", "release", "claim", "publish", "mark", "unclaim"}
Errors == {"none", "retryable", "permanent", "other"}

Msg(x) == work[x].msg
Attempt(x) == work[x].attempt
HandlersOf(w) == {x \in Handlers : HostOf[x] = w}
TicksOf(w) == {t \in Ticks : HostOf[t] = w}

RowType ==
  /\ status \in [Msgs -> Status \union {"none"}]
  /\ owner \in [Msgs -> Workers \union {None}]
  /\ lease \in [Msgs -> {"none", "live", "expired"}]
  /\ started \in [Msgs -> BOOLEAN]
  /\ api \in [Msgs -> {"idle", "publish", "mark", "done"}]
  /\ accepted \subseteq Msgs
  /\ dlq \subseteq Msgs

Place == {"free", "main", "retry", "held"}
CopyType == [at : Place, msg : Msgs \union {None}, attempt : 0..MaxRetries]

BrokerType ==
  /\ broker \in [Copies -> CopyType]
  /\ \A c \in Copies : broker[c].at # "free" => broker[c].msg \in Msgs

\* The last conjunct: an unacked copy is in the hands of one handler.
HandlerType ==
  /\ pc \in [Handlers -> HandlerPc]
  /\ work \in [Handlers -> [msg : Msgs \union {None}, attempt : 0..MaxRetries]]
  /\ held \in [Handlers -> Copies \union {None}]
  /\ err \in [Handlers -> Errors]
  /\ \A x \in Handlers : pc[x] # "idle" => work[x].msg \in Msgs
  /\ \A x \in Handlers : pc[x] = "retry" => work[x].attempt < MaxRetries
  /\ \A x \in Handlers : held[x] # None => broker[held[x]].at = "held"
  /\ \A x, y \in Handlers : held[x] # None /\ held[x] = held[y] => x = y

ReconcilerType ==
  /\ tick \in [Ticks -> TickPc]
  /\ todo \in [Ticks -> SUBSET Msgs]
  /\ cur \in [Ticks -> Msgs \union {None}]
  /\ \A t \in Ticks : tick[t] \in {"mark", "unclaim"} => cur[t] \in Msgs
  /\ up \subseteq Workers

TypeOK == RowType /\ BrokerType /\ HandlerType /\ ReconcilerType

Init ==
  /\ status = [m \in Msgs |-> "none"]
  /\ owner = [m \in Msgs |-> None]
  /\ lease = [m \in Msgs |-> "none"]
  /\ started = [m \in Msgs |-> FALSE]
  /\ broker = [c \in Copies |-> NoCopy]
  /\ dlq = {}
  /\ pc = [x \in Handlers |-> "idle"]
  /\ work = [x \in Handlers |-> NoWork]
  /\ held = [x \in Handlers |-> None]
  /\ err = [x \in Handlers |-> "none"]
  /\ api = [m \in Msgs |-> "idle"]
  /\ tick = [t \in Ticks |-> "idle"]
  /\ todo = [t \in Ticks |-> {}]
  /\ cur = [t \in Ticks |-> None]
  /\ up = Workers
  /\ accepted = {}

-----------------------------------------------------------------------------
(* The broker.                                                              *)

\* A publish that reaches its queue.
Put(c, place, m, a) ==
  /\ broker[c].at = "free"
  /\ broker' = [broker EXCEPT ![c] = [at |-> place, msg |-> m, attempt |-> a]]

\* The outcome of a publish that is not confirmed: the copy is lost or it is
\* in the queue although the publisher was told otherwise.
PutUnconfirmed(place, m, a) ==
  \/ UNCHANGED broker
  \/ "broker" \in Faults /\ \E c \in Copies : Put(c, place, m, a)

\* The retry queue's TTL ends and the copy is dead-lettered to the main queue.
RetryDue(c) ==
  /\ broker[c].at = "retry"
  /\ \/ "early" \in Faults
     \/ ~ \E x \in Handlers : /\ pc[x] = "retrying" /\ Msg(x) = broker[c].msg
                              /\ Attempt(x) + 1 = broker[c].attempt
  /\ broker' = [broker EXCEPT ![c].at = "main"]
  /\ UNCHANGED <<row, hand, recon, dlq, api, up, accepted>>

-----------------------------------------------------------------------------
(* The row: what the guarded updates of db.ts write.                        *)

\* Mutant: the update forgets to clear processingOwner.
Leave_KeepsOwner(m, s) ==
  /\ status' = [status EXCEPT ![m] = s]
  /\ lease' = [lease EXCEPT ![m] = "none"]
  /\ UNCHANGED <<owner, started>>

\* updateMany / update that moves the row to s and gives the lease back.
Leave(m, s) ==
  /\ status' = [status EXCEPT ![m] = s]
  /\ owner' = [owner EXCEPT ![m] = None]
  /\ lease' = [lease EXCEPT ![m] = "none"]
  /\ UNCHANGED started

SetStatus(S, s) ==
  /\ status' = [m \in Msgs |-> IF m \in S THEN s ELSE status[m]]
  /\ UNCHANGED <<owner, lease, started>>

\* A reconciler iteration has claimed m and not finished with it.
InProgress(m) == \E t \in Ticks : m \in todo[t]

\* A call that is to move m's row on is under way.
Attended(m) ==
  \/ \E x \in Handlers : pc[x] \in Working /\ Msg(x) = m /\ HostOf[x] = owner[m]
  \/ api[m] \in {"publish", "mark"}
  \/ InProgress(m)

\* A lease (two minutes) runs out; without "slow" only after every such call.
LeaseExpires(m) ==
  /\ lease[m] = "live"
  /\ "slow" \in Faults \/ ~Attended(m)
  /\ lease' = [lease EXCEPT ![m] = "expired"]
  /\ UNCHANGED <<status, owner, started, broker, dlq, hand, api, recon, up, accepted>>

-----------------------------------------------------------------------------
(* The API: acceptInlineMessage commits the row, publishMessageRecord       *)
(* publishes it and marks it QUEUED. A replay of the request does neither.  *)

Accept(m) ==
  /\ status[m] = "none"
  /\ api' = [api EXCEPT ![m] = "publish"]
  /\ status' = [status EXCEPT ![m] = "ENQUEUE_PENDING"]
  /\ UNCHANGED <<owner, lease, started, broker, dlq, hand, recon, up, accepted>>

ApiPublish(m) ==
  /\ api[m] = "publish"
  /\ \/ /\ \E c \in Copies : Put(c, "main", m, 0)
        /\ api' = [api EXCEPT ![m] = "mark"]
     \/ /\ "broker" \in Faults
        /\ PutUnconfirmed("main", m, 0)
        /\ api' = [api EXCEPT ![m] = "done"]
  /\ UNCHANGED <<row, dlq, hand, recon, up, accepted>>

\* Mutant: the update is not guarded by the status.
MarkQueued_AnyStatus(m) == SetStatus({m}, "QUEUED")

MarkQueued(m) ==
  SetStatus(IF status[m] \in {"ENQUEUE_PENDING", "PENDING"} THEN {m} ELSE {}, "QUEUED")

ApiMarkQueued(m) ==
  /\ api[m] = "mark"
  /\ api' = [api EXCEPT ![m] = "done"]
  /\ \/ MarkQueued(m)
     \/ "db" \in Faults /\ UNCHANGED row
  /\ UNCHANGED <<broker, dlq, hand, recon, up, accepted>>

-----------------------------------------------------------------------------
(* The consumer: handleImmutableMessage.                                    *)

\* The process of w exits: its unacked copies go back to the main queue and
\* whatever its handlers and ticks were doing stops where it was.
Requeue(w) ==
  broker' = [c \in Copies |->
               IF \E x \in HandlersOf(w) : held[x] = c
               THEN [broker[c] EXCEPT !.at = "main"] ELSE broker[c]]

Exit(w) ==
  /\ up' = up \ {w}
  /\ Requeue(w)
  /\ pc' = [x \in Handlers |-> IF HostOf[x] = w THEN "idle" ELSE pc[x]]
  /\ work' = [x \in Handlers |-> IF HostOf[x] = w THEN NoWork ELSE work[x]]
  /\ held' = [x \in Handlers |-> IF HostOf[x] = w THEN None ELSE held[x]]
  /\ err' = [x \in Handlers |-> IF HostOf[x] = w THEN "none" ELSE err[x]]
  /\ tick' = [t \in Ticks |-> IF HostOf[t] = w THEN "idle" ELSE tick[t]]
  /\ todo' = [t \in Ticks |-> IF HostOf[t] = w THEN {} ELSE todo[t]]
  /\ cur' = [t \in Ticks |-> IF HostOf[t] = w THEN None ELSE cur[t]]

\* The handler returns.
Finish(x) ==
  /\ pc' = [pc EXCEPT ![x] = "idle"]
  /\ work' = [work EXCEPT ![x] = NoWork]
  /\ held' = [held EXCEPT ![x] = None]
  /\ err' = [err EXCEPT ![x] = "none"]
  /\ UNCHANGED <<recon, up>>

\* channel.ack and channel.nack throw on a closed channel, and the nack of the
\* callback's own catch throws again: the rejection nobody handles ends the
\* process.
Ack(x) ==
  \/ /\ held[x] # None
     /\ broker' = [broker EXCEPT ![held[x]] = NoCopy]
     /\ Finish(x)
  \/ held[x] = None /\ Exit(HostOf[x])

Nack(x) ==
  \/ /\ held[x] # None
     /\ broker' = [broker EXCEPT ![held[x]].at = "main"]
     /\ Finish(x)
  \/ held[x] = None /\ Exit(HostOf[x])

Step(x, p) ==
  /\ pc' = [pc EXCEPT ![x] = p]
  /\ UNCHANGED <<work, held, recon, up>>

Goto(x, p) == Step(x, p) /\ UNCHANGED <<broker, err>>

Throw(x, e) ==
  /\ Step(x, "failed")
  /\ err' = [err EXCEPT ![x] = e]
  /\ UNCHANGED broker

\* A worker none of whose handlers has lost its channel. A worker connects
\* again once its handlers have drained, or 30 seconds later.
Steady(w) == \A x \in HandlersOf(w) : pc[x] # "idle" => held[x] # None

Deliver(x, c) ==
  /\ HostOf[x] \in up
  /\ Steady(HostOf[x]) \/ "slow" \in Faults
  /\ pc[x] = "idle"
  /\ broker[c].at = "main"
  /\ broker' = [broker EXCEPT ![c].at = "held"]
  /\ pc' = [pc EXCEPT ![x] = "load"]
  /\ work' = [work EXCEPT ![x] = [msg |-> broker[c].msg, attempt |-> broker[c].attempt]]
  /\ held' = [held EXCEPT ![x] = c]
  /\ UNCHANGED <<row, dlq, err, api, recon, up, accepted>>

\* getImmutableMessage, then the early return on a terminal status.
Load(x) ==
  /\ pc[x] = "load"
  /\ \/ status[Msg(x)] \in Terminal /\ Ack(x)
     \/ status[Msg(x)] \notin Terminal /\ Goto(x, "claim")
     \/ "db" \in Faults /\ Goto(x, "malformed")
  /\ UNCHANGED <<row, dlq, api, accepted>>

\* deadLetterMalformedMessage after a load that threw.
DeadLetterMalformed(x) ==
  /\ pc[x] = "malformed"
  /\ \/ /\ held[x] # None
        /\ dlq' = dlq \union {Msg(x)}
        /\ Ack(x)
     \/ /\ held[x] = None \/ "broker" \in Faults
        /\ dlq' \in {dlq, dlq \union {Msg(x)}}
        /\ Nack(x)
  /\ UNCHANGED <<row, api, accepted>>

\* Mutant: an expired lease is taken over even if SMTP may have the message.
CanClaim_Started(m) ==
  \/ status[m] \in Claimable
  \/ status[m] = "PROCESSING" /\ lease[m] = "expired"

CanClaim(m) ==
  \/ status[m] \in Claimable
  \/ status[m] = "PROCESSING" /\ lease[m] = "expired" /\ ~started[m]

ClaimFor(m, w) ==
  /\ status' = [status EXCEPT ![m] = "PROCESSING"]
  /\ owner' = [owner EXCEPT ![m] = w]
  /\ lease' = [lease EXCEPT ![m] = "live"]
  /\ started' = [started EXCEPT ![m] = FALSE]

\* claimMessageForProcessing: an unclaimed copy is acked, a throw requeues it.
Claim(x) ==
  /\ pc[x] = "claim"
  /\ \/ /\ CanClaim(Msg(x))
        /\ ClaimFor(Msg(x), HostOf[x])
        /\ Goto(x, "prepare")
     \/ ~CanClaim(Msg(x)) /\ Ack(x) /\ UNCHANGED row
     \/ /\ "db" \in Faults
        /\ UNCHANGED row \/ (CanClaim(Msg(x)) /\ ClaimFor(Msg(x), HostOf[x]))
        /\ Nack(x)
  /\ UNCHANGED <<dlq, api, accepted>>

\* getCredentials, the circuit breaker's verdict and createTransport: a refused
\* attempt is retryable, a missing account or transport is permanent, and a
\* database error is neither.
Prepare(x) ==
  /\ pc[x] = "prepare"
  /\ \/ Goto(x, "start")
     \/ \E e \in {"retryable", "permanent"} : Throw(x, e)
     \/ "db" \in Faults /\ Throw(x, "other")
  /\ UNCHANGED <<row, dlq, api, accepted>>

CanStart(x) ==
  /\ status[Msg(x)] = "PROCESSING"
  /\ owner[Msg(x)] = HostOf[x]
  /\ lease[Msg(x)] = "live"

\* markMessageDeliveryStarted, the callback that must succeed before SMTP;
\* sendImmutableMail turns its failure into a retryable error.
Start(x) ==
  /\ pc[x] = "start"
  /\ \/ /\ CanStart(x)
        /\ started' = [started EXCEPT ![Msg(x)] = TRUE]
        /\ Goto(x, "smtp")
     \/ /\ ~CanStart(x) /\ UNCHANGED started
        /\ Throw(x, "retryable")
     \/ /\ "db" \in Faults
        /\ \/ UNCHANGED started
           \/ CanStart(x) /\ started' = [started EXCEPT ![Msg(x)] = TRUE]
        /\ Throw(x, "retryable")
  /\ UNCHANGED <<status, owner, lease, dlq, api, accepted>>

\* The SMTP exchange: acknowledged, or an error classifySendError sorts.
SmtpAccepted(x) ==
  /\ pc[x] = "smtp"
  /\ accepted' = accepted \union {Msg(x)}
  /\ Goto(x, "sent")
  /\ UNCHANGED <<row, dlq, api>>

SmtpFailed(x) ==
  /\ pc[x] = "smtp"
  /\ \E e \in {"retryable", "permanent"} : Throw(x, e)
  /\ UNCHANGED <<row, dlq, api, accepted>>

\* Mutant: the update is not guarded by the owner.
CanStore_AnyOwner(x) == Msg(x) \in Msgs

CanStore(x) == owner[Msg(x)] = HostOf[x]

\* updateMessageStatus, guarded by the owner alone; without the lease it throws
\* and the handler requeues its copy.
Store(x, s) ==
  \/ CanStore(x) /\ Leave(Msg(x), s) /\ Goto(x, "ack")
  \/ ~CanStore(x) /\ UNCHANGED row /\ Nack(x)
  \/ /\ "db" \in Faults
     /\ UNCHANGED row \/ (CanStore(x) /\ Leave(Msg(x), s))
     /\ Nack(x)

StoreSent(x) ==
  /\ pc[x] = "sent"
  /\ Store(x, "SENT")
  /\ UNCHANGED <<dlq, api, accepted>>

\* Mutant: the bound is compared with the attempt just made.
WillRetry_OffByOne(x) == err[x] = "retryable" /\ Attempt(x) <= MaxRetries

WillRetry(x) == err[x] = "retryable" /\ Attempt(x) < MaxRetries

\* markMessageDeliveryFailed, then the choice between retry and dead letter.
MarkFailed(x) ==
  LET Reset == IF status[Msg(x)] = "PROCESSING" /\ owner[Msg(x)] = HostOf[x]
               THEN [started EXCEPT ![Msg(x)] = FALSE] ELSE started
  IN
  /\ pc[x] = "failed"
  /\ \/ /\ started' = Reset
        /\ Goto(x, IF WillRetry(x) THEN "retry" ELSE "bury")
     \/ /\ "db" \in Faults
        /\ started' \in {started, Reset}
        /\ Nack(x)
  /\ UNCHANGED <<status, owner, lease, dlq, api, accepted>>

PublishRetry(x) ==
  /\ pc[x] = "retry"
  /\ held[x] # None
  /\ \E c \in Copies : Put(c, "retry", Msg(x), Attempt(x) + 1)
  /\ Step(x, "retrying")
  /\ UNCHANGED <<row, dlq, err, api, accepted>>

\* publishRetry throws: the copy is requeued, and the retry may be there too.
PublishRetryFailed(x) ==
  /\ pc[x] = "retry"
  /\ held[x] = None \/ "broker" \in Faults
  /\ \/ Nack(x)
     \/ /\ held[x] # None
        /\ \E c \in Copies :
             /\ broker[c].at = "free"
             /\ broker' = [broker EXCEPT
                  ![c] = [at |-> "retry", msg |-> Msg(x), attempt |-> Attempt(x) + 1],
                  ![held[x]].at = "main"]
        /\ Finish(x)
  /\ UNCHANGED <<row, dlq, api, accepted>>

StoreRetrying(x) ==
  /\ pc[x] = "retrying"
  /\ Store(x, "RETRYING")
  /\ UNCHANGED <<dlq, api, accepted>>

\* Mutant: a dead letter that could not be published is only logged.
PublishDeadLetter_Logged(x) ==
  /\ pc[x] = "bury"
  /\ dlq' \in {dlq, dlq \union {Msg(x)}}
  /\ Goto(x, "buried")
  /\ UNCHANGED <<row, api, accepted>>

PublishDeadLetter(x) ==
  /\ pc[x] = "bury"
  /\ \/ /\ held[x] # None
        /\ dlq' = dlq \union {Msg(x)}
        /\ Goto(x, "buried")
     \/ /\ held[x] = None \/ "broker" \in Faults
        /\ dlq' \in {dlq, dlq \union {Msg(x)}}
        /\ Nack(x)
  /\ UNCHANGED <<row, api, accepted>>

StoreDead(x) ==
  /\ pc[x] = "buried"
  /\ Store(x, IF err[x] = "permanent" THEN "FAILED" ELSE "DEAD")
  /\ UNCHANGED <<dlq, api, accepted>>

AckDone(x) ==
  /\ pc[x] = "ack"
  /\ Ack(x)
  /\ UNCHANGED <<row, dlq, api, accepted>>

Handle(x) ==
  \/ Load(x) \/ DeadLetterMalformed(x) \/ Claim(x) \/ Prepare(x) \/ Start(x)
  \/ SmtpAccepted(x) \/ SmtpFailed(x) \/ StoreSent(x) \/ MarkFailed(x)
  \/ PublishRetry(x) \/ PublishRetryFailed(x) \/ StoreRetrying(x)
  \/ PublishDeadLetter(x) \/ StoreDead(x) \/ AckDone(x)

-----------------------------------------------------------------------------
(* The reconciler: one iteration of startEnqueueReconciler's callback.      *)

Advance(t, p, S, m) ==
  /\ tick' = [tick EXCEPT ![t] = p]
  /\ todo' = [todo EXCEPT ![t] = S]
  /\ cur' = [cur EXCEPT ![t] = m]

\* The outer catch: the iteration ends and leaves what it claimed PENDING.
TickThrows(t) ==
  /\ "db" \in Faults
  /\ tick[t] # "idle"
  /\ Advance(t, "idle", {}, None)
  /\ UNCHANGED <<row, broker, dlq, hand, api, up, accepted>>

\* Mutant: only attempts SMTP may have seen are recovered.
Expired_StartedOnly(m) == status[m] = "PROCESSING" /\ lease[m] = "expired" /\ started[m]

Expired(m) == status[m] = "PROCESSING" /\ lease[m] = "expired"

\* Mutant: every expired row goes back to the start.
RecoveredStatus_Requeue(m) == "ENQUEUE_PENDING"

RecoveredStatus(m) == IF started[m] THEN "DELIVERY_UNCERTAIN" ELSE "ENQUEUE_PENDING"

\* recoverExpiredMessageLeases: uncertain once SMTP may have seen the message,
\* otherwise back to the start.
Recover(t) ==
  /\ HostOf[t] \in up
  /\ tick[t] = "idle"
  /\ status' = [m \in Msgs |-> IF Expired(m) THEN RecoveredStatus(m) ELSE status[m]]
  /\ owner' = [m \in Msgs |-> IF Expired(m) THEN None ELSE owner[m]]
  /\ lease' = [m \in Msgs |-> IF Expired(m) THEN "none" ELSE lease[m]]
  /\ Advance(t, "release", {}, None)
  /\ UNCHANGED <<started, broker, dlq, hand, api, up, accepted>>

\* releaseStaleMessageClaims: PENDING for 60 seconds.
ReleaseStale(t) ==
  /\ tick[t] = "release"
  /\ \E S \in SUBSET {m \in Msgs : status[m] = "PENDING"} :
       /\ \A m \in Msgs : status[m] = "PENDING" /\ ~InProgress(m) => m \in S
       /\ "slow" \notin Faults => \A m \in S : ~InProgress(m)
       /\ SetStatus(S, "ENQUEUE_PENDING")
  /\ Advance(t, "claim", {}, None)
  /\ UNCHANGED <<broker, dlq, hand, api, up, accepted>>

\* claimDueMessages: ENQUEUE_PENDING for 10 seconds; without "slow" the API has
\* then given up or finished (its confirm times out after 5).
ClaimDue(t) ==
  /\ tick[t] = "claim"
  /\ \E S \in SUBSET {m \in Msgs : status[m] = "ENQUEUE_PENDING"} :
       /\ \A m \in Msgs : status[m] = "ENQUEUE_PENDING" /\ api[m] = "done" => m \in S
       /\ "slow" \notin Faults => \A m \in S : api[m] = "done"
       /\ SetStatus(S, "PENDING")
       /\ Advance(t, IF S = {} THEN "idle" ELSE "publish", S, None)
  /\ UNCHANGED <<broker, dlq, hand, api, up, accepted>>

Republish(t, m) ==
  /\ tick[t] = "publish"
  /\ m \in todo[t]
  /\ \E c \in Copies : Put(c, "main", m, 0)
  /\ Advance(t, "mark", todo[t], m)
  /\ UNCHANGED <<row, dlq, hand, api, up, accepted>>

RepublishFailed(t, m) ==
  /\ tick[t] = "publish"
  /\ m \in todo[t]
  /\ Faults \intersect {"broker", "disconnect"} # {}
  /\ PutUnconfirmed("main", m, 0)
  /\ Advance(t, "unclaim", todo[t], m)
  /\ UNCHANGED <<row, dlq, hand, api, up, accepted>>

NextDue(t) ==
  LET S == todo[t] \ {cur[t]}
  IN  Advance(t, IF S = {} THEN "idle" ELSE "publish", S, None)

\* markMessageQueuedAfterPublish; a throw falls into the same catch as a publish
\* that failed.
TickMarkQueued(t) ==
  /\ tick[t] = "mark"
  /\ \/ MarkQueued(cur[t]) /\ NextDue(t)
     \/ /\ "db" \in Faults
        /\ UNCHANGED row \/ MarkQueued(cur[t])
        /\ Advance(t, "unclaim", todo[t], cur[t])
  /\ UNCHANGED <<broker, dlq, hand, api, up, accepted>>

\* releaseMessageEnqueueClaim.
ReleaseClaim(t) ==
  /\ tick[t] = "unclaim"
  /\ SetStatus(IF status[cur[t]] = "PENDING" THEN {cur[t]} ELSE {}, "ENQUEUE_PENDING")
  /\ NextDue(t)
  /\ UNCHANGED <<broker, dlq, hand, api, up, accepted>>

Reconcile(t) ==
  \/ Recover(t) \/ ReleaseStale(t) \/ ClaimDue(t)
  \/ \E m \in Msgs : Republish(t, m) \/ RepublishFailed(t, m)
  \/ TickMarkQueued(t) \/ ReleaseClaim(t) \/ TickThrows(t)

-----------------------------------------------------------------------------
(* Processes and connections. Failures strike while another worker is in    *)
(* good health: the deployment keeps one.                                   *)

Spared(w) == \E v \in up \ {w} : Steady(v)

\* A process dies, also at the end of a shutdown that drained for 30 seconds in
\* vain.
Crash(w) ==
  /\ "crash" \in Faults
  /\ w \in up /\ Spared(w)
  /\ Exit(w)
  /\ UNCHANGED <<row, dlq, api, accepted>>

\* The connection drops; handlers run on.
Disconnect(w) ==
  /\ "disconnect" \in Faults
  /\ Spared(w)
  /\ \E x \in HandlersOf(w) : held[x] # None
  /\ Requeue(w)
  /\ held' = [x \in Handlers |-> IF HostOf[x] = w THEN None ELSE held[x]]
  /\ UNCHANGED <<row, dlq, pc, work, err, api, recon, up, accepted>>

-----------------------------------------------------------------------------
ApiNext == \E m \in Msgs : Accept(m) \/ ApiPublish(m) \/ ApiMarkQueued(m)

Next ==
  \/ ApiNext
  \/ \E x \in Handlers : Handle(x) \/ \E c \in Copies : Deliver(x, c)
  \/ \E t \in Ticks : Reconcile(t)
  \/ \E m \in Msgs : LeaseExpires(m)
  \/ \E c \in Copies : RetryDue(c)
  \/ \E w \in Workers : Crash(w) \/ Disconnect(w)

Spec == Init /\ [][Next]_vars

(***************************************************************************)
(* Fairness: a request, a handler and a reconciler iteration make their next *)
(* awaited call (each has a timeout), the broker delivers what is ready,     *)
(* time passes, and an iteration that gets to publish again and again is     *)
(* confirmed once. Nothing obliges a client to send or a failure to strike.  *)
(***************************************************************************)
Fairness ==
  /\ \A m \in Msgs : WF_vars(ApiPublish(m) \/ ApiMarkQueued(m)) /\ WF_vars(LeaseExpires(m))
  /\ \A x \in Handlers : WF_vars(Handle(x))
  /\ \A x \in Handlers : WF_vars(\E c \in Copies : Deliver(x, c))
  /\ \A c \in Copies : WF_vars(RetryDue(c))
  /\ \A t \in Ticks : /\ WF_vars(Reconcile(t))
                     /\ SF_vars(\E m \in Msgs : Republish(t, m))

FairSpec == Spec /\ Fairness

-----------------------------------------------------------------------------
(* What the rest of the system relies on.                                   *)

\* The lease columns and the status never disagree: a row has an owner and a
\* lease exactly while it is PROCESSING. updateMessageStatus relies on it, for
\* its guard names the owner and not the status.
LeaseMatchesStatus ==
  \A m \in Msgs : /\ owner[m] # None <=> status[m] = "PROCESSING"
                  /\ lease[m] # "none" <=> status[m] = "PROCESSING"

\* The lease keeps a message out of the hands of two handlers at once: no two
\* SMTP exchanges for one message overlap.
SmtpExclusive ==
  \A x, y \in Handlers :
    pc[x] = "smtp" /\ pc[y] = "smtp" /\ Msg(x) = Msg(y) => x = y

\* A message the SMTP server acknowledged is not handed to SMTP again, whatever
\* copies, retries and recovered leases remain of it.
NeverResent == \A x \in Handlers : pc[x] = "smtp" => Msg(x) \notin accepted

\* An acknowledged message is reported SENT or DELIVERY_UNCERTAIN, or its row
\* still shows the delivery attempt that recovery turns into the latter. It is
\* never open to another claim, and never reported failed.
AcceptedIsAccounted ==
  \A m \in accepted : \/ status[m] \in {"SENT", "DELIVERY_UNCERTAIN"}
                       \/ (status[m] = "PROCESSING" /\ started[m])

\* SENT is claimed of acknowledged messages only, and a message is given up only
\* once the dead-letter queue holds it for an operator.
OutcomeIsBacked ==
  \A m \in Msgs : /\ status[m] = "SENT" => m \in accepted
                  /\ status[m] \in {"FAILED", "DEAD"} => m \in dlq

\* Each worker id names one handler: prefetch 1, and no handler outlives the
\* connection it was started on. What follows holds of the code only then.
SoleHandler == \A x, y \in Handlers : HostOf[x] = HostOf[y] => x = y

Owns(x) == status[Msg(x)] = "PROCESSING" /\ owner[Msg(x)] = HostOf[x]

\* What a handler knows at each point about a row it may have lost meanwhile.
HandlerInv(x) ==
  /\ pc[x] \in {"prepare", "start", "retry", "retrying", "bury", "buried"} /\ Owns(x)
       => ~started[Msg(x)]
  /\ pc[x] = "failed" /\ Owns(x) => Msg(x) \notin accepted
  /\ pc[x] = "smtp" => /\ Msg(x) \notin accepted
                       /\ \/ status[Msg(x)] = "DELIVERY_UNCERTAIN"
                          \/ Owns(x) /\ started[Msg(x)]

\* Why an acknowledged delivery stays the only one: the inductive invariant. A
\* handler inside SMTP still owns a row that shows the attempt, or the row has
\* been settled as uncertain; a handler outside may reset or release a row only
\* while nobody's delivery was acknowledged.
DeliveryInv == SmtpExclusive /\ AcceptedIsAccounted /\ \A x \in Handlers : HandlerInv(x)

\* A terminal status is final: no late publisher, stale handler, reconciler or
\* redelivered copy moves the row again.
TerminalIsFinal ==
  [][\A m \in Msgs : status[m] \in Terminal => status'[m] = status[m]]_vars

\* A copy of m the broker will deliver, or one whose handler has yet to decide
\* what becomes of it.
HasCopy(m) ==
  \/ \E c \in Copies : broker[c].at \in {"main", "retry"} /\ broker[c].msg = m
  \/ \E x \in Handlers : pc[x] \notin {"idle", "ack"} /\ Msg(x) = m

\* Delivery is at-least-once: a row the reconciler does not look at (it reads
\* ENQUEUE_PENDING, PENDING and PROCESSING) has a copy on its way.
NotStranded ==
  \A m \in Msgs : status[m] \in {"QUEUED", "RETRYING"} => HasCopy(m)

\* No call outlasts a lease, no retry comes due before its publisher has stored
\* RETRYING, no database call fails. The last two strand a row by themselves, the
\* first where a worker also dies.
Timely == Faults \intersect {"slow", "early", "db"} = {}

\* A copy of m that survives its handler: a disconnected handler's does not count.
Carried(m) ==
  \/ \E c \in Copies : broker[c].at \in {"main", "retry"} /\ broker[c].msg = m
  \/ \E x \in Handlers : held[x] # None /\ pc[x] \notin {"idle", "ack"} /\ Msg(x) = m

\* Published, and yet to be marked QUEUED.
Published(m) == api[m] = "mark" \/ \E t \in Ticks : tick[t] = "mark" /\ cur[t] = m

\* The retry a handler has published stays in its queue until RETRYING is stored.
RetryWaits(x) ==
  \E c \in Copies : /\ broker[c].at = "retry" /\ broker[c].msg = Msg(x)
                    /\ broker[c].attempt = Attempt(x) + 1

CarriedHandler(x) ==
  /\ held[x] # None => broker[held[x]].msg = Msg(x)
  /\ pc[x] # "malformed"
  /\ pc[x] = "retrying" => RetryWaits(x)

CarriedRow(m) ==
  /\ InProgress(m) => status[m] # "none"
  /\ lease[m] = "expired" => api[m] \notin {"publish", "mark"} /\ ~InProgress(m)
  /\ status[m] \in {"QUEUED", "RETRYING"} => Carried(m)
  /\ status[m] \in {"ENQUEUE_PENDING", "PENDING"} /\ Published(m) => Carried(m)

\* Why a row that is not looked at has a copy: every row that is marked, or is about
\* to be, is carried, and while its publisher is at work no lease on it runs out
\* that would lead it back to a mark its copy has not survived.
CarriedInv ==
  /\ \A x \in Handlers : CarriedHandler(x)
  /\ \A t \in Ticks : tick[t] = "mark" => cur[t] \in todo[t]
  /\ \A m \in Msgs : CarriedRow(m)

\* Every message the API accepted is settled in the end.
EventuallySettled ==
  \A m \in Msgs : status[m] # "none" ~> status[m] \in Terminal

-----------------------------------------------------------------------------
(* What a client may rely on is MessageLifecycle. The refinement forgets    *)
(* the queue, the workers and the leases.                                   *)

Life(m) ==
  CASE status[m] = "none" -> "absent"
    [] status[m] \in Claimable -> "open"
    [] status[m] = "PROCESSING" -> IF started[m] THEN "handed" ELSE "claimed"
    [] status[m] = "SENT" -> "sent"
    [] status[m] \in {"FAILED", "DEAD"} -> "failed"
    [] status[m] = "DELIVERY_UNCERTAIN" -> "uncertain"

Lifecycle == INSTANCE MessageLifecycle
               WITH life <- [m \in Msgs |-> Life(m)], acked <- accepted

ImplementsLifecycle == Lifecycle!Spec

=============================================================================
