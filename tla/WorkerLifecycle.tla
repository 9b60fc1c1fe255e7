--------------------------- MODULE WorkerLifecycle ---------------------------
(***************************************************************************)
(* One worker process: main of index.ts, its consumer, the webhook           *)
(* dispatcher and the heartbeat loop, from registration to exit.             *)
(*                                                                          *)
(* A connection that breaks while nothing listens for its error ends the      *)
(* process, and so does a handler that acks on a channel that is gone: ack    *)
(* and nack throw, and nobody catches.                                        *)
(*                                                                          *)
(* Time runs in ticks for the heartbeat alone; the pauses of the connection   *)
(* loop and the 30 s of the drain are steps that must come.                   *)
(***************************************************************************)
EXTENDS Naturals

CONSTANTS
  Prefetch,         \* prefetchCount
  Interval,         \* heartbeatInterval
  MaxRetries,       \* heartbeatMaxRetries
  Backoffs,         \* the pause after each failed attempt but the last
  FailureThreshold, \* heartbeatFailureThreshold
  StaleAfter        \* heartbeatStaleAfterMs

ASSUME WorkerAssumption ==
  /\ Prefetch \in Nat \ {0} /\ Interval \in Nat \ {0} /\ FailureThreshold \in Nat \ {0}
  /\ MaxRetries \in Nat /\ Backoffs \in [1..MaxRetries -> Nat]
  /\ StaleAfter \in Nat /\ StaleAfter > Interval

VARIABLES
  pc,         \* where main is
  shuttingDown,
  connection, \* none, open, or lost
  consuming,  \* off, on, cancelling, or cancelled by the broker
  inFlight,   \* handlers of the channel
  orphaned,   \* a handler of a channel that is gone is still at work
  dispatching,\* an iteration of the webhook dispatcher is running
  beat,       \* the heartbeat loop: off, wait, call or backoff
  timer,      \* until it goes on
  attempt, failures, \* status.currentRetryAttempt, consecutiveFailures
  age,        \* time since status.lastSuccessAt, up to StaleAfter + 1
  call,       \* the upsert of a heartbeat: none, sent, or landed and not answered
  stopped,    \* heartbeat.stop was called
  row,        \* the worker's WorkerHeartbeat row exists
  brokerUp, dbUp,
  given,      \* history: handlers were left to themselves, by the timeout or a loss
  late        \* history: a heartbeat was in flight at stop, or the delete failed

link == <<connection, consuming, inFlight, orphaned>>
loop == <<beat, timer, attempt, failures, age, call, stopped>>
world == <<row, brokerUp, dbUp>>
vars == <<pc, shuttingDown, link, dispatching, loop, world, given, late>>

Alive == pc \notin {"exited", "crashed"}

Flags ==
  /\ shuttingDown \in BOOLEAN /\ orphaned \in BOOLEAN /\ dispatching \in BOOLEAN
  /\ stopped \in BOOLEAN /\ row \in BOOLEAN /\ brokerUp \in BOOLEAN /\ dbUp \in BOOLEAN
  /\ given \in BOOLEAN /\ late \in BOOLEAN

TypeOK ==
  /\ pc \in {"register", "connect", "setup", "serve", "stop", "drain", "close", "pause",
             "dispatcher", "deregister", "disconnect", "exited", "crashed"}
  /\ connection \in {"none", "open", "lost"}
  /\ consuming \in {"off", "on", "cancelling", "cancelled"}
  /\ inFlight \in 0..Prefetch
  /\ beat \in {"off", "wait", "call", "backoff"}
  /\ timer \in Nat /\ attempt \in 0..(MaxRetries + 1) /\ failures \in 0..FailureThreshold
  /\ beat = "call" => attempt > 0
  /\ beat = "backoff" => attempt \in 1..MaxRetries
  /\ age \in 0..(StaleAfter + 1) /\ call \in {"none", "sent", "landed"}
  /\ Flags

Init ==
  /\ pc = "register" /\ shuttingDown = FALSE
  /\ connection = "none" /\ consuming = "off" /\ inFlight = 0 /\ orphaned = FALSE
  /\ dispatching = FALSE
  /\ beat = "off" /\ timer = 0 /\ attempt = 0 /\ failures = 0 /\ age = 0
  /\ call = "none" /\ stopped = FALSE
  /\ row \in BOOLEAN /\ brokerUp \in BOOLEAN /\ dbUp \in BOOLEAN
  /\ given = FALSE /\ late = FALSE

Goto(p) == pc' = p

-----------------------------------------------------------------------------
(* main: the start and the connection loop.                                  *)

\* registerWorker, and what main starts after it. A failure ends the process.
Register ==
  /\ pc = "register"
  /\ IF dbUp
     THEN /\ Goto("connect") /\ row' = TRUE
          /\ beat' = "wait" /\ timer' = Interval /\ age' = 0
          /\ dispatching' = TRUE
     ELSE Goto("crashed") /\ UNCHANGED <<row, beat, timer, age, dispatching>>
  /\ UNCHANGED <<shuttingDown, link, attempt, failures, call, stopped, brokerUp, dbUp, given, late>>

\* connectRabbitMQ. Without a connection the finally block has nothing to close.
Connect ==
  /\ pc = "connect"
  /\ IF brokerUp THEN connection' = "open" /\ Goto("setup")
     ELSE UNCHANGED connection /\ Goto("close")
  /\ UNCHANGED <<shuttingDown, consuming, inFlight, orphaned, dispatching, loop, world, given, late>>

\* Mutant: a signal that came before the wait is not noticed by it.
Raced_Missed == FALSE

\* Promise.race finds the shutdown promise resolved.
Raced == shuttingDown

\* setupTopology and startConsumer; a call on a lost connection rejects.
Setup ==
  /\ pc = "setup"
  /\ IF connection = "open"
     THEN consuming' = "on" /\ Goto(IF Raced THEN "stop" ELSE "serve")
     ELSE UNCHANGED consuming /\ Goto("close")
  /\ UNCHANGED <<shuttingDown, connection, inFlight, orphaned, dispatching, loop, world, given, late>>

\* Handlers that are not done when the channel is closed.
Abandon ==
  /\ Goto("close")
  /\ consuming' = "off" /\ inFlight' = 0
  /\ orphaned' = (orphaned \/ inFlight # 0)

\* Mutant: the drain is not awaited.
StopConsumer_NoDrain ==
  /\ pc = "stop" /\ Abandon
  /\ UNCHANGED <<shuttingDown, connection, dispatching, loop, world, given, late>>

\* consumer.stop. On a channel that is gone cancel rejects or throws, and stop waits for
\* the handlers or does not.
StopConsumer ==
  /\ pc = "stop"
  /\ \/ inFlight = 0 /\ Abandon
     \/ /\ inFlight > 0 /\ Goto("drain")
        /\ consuming' = IF consuming = "on" THEN "cancelling" ELSE consuming
        /\ UNCHANGED <<inFlight, orphaned>>
     \/ inFlight > 0 /\ connection = "lost" /\ Abandon
  /\ UNCHANGED <<shuttingDown, connection, dispatching, loop, world, given, late>>

\* cancel-ok: no more deliveries are on their way.
Cancelled ==
  /\ pc = "drain" /\ consuming = "cancelling" /\ consuming' = "off"
  /\ UNCHANGED <<pc, shuttingDown, connection, inFlight, orphaned, dispatching, loop, world, given, late>>

\* The 30 s of stop.
DrainTimeout ==
  /\ pc = "drain" /\ Abandon
  /\ given' = TRUE
  /\ UNCHANGED <<shuttingDown, connection, dispatching, loop, world, late>>

\* The channel and the connection are closed; an error of that is ignored.
Close ==
  /\ pc = "close" /\ connection' = "none"
  /\ Goto(IF shuttingDown THEN "dispatcher" ELSE "pause")
  /\ UNCHANGED <<shuttingDown, consuming, inFlight, orphaned, dispatching, loop, world, given, late>>

\* The sleep between two connections; a signal does not cut it short.
Wake ==
  /\ pc = "pause"
  /\ Goto(IF shuttingDown THEN "dispatcher" ELSE "connect")
  /\ UNCHANGED <<shuttingDown, link, dispatching, loop, world, given, late>>

-----------------------------------------------------------------------------
(* Signals and the end of main.                                              *)

\* SIGTERM or SIGINT. Before main listens for it, it kills the process.
Signal ==
  /\ Alive /\ ~shuttingDown
  /\ IF pc = "register" THEN Goto("crashed") /\ UNCHANGED shuttingDown
     ELSE /\ shuttingDown' = TRUE
          /\ Goto(IF pc = "serve" THEN "stop" ELSE pc)
  /\ UNCHANGED <<link, dispatching, loop, world, given, late>>

\* webhookDispatcher.stop has waited for its iteration; heartbeat.stop.
StopLoops ==
  /\ pc = "dispatcher" /\ ~dispatching
  /\ Goto("deregister")
  /\ stopped' = TRUE
  /\ beat' = IF beat = "wait" THEN "off" ELSE beat
  /\ late' = (call # "none")
  /\ UNCHANGED <<shuttingDown, link, dispatching, timer, attempt, failures, age, call, world, given>>

\* deregisterWorker ignores its errors.
Deregister ==
  /\ pc = "deregister" /\ Goto("disconnect")
  /\ row' = (row /\ ~dbUp) /\ late' = (late \/ ~dbUp)
  /\ UNCHANGED <<shuttingDown, link, dispatching, loop, brokerUp, dbUp, given>>

\* prisma.$disconnect and process.exit.
Exit ==
  /\ pc = "disconnect" /\ Goto("exited")
  /\ UNCHANGED <<shuttingDown, link, dispatching, loop, world, given, late>>

Main ==
  \/ Register \/ Connect \/ Setup \/ StopConsumer \/ DrainTimeout \/ Close \/ Wake
  \/ StopLoops \/ Deregister \/ Exit

-----------------------------------------------------------------------------
(* Handlers and the dispatcher's iterations.                                 *)

Deliver ==
  /\ pc \in {"serve", "stop", "drain"} /\ connection = "open"
  /\ consuming \in {"on", "cancelling"} /\ inFlight < Prefetch
  /\ inFlight' = inFlight + 1
  /\ UNCHANGED <<pc, shuttingDown, connection, consuming, orphaned, dispatching, loop, world, given, late>>

\* A handler acks: the last one ends the drain.
Finish ==
  /\ Alive /\ inFlight > 0 /\ connection = "open"
  /\ IF pc = "drain" /\ inFlight = 1
     THEN Goto("close") /\ inFlight' = 0 /\ consuming' = "off"
     ELSE inFlight' = inFlight - 1 /\ UNCHANGED <<pc, consuming>>
  /\ UNCHANGED <<shuttingDown, connection, orphaned, dispatching, loop, world, given, late>>

\* A handler whose channel is gone acks.
Throw ==
  /\ Alive
  /\ orphaned \/ (inFlight > 0 /\ connection = "lost")
  /\ Goto("crashed")
  /\ UNCHANGED <<shuttingDown, link, dispatching, loop, world, given, late>>

StartDispatch ==
  /\ pc \notin {"register", "dispatcher", "deregister", "disconnect"} /\ Alive /\ ~dispatching
  /\ dispatching' = TRUE
  /\ UNCHANGED <<pc, shuttingDown, link, loop, world, given, late>>

EndDispatch ==
  /\ Alive /\ dispatching /\ dispatching' = FALSE
  /\ UNCHANGED <<pc, shuttingDown, link, loop, world, given, late>>

-----------------------------------------------------------------------------
(* The heartbeat loop.                                                       *)

\* Mutant: a sleep that ends after stop goes on with its attempts.
Stopped_Unasked == FALSE

Stopped == stopped

\* run, and each of its attempts.
Beat ==
  /\ Alive /\ beat \in {"wait", "backoff"} /\ timer = 0
  /\ IF Stopped THEN beat' = "off" /\ UNCHANGED <<attempt, call>>
     ELSE /\ beat' = "call" /\ call' = "sent"
          /\ attempt' = IF beat = "wait" THEN 1 ELSE attempt + 1
  /\ UNCHANGED <<pc, shuttingDown, link, dispatching, timer, failures, age, stopped, world, given, late>>

\* The database does what it was asked to, also for a process that is gone.
Land ==
  /\ call = "sent" /\ dbUp
  /\ call' = "landed" /\ row' = TRUE
  /\ UNCHANGED <<pc, shuttingDown, link, dispatching, beat, timer, attempt, failures, age, stopped, brokerUp, dbUp, given, late>>

\* Mutant: only a run that got through starts the next.
EndRun_IfDelivered ==
  IF stopped \/ failures' > 0 THEN beat' = "off" /\ UNCHANGED timer
  ELSE beat' = "wait" /\ timer' = Interval

\* The end of run.
EndRun ==
  IF stopped THEN beat' = "off" /\ UNCHANGED timer
  ELSE beat' = "wait" /\ timer' = Interval

Succeed ==
  /\ Alive /\ beat = "call" /\ call = "landed"
  /\ failures' = 0 /\ attempt' = 0 /\ age' = 0 /\ call' = "none"
  /\ EndRun
  /\ UNCHANGED <<pc, shuttingDown, link, dispatching, stopped, world, given, late>>

\* The upsert failed, or its answer was lost.
Fail ==
  /\ Alive /\ beat = "call" /\ ~dbUp
  /\ call' = "none"
  /\ IF attempt <= MaxRetries
     THEN beat' = "backoff" /\ timer' = Backoffs[attempt] /\ UNCHANGED <<attempt, failures>>
     ELSE /\ failures' = IF failures < FailureThreshold THEN failures + 1 ELSE failures
          /\ attempt' = 0
          /\ EndRun
  /\ UNCHANGED <<pc, shuttingDown, link, dispatching, age, stopped, world, given, late>>

\* computeHealthStatus, which /healthz reports.
Healthy == age <= StaleAfter /\ failures < FailureThreshold

\* Timers fire on time, and a database that is up answers within a tick.
Tick ==
  /\ Alive /\ pc # "register"
  /\ beat \in {"wait", "backoff"} => timer > 0
  /\ beat = "call" => ~dbUp
  /\ age' = IF age <= StaleAfter THEN age + 1 ELSE age
  /\ timer' = IF timer > 0 THEN timer - 1 ELSE 0
  /\ UNCHANGED <<pc, shuttingDown, link, dispatching, beat, attempt, failures, call, stopped, world, given, late>>

Heartbeat == Beat \/ Succeed

-----------------------------------------------------------------------------
(* The broker and the database.                                              *)

\* The connection breaks. waitForConnectionLoss listens from serve on.
LoseConnection ==
  /\ Alive /\ ~brokerUp /\ connection = "open"
  /\ connection' = "lost"
  /\ \/ Goto(IF pc = "serve" THEN "stop" ELSE pc)
     \/ pc = "setup" /\ Goto("crashed")
  /\ given' = (given \/ inFlight # 0)
  /\ UNCHANGED <<shuttingDown, consuming, inFlight, orphaned, dispatching, loop, world, late>>

\* The broker cancels the consumer, whose callback ignores the null message.
CancelConsumer ==
  /\ Alive /\ connection = "open" /\ consuming = "on" /\ consuming' = "cancelled"
  /\ UNCHANGED <<pc, shuttingDown, connection, inFlight, orphaned, dispatching, loop, world, given, late>>

ChangeBroker ==
  /\ brokerUp' = ~brokerUp
  /\ UNCHANGED <<pc, shuttingDown, link, dispatching, loop, row, dbUp, given, late>>

ChangeDb ==
  /\ dbUp' = ~dbUp
  /\ UNCHANGED <<pc, shuttingDown, link, dispatching, loop, row, brokerUp, given, late>>

Next ==
  \/ Main \/ Signal \/ Cancelled
  \/ Deliver \/ Finish \/ Throw \/ StartDispatch \/ EndDispatch
  \/ Heartbeat \/ Fail \/ Land \/ Tick
  \/ LoseConnection \/ CancelConsumer \/ ChangeBroker \/ ChangeDb

Spec == Init /\ [][Next]_vars

\* main goes on, timers fire, a database that is up answers, and an iteration of the
\* dispatcher ends: its posts time out. Handlers may hang.
Fairness ==
  /\ WF_vars(Main) /\ WF_vars(EndDispatch)
  /\ WF_vars(Heartbeat) /\ WF_vars(Land) /\ WF_vars(Tick)

FairSpec == Spec /\ Fairness

-----------------------------------------------------------------------------
(* Properties.                                                               *)

\* A worker that exited has left no heartbeat row, unless sendHeartbeat was in flight when
\* the loop was stopped, or deregisterWorker failed: a retry that slept does not write again.
GoneUnlessLate == pc = "exited" => ~row \/ late

\* The exit cuts short no handler, but for those that outlast the drain or lost their
\* channel, and no iteration of the dispatcher.
DrainedExit == pc = "exited" => ((inFlight = 0 /\ ~orphaned) \/ given) /\ ~dispatching

\* After a signal the process ends, although handlers, connections and heartbeats may be
\* at any point, and may hang.
ShutsDown == shuttingDown ~> ~Alive

\* Once the broker and the database stay up, a worker that is not told to stop ends as
\* ready and healthy, and consumes unless the broker cancelled its consumer; or it has
\* crashed, to be restarted.
WorksAgain ==
  <>[](brokerUp /\ dbUp) /\ [](~shuttingDown)
    => <>[](pc = "crashed" \/ (pc = "serve" /\ Healthy /\ consuming \in {"on", "cancelled"}))

=============================================================================
