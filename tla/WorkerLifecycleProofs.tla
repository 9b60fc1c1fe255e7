----------------------- MODULE WorkerLifecycleProofs -----------------------
(* What a worker leaves behind when it exits, for every prefetch count, every *)
(* pause of the heartbeat loop and every failure of broker and database.      *)
EXTENDS WorkerLifecycle, TLAPS

\* The heartbeat loop is stopped before the row is deleted, and what was in flight is noted.
LoopStopped ==
  /\ pc \in {"deregister", "disconnect", "exited"} => stopped /\ (call = "none" \/ late)
  /\ pc \in {"disconnect", "exited"} => ~row \/ late

\* Handlers are given up by the timeout, or have lost their channel.
HandlersKept ==
  /\ inFlight # 0 => pc \in {"serve", "stop", "drain", "crashed"}
  /\ orphaned \/ (inFlight # 0 /\ connection = "lost") => given
  /\ pc \in {"deregister", "disconnect", "exited"} => ~dispatching

Inv == TypeOK /\ LoopStopped /\ HandlersKept

LEMMA Initially == Init => Inv
<1> SUFFICES ASSUME Init PROVE Inv
  OBVIOUS
<1>0. Flags
  BY DEF Init, Flags
<1>1. TypeOK
  BY <1>0, WorkerAssumption DEF Init, TypeOK
<1>2. LoopStopped
  BY DEF Init, LoopStopped
<1>3. HandlersKept
  BY DEF Init, HandlersKept
<1> QED BY <1>1, <1>2, <1>3 DEF Inv

-----------------------------------------------------------------------------
(* One lemma per part of the process.                                        *)

LEMMA MainKeeps ==
  ASSUME Inv, Main
  PROVE  Inv'
<1> USE WorkerAssumption DEF Inv, TypeOK, LoopStopped, HandlersKept, link, loop, world, Goto
<1>1. CASE Register
  <2>1. Flags'
    BY <1>1 DEF Flags, Register
  <2>2. TypeOK'
    BY <1>1, <2>1 DEF Register
  <2>3. LoopStopped'
    BY <1>1 DEF Flags, Register
  <2>4. HandlersKept'
    BY <1>1 DEF Flags, Register
  <2> QED BY <2>1, <2>2, <2>3, <2>4
<1>2. CASE Connect
  BY <1>2 DEF Flags, Connect
<1>3. CASE Setup
  BY <1>3 DEF Flags, Setup
<1>4. CASE StopConsumer
  BY <1>4 DEF Flags, StopConsumer, Abandon
<1>5. CASE DrainTimeout
  BY <1>5 DEF Flags, DrainTimeout, Abandon
<1>6. CASE Close
  BY <1>6 DEF Flags, Close
<1>7. CASE Wake
  BY <1>7 DEF Flags, Wake
<1>8. CASE StopLoops
  <2>1. Flags'
    BY <1>8 DEF Flags, StopLoops
  <2>2. TypeOK'
    BY <1>8, <2>1 DEF StopLoops
  <2>3. LoopStopped'
    BY <1>8 DEF Flags, StopLoops
  <2>4. HandlersKept'
    BY <1>8 DEF Flags, StopLoops
  <2> QED BY <2>1, <2>2, <2>3, <2>4
<1>9. CASE Deregister
  BY <1>9 DEF Flags, Deregister
<1>10. CASE Exit
  BY <1>10 DEF Flags, Exit
<1> QED BY <1>1, <1>2, <1>3, <1>4, <1>5, <1>6, <1>7, <1>8, <1>9, <1>10 DEF Main

LEMMA HandlersKeep ==
  ASSUME Inv, Signal \/ Cancelled \/ Deliver \/ Finish \/ Throw \/ StartDispatch \/ EndDispatch
  PROVE  Inv'
<1> USE WorkerAssumption DEF Inv, TypeOK, LoopStopped, HandlersKept, link, loop, world, Goto, Alive
<1>1. CASE Signal
  <2>1. Flags'
    BY <1>1 DEF Flags, Signal
  <2>2. TypeOK'
    BY <1>1, <2>1 DEF Signal
  <2>3. LoopStopped'
    BY <1>1 DEF Flags, Signal
  <2>4. HandlersKept'
    BY <1>1 DEF Flags, Signal
  <2> QED BY <2>1, <2>2, <2>3, <2>4
<1>2. CASE Cancelled
  BY <1>2 DEF Flags, Cancelled
<1>3. CASE Deliver
  BY <1>3 DEF Flags, Deliver
<1>4. CASE Finish
  BY <1>4 DEF Flags, Finish
<1>5. CASE Throw
  BY <1>5 DEF Flags, Throw
<1>6. CASE StartDispatch
  BY <1>6 DEF Flags, StartDispatch
<1>7. CASE EndDispatch
  <2>1. Flags'
    BY <1>7 DEF Flags, EndDispatch
  <2>2. TypeOK'
    BY <1>7, <2>1 DEF EndDispatch
  <2>3. LoopStopped'
    BY <1>7 DEF Flags, EndDispatch
  <2>4. HandlersKept'
    BY <1>7 DEF Flags, EndDispatch
  <2> QED BY <2>1, <2>2, <2>3, <2>4
<1> QED BY <1>1, <1>2, <1>3, <1>4, <1>5, <1>6, <1>7

LEMMA HeartbeatKeeps ==
  ASSUME Inv, Heartbeat \/ Fail \/ Land \/ Tick
  PROVE  Inv'
<1> USE WorkerAssumption DEF Inv, TypeOK, LoopStopped, HandlersKept, link, loop, world, Goto, Alive
<1>1. CASE Beat
  BY <1>1 DEF Flags, Beat, Stopped
<1>2. CASE Succeed
  BY <1>2 DEF Flags, Succeed, EndRun
<1>3. CASE Fail
  BY <1>3 DEF Flags, Fail, EndRun
<1>4. CASE Land
  BY <1>4 DEF Flags, Land
<1>5. CASE Tick
  BY <1>5 DEF Flags, Tick
<1> QED BY <1>1, <1>2, <1>3, <1>4, <1>5 DEF Heartbeat

LEMMA WorldKeeps ==
  ASSUME Inv, LoseConnection \/ CancelConsumer \/ ChangeBroker \/ ChangeDb
  PROVE  Inv'
<1> USE WorkerAssumption DEF Inv, TypeOK, LoopStopped, HandlersKept, link, loop, world, Goto, Alive
<1>1. CASE LoseConnection
  <2>1. Flags'
    BY <1>1 DEF Flags, LoseConnection
  <2>2. TypeOK'
    BY <1>1, <2>1 DEF LoseConnection
  <2>3. LoopStopped'
    BY <1>1 DEF Flags, LoseConnection
  <2>4. HandlersKept'
    BY <1>1 DEF Flags, LoseConnection
  <2> QED BY <2>1, <2>2, <2>3, <2>4
<1>2. CASE CancelConsumer
  BY <1>2 DEF Flags, CancelConsumer
<1>3. CASE ChangeBroker
  BY <1>3 DEF Flags, ChangeBroker
<1>4. CASE ChangeDb
  BY <1>4 DEF Flags, ChangeDb
<1> QED BY <1>1, <1>2, <1>3, <1>4

-----------------------------------------------------------------------------
\* The inductive invariant: where main is, the heartbeat loop, the row and the handlers
\* agree, whatever fails.
THEOREM WorkerCorrect == Spec => []Inv
<1>1. Inv /\ [Next]_vars => Inv'
  <2> SUFFICES ASSUME Inv, [Next]_vars PROVE Inv'
    OBVIOUS
  <2>1. CASE Next
    BY <2>1, MainKeeps, HandlersKeep, HeartbeatKeeps, WorldKeeps DEF Next
  <2>2. CASE UNCHANGED vars
    BY <2>2 DEF vars, link, loop, world, Inv, TypeOK, Flags, LoopStopped, HandlersKept
  <2> QED BY <2>1, <2>2
<1> QED BY Initially, <1>1, PTL DEF Spec

\* deregisterWorker is the last word on the row unless a heartbeat was in flight when the
\* loop was stopped, or the delete itself failed.
THEOREM RowGone == Spec => []GoneUnlessLate
<1>1. Inv => GoneUnlessLate
  BY DEF Inv, LoopStopped, GoneUnlessLate
<1> QED BY WorkerCorrect, <1>1, PTL

\* consumer.stop and webhookDispatcher.stop let finish what was begun, but for the
\* handlers that outlast the drain or have lost their channel.
THEOREM Drained == Spec => []DrainedExit
<1>1. Inv => DrainedExit
  BY DEF Inv, TypeOK, HandlersKept, DrainedExit
<1> QED BY WorkerCorrect, <1>1, PTL

=============================================================================
