--------------------------- MODULE CircuitBreaker ---------------------------
(***************************************************************************)
(* The circuit breaker of one worker process for one account and SMTP host, *)
(* and the handlers of the consumer that use it. canAttempt, recordSuccess  *)
(* and recordRetryableFailure are synchronous; an SMTP exchange or a         *)
(* database update lies between them, so a result may meet a state other    *)
(* than the one its attempt was admitted in.                                 *)
(*                                                                          *)
(* Time runs in ticks. Ages replace the timestamps and stop growing where   *)
(* the code no longer tells them apart.                                      *)
(***************************************************************************)
EXTENDS Naturals, FiniteSets

CONSTANTS
  Handlers,          \* concurrent handlers of the process
  FailureThreshold,  \* CircuitConfig.failureThreshold
  Window,            \* windowMs
  OpenDuration,      \* openDurationMs
  ProbeLimit,        \* halfOpenProbeLimit
  SuccessThreshold,  \* successThresholdToClose
  Lull               \* bound: silences of the account are told apart up to this length

ASSUME BreakerAssumption ==
  /\ {FailureThreshold, SuccessThreshold, ProbeLimit} \subseteq Nat \ {0}
  /\ {Window, OpenDuration, Lull} \subseteq Nat

VARIABLES
  state,       \* CircuitState.state
  failures,    \* failuresInWindow
  windowAge,   \* now - windowStartMs, up to Window + 1
  openAge,     \* now - openedAtMs, up to OpenDuration
  probes,      \* halfOpenProbes
  successes,   \* consecutiveSuccesses
  job,         \* each handler: idle, sending, or refused and not yet recorded
  quiet,       \* time since the last message of the account, up to Lull
  well,        \* the server and the database are in order: every attempt succeeds
  probing,     \* history: handlers admitted since the circuit became half-open
  losses,      \* history: failures recorded since the last success
  wins         \* history: successes recorded since the last failure

circuit == <<state, failures, windowAge, openAge, probes, successes>>
vars == <<state, failures, windowAge, openAge, probes, successes, job, quiet, well,
          probing, losses, wins>>

UpTo(n, k) == IF n < k THEN n + 1 ELSE k

TypeOK ==
  /\ state \in {"CLOSED", "OPEN", "HALF_OPEN"}
  /\ failures \in Nat /\ (state = "CLOSED" => failures < FailureThreshold)
  /\ windowAge \in 0..(Window + 1) /\ openAge \in 0..OpenDuration
  /\ probes \in 0..ProbeLimit /\ successes \in 0..(SuccessThreshold - 1)
  /\ job \in [Handlers -> {"idle", "sending", "refused"}]
  /\ quiet \in 0..Lull /\ well \in BOOLEAN /\ probing \subseteq Handlers
  /\ losses \in 0..FailureThreshold /\ wins \in 0..SuccessThreshold

\* getOrInit.
Init ==
  /\ state = "CLOSED" /\ failures = 0 /\ windowAge = 0 /\ openAge = 0
  /\ probes = 0 /\ successes = 0
  /\ job = [h \in Handlers |-> "idle"]
  /\ quiet = Lull /\ well = FALSE
  /\ probing = {} /\ losses = 0 /\ wins = 0

-----------------------------------------------------------------------------
(* canAttempt.                                                              *)

Cooled == state = "OPEN" /\ openAge = OpenDuration

\* Mutant: probes are not counted.
Probe_Uncounted(h) ==
  \/ /\ Cooled /\ state' = "HALF_OPEN" /\ probes' = 0 /\ successes' = 0 /\ probing' = {h}
  \/ /\ state = "HALF_OPEN" /\ probing' = probing \union {h}
     /\ UNCHANGED <<state, probes, successes>>

\* Admission in the half-open state, which an open circuit that cooled enters.
Probe(h) ==
  \/ /\ Cooled
     /\ state' = "HALF_OPEN" /\ probes' = 1 /\ successes' = 0 /\ probing' = {h}
  \/ /\ state = "HALF_OPEN" /\ probes < ProbeLimit
     /\ probes' = probes + 1 /\ probing' = probing \union {h}
     /\ UNCHANGED <<state, successes>>

Admit(h) ==
  /\ \/ state = "CLOSED" /\ UNCHANGED <<state, probes, successes, probing>>
     \/ Probe(h)
  /\ job' = [job EXCEPT ![h] = "sending"]

Refuse(h) ==
  /\ \/ state = "OPEN" /\ openAge < OpenDuration
     \/ state = "HALF_OPEN" /\ probes = ProbeLimit
  /\ job' = [job EXCEPT ![h] = "refused"]
  /\ UNCHANGED <<state, probes, successes, probing>>

Ask(h) ==
  /\ job[h] = "idle"
  /\ quiet' = 0
  /\ Admit(h) \/ Refuse(h)
  /\ UNCHANGED <<failures, windowAge, openAge, well, losses, wins>>

-----------------------------------------------------------------------------
(* recordSuccess.                                                           *)

\* Mutant: a success in the closed state does not clear the window.
CountSuccess_Sticky ==
  /\ state = "CLOSED" /\ windowAge' = 0
  /\ UNCHANGED <<state, failures, openAge, probes, successes>>

\* Mutant: one success too many is asked for.
CountSuccess_Strict ==
  \/ /\ state = "CLOSED" /\ failures' = 0 /\ windowAge' = 0
     /\ UNCHANGED <<state, openAge, probes, successes>>
  \/ /\ state = "HALF_OPEN" /\ successes + 1 <= SuccessThreshold
     /\ successes' = successes + 1
     /\ UNCHANGED <<state, failures, windowAge, openAge, probes>>
  \/ state = "OPEN" /\ UNCHANGED circuit

CountSuccess ==
  \/ /\ state = "CLOSED" /\ failures' = 0 /\ windowAge' = 0
     /\ UNCHANGED <<state, openAge, probes, successes>>
  \/ /\ state = "HALF_OPEN" /\ successes + 1 < SuccessThreshold
     /\ successes' = successes + 1
     /\ UNCHANGED <<state, failures, windowAge, openAge, probes>>
  \/ /\ state = "HALF_OPEN" /\ successes + 1 >= SuccessThreshold
     /\ state' = "CLOSED" /\ failures' = 0 /\ windowAge' = 0 /\ probes' = 0 /\ successes' = 0
     /\ UNCHANGED openAge
  \/ state = "OPEN" /\ UNCHANGED circuit

\* The SMTP server accepted the message.
Succeed(h) ==
  /\ job[h] = "sending"
  /\ job' = [job EXCEPT ![h] = "idle"]
  /\ CountSuccess
  /\ probing' = IF state' = "HALF_OPEN" THEN probing \ {h} ELSE {}
  /\ losses' = 0 /\ wins' = UpTo(wins, SuccessThreshold)
  /\ UNCHANGED <<quiet, well>>

-----------------------------------------------------------------------------
(* recordRetryableFailure.                                                  *)

\* Mutant: the successes of an earlier half-open phase are kept.
Open_KeepsSuccesses == state' = "OPEN" /\ openAge' = 0 /\ probes' = 0 /\ UNCHANGED successes

Open == state' = "OPEN" /\ openAge' = 0 /\ probes' = 0 /\ successes' = 0

\* Mutant: a failed probe leaves the circuit half-open.
Reopen_Lenient == state = "HALF_OPEN" /\ UNCHANGED circuit

Reopen == state = "HALF_OPEN" /\ Open /\ UNCHANGED <<failures, windowAge>>

CountFailure ==
  LET n == IF windowAge > Window THEN 1 ELSE failures + 1 IN
  /\ state # "HALF_OPEN"
  /\ failures' = IF n < FailureThreshold THEN n ELSE FailureThreshold
  /\ windowAge' = IF windowAge > Window THEN 0 ELSE windowAge
  /\ \/ n >= FailureThreshold /\ Open
     \/ n < FailureThreshold /\ UNCHANGED <<state, openAge, probes, successes>>

Fail(h) ==
  /\ job' = [job EXCEPT ![h] = "idle"]
  /\ Reopen \/ CountFailure
  /\ probing' = IF state' = "HALF_OPEN" THEN probing \ {h} ELSE {}
  /\ wins' = 0 /\ losses' = UpTo(losses, FailureThreshold)
  /\ UNCHANGED <<quiet, well>>

\* A retryable error: the server's, or a lease that was lost before SMTP.
FailRetryable(h) == job[h] = "sending" /\ ~well /\ Fail(h)

\* The consumer's catch records the breaker's own refusal as well, after
\* markMessageDeliveryFailed.
RecordRefusal(h) == job[h] = "refused" /\ Fail(h)

\* A permanent error is not recorded, nor is any when markMessageDeliveryFailed
\* throws: the probe it may have been is used up.
FailUnrecorded(h) ==
  /\ job[h] # "idle" /\ ~well
  /\ job' = [job EXCEPT ![h] = "idle"]
  /\ probing' = probing \ {h}
  /\ UNCHANGED <<circuit, quiet, well, losses, wins>>

-----------------------------------------------------------------------------
(* The clock and the world.                                                 *)

\* A tick is long against the database update that precedes a refusal's record.
Tick ==
  /\ \A h \in Handlers : job[h] # "refused"
  /\ windowAge' = UpTo(windowAge, Window + 1)
  /\ openAge' = UpTo(openAge, OpenDuration)
  /\ quiet' = UpTo(quiet, Lull)
  /\ UNCHANGED <<state, failures, probes, successes, job, well, probing, losses, wins>>

ChangeHealth ==
  /\ well' = ~well
  /\ UNCHANGED <<circuit, job, quiet, probing, losses, wins>>

Handle(h) == Succeed(h) \/ FailRetryable(h) \/ RecordRefusal(h) \/ FailUnrecorded(h)

Next ==
  \/ \E h \in Handlers : Ask(h) \/ Handle(h)
  \/ Tick \/ ChangeHealth

Spec == Init /\ [][Next]_vars

\* Time passes, messages keep coming and every attempt ends.
Fairness ==
  /\ WF_vars(Tick)
  /\ WF_vars(\E h \in Handlers : Ask(h))
  /\ \A h \in Handlers : WF_vars(Handle(h))

FairSpec == Spec /\ Fairness

-----------------------------------------------------------------------------
(* What the consumer relies on.                                             *)

\* A half-open phase admits no more probes at once than halfOpenProbeLimit, however
\* admissions and late results interleave: canAttempt counts what it admits.
ProbesBounded == state = "HALF_OPEN" => Cardinality(probing) <= ProbeLimit

\* A success wipes the slate: recordRetryableFailure opens a closed circuit only
\* after FailureThreshold failures with no success between them.
OpensOnEvidence ==
  [][state = "CLOSED" /\ state' = "OPEN" => losses' = FailureThreshold]_vars

\* recordSuccess closes a circuit only after SuccessThreshold successes with no
\* failure between them, also when results of earlier phases come in late.
ClosesOnEvidence ==
  [][state # "CLOSED" /\ state' = "CLOSED" => wins' = SuccessThreshold]_vars

\* What the counters stand for, whichever attempt a result belongs to: the open and
\* closed states remember no success, a half-open one no more than came in since the
\* last failure, a closed one no more failures than came in since the last success;
\* every probe in progress is counted.
CountersAreBacked ==
  /\ state # "HALF_OPEN" => successes = 0
  /\ successes <= wins
  /\ state = "CLOSED" => failures <= losses
  /\ IsFiniteSet(probing)
  /\ state = "HALF_OPEN" => Cardinality(probing) <= probes

BreakerInv == TypeOK /\ CountersAreBacked

\* The account sends a message at a time, Lull after the one before: a message that
\* comes sooner meets the open circuit, and its refusal is recorded as a failure.
Calm == \A h \in Handlers : Ask(h) => quiet = Lull /\ \A g \in Handlers : job[g] = "idle"

\* Once every attempt succeeds, canAttempt and recordSuccess bring the circuit of a
\* calm account back to CLOSED for good.
ClosesAgain == <>[]well /\ <>[][Calm]_vars => <>[](state = "CLOSED")

=============================================================================
