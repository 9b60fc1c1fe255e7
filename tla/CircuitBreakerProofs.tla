------------------------ MODULE CircuitBreakerProofs ------------------------
EXTENDS CircuitBreaker, FiniteSetTheorems, TLAPS

LEMMA UpToBounded ==
  ASSUME NEW k \in Nat, NEW n \in 0..k
  PROVE  UpTo(n, k) \in 0..k /\ n <= UpTo(n, k) /\ (n < k => UpTo(n, k) = n + 1)
BY DEF UpTo

\* A handler that leaves the probes, or a circuit that leaves the half-open state,
\* makes the probes no more.
LEMMA ProbesShrink ==
  ASSUME NEW S, NEW h, IsFiniteSet(S)
  PROVE  /\ IsFiniteSet(S \ {h}) /\ Cardinality(S \ {h}) <= Cardinality(S)
         /\ IsFiniteSet({}) /\ Cardinality({}) = 0
<1>1. /\ IsFiniteSet(S \ {h})
      /\ Cardinality(S \ {h}) = IF h \in S THEN Cardinality(S) - 1 ELSE Cardinality(S)
  BY FS_RemoveElement
<1>2. Cardinality(S) \in Nat
  BY FS_CardinalityType
<1> QED BY <1>1, <1>2, FS_EmptySet

-----------------------------------------------------------------------------
(* One lemma per synchronous method of the breaker.                         *)

LEMMA AskKeeps ==
  ASSUME BreakerInv, NEW h \in Handlers, Ask(h)
  PROVE  BreakerInv'
<1> USE BreakerAssumption DEF BreakerInv, TypeOK, CountersAreBacked, Ask
<1>1. CASE Admit(h) /\ state = "CLOSED" /\ UNCHANGED <<state, probes, successes, probing>>
  BY <1>1 DEF Admit
<1>2. CASE Admit(h) /\ Cooled /\ Probe(h)
  <2>1. /\ state' = "HALF_OPEN" /\ probes' = 1 /\ successes' = 0 /\ probing' = {h}
        /\ job' = [job EXCEPT ![h] = "sending"]
    BY <1>2 DEF Admit, Probe, Cooled
  <2>2. IsFiniteSet(probing') /\ Cardinality(probing') = 1
    BY <2>1, FS_Singleton
  <2> QED BY <2>1, <2>2
<1>3. CASE Admit(h) /\ ~Cooled /\ Probe(h)
  <2>1. /\ state = "HALF_OPEN" /\ probes < ProbeLimit
        /\ probes' = probes + 1 /\ probing' = probing \union {h}
        /\ UNCHANGED <<state, successes>>
        /\ job' = [job EXCEPT ![h] = "sending"]
    BY <1>3 DEF Admit, Probe
  <2>2. /\ IsFiniteSet(probing')
        /\ Cardinality(probing') = IF h \in probing THEN Cardinality(probing)
                                   ELSE Cardinality(probing) + 1
    BY <2>1, FS_AddElement
  <2>3. Cardinality(probing) \in Nat /\ Cardinality(probing') \in Nat
    BY <2>2, FS_CardinalityType
  <2> QED BY <2>1, <2>2, <2>3
<1>4. CASE Refuse(h)
  BY <1>4 DEF Refuse
<1> QED BY <1>1, <1>2, <1>3, <1>4 DEF Admit

LEMMA SucceedKeeps ==
  ASSUME BreakerInv, NEW h \in Handlers, Succeed(h)
  PROVE  BreakerInv'
<1>0. IsFiniteSet(probing \ {h}) /\ Cardinality(probing \ {h}) <= Cardinality(probing)
  <2>1. IsFiniteSet(probing)
    BY DEF BreakerInv, CountersAreBacked
  <2> QED BY <2>1, ProbesShrink
<1> USE BreakerAssumption DEF BreakerInv, TypeOK, CountersAreBacked, Succeed
<1>1. /\ wins' \in 0..SuccessThreshold /\ wins <= wins'
      /\ wins < SuccessThreshold => wins' = wins + 1
  BY UpToBounded
<1>2. /\ IsFiniteSet(probing')
      /\ Cardinality(probing') <= Cardinality(probing)
      /\ Cardinality(probing) \in Nat /\ Cardinality(probing') \in Nat
      /\ probing' \subseteq Handlers
  <2>1. probing' = probing \ {h} \/ probing' = {}
    OBVIOUS
  <2>2. Cardinality(probing) \in Nat
    BY FS_CardinalityType
  <2>3. IsFiniteSet(probing') /\ Cardinality(probing') <= Cardinality(probing)
    <3>1. CASE probing' = probing \ {h}
      BY <3>1, <1>0
    <3>2. CASE probing' = {}
      BY <3>2, <2>2, FS_EmptySet
    <3> QED BY <2>1, <3>1, <3>2
  <2>4. Cardinality(probing') \in Nat
    BY <2>3, FS_CardinalityType
  <2> QED BY <2>1, <2>2, <2>3, <2>4
<1>3. CASE state = "CLOSED"
  BY <1>1, <1>2, <1>3 DEF CountSuccess, circuit
<1>4. CASE state = "HALF_OPEN"
  BY <1>1, <1>2, <1>4 DEF CountSuccess, circuit
<1>5. CASE state = "OPEN"
  BY <1>1, <1>2, <1>5 DEF CountSuccess, circuit
<1> QED BY <1>3, <1>4, <1>5

LEMMA FailKeeps ==
  ASSUME BreakerInv, NEW h \in Handlers, Fail(h)
  PROVE  BreakerInv'
<1> USE BreakerAssumption DEF BreakerInv, TypeOK, CountersAreBacked, Fail
<1>1. losses < FailureThreshold => losses' = losses + 1
  BY UpToBounded
<1>2. losses' \in 0..FailureThreshold /\ losses <= losses'
  BY UpToBounded
<1>3. IsFiniteSet(probing') /\ probing' \subseteq Handlers
  BY ProbesShrink
<1>4. CASE Reopen
  BY <1>1, <1>2, <1>3, <1>4 DEF Reopen, Open
<1>5. CASE CountFailure
  <2> DEFINE n == IF windowAge > Window THEN 1 ELSE failures + 1
  <2>1. n \in Nat /\ n >= 1 /\ n <= failures + 1
    OBVIOUS
  <2>2. /\ state # "HALF_OPEN"
        /\ failures' = IF n < FailureThreshold THEN n ELSE FailureThreshold
        /\ windowAge' = IF windowAge > Window THEN 0 ELSE windowAge
        /\ \/ n >= FailureThreshold /\ Open
           \/ n < FailureThreshold /\ UNCHANGED <<state, openAge, probes, successes>>
    BY <1>5 DEF CountFailure
  <2> HIDE DEF n
  <2>3. CASE n >= FailureThreshold /\ Open
    BY <1>2, <1>3, <2>1, <2>2, <2>3 DEF Open
  <2>4. CASE n < FailureThreshold /\ UNCHANGED <<state, openAge, probes, successes>>
    BY <1>1, <1>2, <1>3, <2>1, <2>2, <2>4
  <2> QED BY <2>2, <2>3, <2>4
<1> QED BY <1>4, <1>5

LEMMA OtherStepsKeep ==
  ASSUME BreakerInv
  PROVE  /\ \A h \in Handlers : FailUnrecorded(h) => BreakerInv'
         /\ Tick => BreakerInv'
         /\ ChangeHealth => BreakerInv'
         /\ UNCHANGED vars => BreakerInv'
<1> USE BreakerAssumption DEF BreakerInv, TypeOK, CountersAreBacked
<1>1. ASSUME NEW h \in Handlers, FailUnrecorded(h) PROVE BreakerInv'
  <2>1. /\ IsFiniteSet(probing') /\ probing' \subseteq Handlers
        /\ Cardinality(probing') <= Cardinality(probing)
        /\ Cardinality(probing) \in Nat /\ Cardinality(probing') \in Nat
    BY <1>1, ProbesShrink, FS_CardinalityType DEF FailUnrecorded
  <2> QED BY <1>1, <2>1 DEF FailUnrecorded, circuit
<1>2. ASSUME Tick PROVE BreakerInv'
  BY <1>2 DEF Tick, UpTo
<1>3. ASSUME ChangeHealth PROVE BreakerInv'
  BY <1>3 DEF ChangeHealth, circuit
<1>4. ASSUME UNCHANGED vars PROVE BreakerInv'
  BY <1>4 DEF vars
<1> QED BY <1>1, <1>2, <1>3, <1>4

-----------------------------------------------------------------------------

\* The counters of circuit-breaker.ts are backed by what was recorded, for every
\* number of handlers, every threshold, limit and duration.
THEOREM BreakerCorrect == Spec => []BreakerInv
<1>1. Init => BreakerInv
  <2>1. Init => TypeOK
    <3>1. 0 \in Nat /\ 0 < FailureThreshold /\ 0 \in 0..Lull /\ Lull \in 0..Lull
          /\ 0 \in 0..(Window + 1) /\ 0 \in 0..OpenDuration /\ 0 \in 0..ProbeLimit
          /\ 0 \in 0..(SuccessThreshold - 1) /\ 0 \in 0..FailureThreshold
          /\ 0 \in 0..SuccessThreshold
      BY BreakerAssumption
    <3> QED BY <3>1 DEF Init, TypeOK
  <2>2. Init => CountersAreBacked
    BY FS_EmptySet DEF Init, CountersAreBacked
  <2> QED BY <2>1, <2>2 DEF BreakerInv
<1>2. BreakerInv /\ [Next]_vars => BreakerInv'
  <2> SUFFICES ASSUME BreakerInv, [Next]_vars PROVE BreakerInv'
    OBVIOUS
  <2>1. ASSUME NEW h \in Handlers, Handle(h) PROVE BreakerInv'
    BY <2>1, SucceedKeeps, FailKeeps, OtherStepsKeep DEF Handle, FailRetryable, RecordRefusal
  <2> QED BY <2>1, AskKeeps, OtherStepsKeep DEF Next
<1> QED BY <1>1, <1>2, PTL DEF Spec

\* The counters of the breaker stand for results that were recorded.
THEOREM CountersCorrect == Spec => []CountersAreBacked
<1>1. BreakerInv => CountersAreBacked
  BY DEF BreakerInv
<1> QED BY <1>1, BreakerCorrect, PTL

\* canAttempt keeps its limit of probes.
THEOREM ProbesStayBounded == Spec => []ProbesBounded
<1>1. BreakerInv => ProbesBounded
  <2> SUFFICES ASSUME BreakerInv, state = "HALF_OPEN" PROVE Cardinality(probing) <= ProbeLimit
    BY DEF ProbesBounded
  <2>1. Cardinality(probing) \in Nat
    BY FS_CardinalityType DEF BreakerInv, CountersAreBacked
  <2> QED BY <2>1, BreakerAssumption DEF BreakerInv, TypeOK, CountersAreBacked
<1> QED BY <1>1, BreakerCorrect, PTL

\* A circuit opens on FailureThreshold failures in a row, and on no fewer.
THEOREM OpensCorrectly == Spec => OpensOnEvidence
<1>1. BreakerInv /\ [Next]_vars => (state = "CLOSED" /\ state' = "OPEN" => losses' = FailureThreshold)
  <2> SUFFICES ASSUME BreakerInv, [Next]_vars, state = "CLOSED", state' = "OPEN"
               PROVE  losses' = FailureThreshold
    OBVIOUS
  <2>1. PICK h \in Handlers : Fail(h)
    BY DEF Next, Ask, Admit, Probe, Cooled, Refuse, Handle, Succeed, CountSuccess, FailRetryable,
           RecordRefusal, FailUnrecorded, Tick, ChangeHealth, circuit, vars
  <2>2. CountFailure /\ losses' = UpTo(losses, FailureThreshold)
    BY <2>1 DEF Fail, Reopen
  <2>3. failures + 1 >= FailureThreshold
    BY <2>2, BreakerAssumption DEF CountFailure, BreakerInv, TypeOK
  <2> QED BY <2>2, <2>3, BreakerAssumption DEF BreakerInv, TypeOK, CountersAreBacked, UpTo
<1> QED BY <1>1, BreakerCorrect, PTL DEF Spec, OpensOnEvidence

\* A circuit closes on SuccessThreshold successes in a row, and on no fewer, also
\* when results of earlier phases come in late.
THEOREM ClosesCorrectly == Spec => ClosesOnEvidence
<1>1. BreakerInv /\ [Next]_vars => (state # "CLOSED" /\ state' = "CLOSED" => wins' = SuccessThreshold)
  <2> SUFFICES ASSUME BreakerInv, [Next]_vars, state # "CLOSED", state' = "CLOSED"
               PROVE  wins' = SuccessThreshold
    OBVIOUS
  <2>1. PICK h \in Handlers : Succeed(h)
    BY DEF Next, Ask, Admit, Probe, Cooled, Refuse, Handle, Fail, Reopen, CountFailure, Open,
           FailRetryable, RecordRefusal, FailUnrecorded, Tick, ChangeHealth, circuit, vars
  <2>2. successes + 1 >= SuccessThreshold /\ wins' = UpTo(wins, SuccessThreshold)
    BY <2>1 DEF Succeed, CountSuccess, circuit
  <2> QED BY <2>2, BreakerAssumption DEF BreakerInv, TypeOK, CountersAreBacked, UpTo
<1> QED BY <1>1, BreakerCorrect, PTL DEF Spec, ClosesOnEvidence

=============================================================================
