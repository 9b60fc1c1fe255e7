-------------------------- MODULE AcceptanceProofs --------------------------
(***************************************************************************)
(* Proofs about Acceptance: AcceptanceInv is inductive, the four safety       *)
(* properties follow from it, and every step of a request, of its caller or   *)
(* of the process is a step of AcceptanceContract or leaves its view alone.   *)
(***************************************************************************)
EXTENDS Acceptance, FiniteSetTheorems, TLAPS

PcType == Busy \union {"idle", "replied", "dead"}
AnswerType == [code : Refusals \union {"none", "accepted"}, row : Requests \union {None, Old}]

LEMMA ProductsAreNat ==
  /\ Items * Delay \in Nat \ {0} /\ Capacity * Window \in Nat \ {0}
  /\ \A n \in Nat : n * Capacity \in Nat /\ Capacity * n \in Nat /\ n * Window \in Nat
BY AcceptanceAssumption

LEMMA RefilledBounds ==
  ASSUME TypeOK, RateInv
  PROVE  /\ Refilled \in Nat /\ Refilled <= Capacity * Window
         /\ Refilled <= level + (clock - lastRefill) * Capacity
<1> DEFINE d == clock - lastRefill
           f == d * Capacity
           cw == Capacity * Window
<1>1. d \in Nat /\ level \in Nat /\ f \in Nat /\ cw \in Nat
  BY ProductsAreNat DEF TypeOK, RateInv
<1>2. Refilled = Least(cw, level + f)
  BY DEF Refilled
<1> HIDE DEF d, f, cw
<1>3. Least(cw, level + f) \in Nat /\ Least(cw, level + f) <= cw /\ Least(cw, level + f) <= level + f
  BY <1>1 DEF Least
<1> QED BY <1>2, <1>3 DEF d, f, cw

-----------------------------------------------------------------------------
(* What the steps of a request leave alone, and how they are typed.          *)

LEMMA AskType ==
  ASSUME TypeOK, CallerInv, NEW r \in Requests, pc[r] # "idle"
  PROVE  /\ r[1] \in Calls /\ r[2] \in 1..MaxAttempts /\ r = <<r[1], r[2]>>
         /\ call[r[1]] # None /\ Ask(r) \in CallType
<1>1. r[1] \in Calls /\ r[2] \in 1..MaxAttempts /\ r = <<r[1], r[2]>>
  BY DEF Requests
<1>2. try[r[1]] # 0
  BY <1>1, AcceptanceAssumption DEF TypeOK, CallerInv
<1> QED BY <1>1, <1>2 DEF TypeOK, CallerInv, Ask

Stored == {"publish", "note", "created", "fail"}

(***************************************************************************)
(* A step of a request moves it on, stores its row, or answers it; an answer  *)
(* other than a failure has its reason in the table.                        *)
(***************************************************************************)
MovesOn(r) ==
  /\ UNCHANGED <<rows, reply>>
  /\ \E p \in Busy : /\ pc' = [pc EXCEPT ![r] = p]
                     /\ p = "reread" => Ask(r).key # None
                     /\ p \in Stored <=> pc[r] \in Stored

StoresRow(r) ==
  /\ pc[r] = "insert" /\ Existing(r) = {}
  /\ rows' = rows \union {r} /\ UNCHANGED reply
  /\ \E p \in Stored : pc' = [pc EXCEPT ![r] = p]

Justified(r, code, t) ==
  \/ code \in Refusals \ {"conflict"} /\ t = None
  \/ code = "conflict" /\ t = None /\ Conflicts(Ask(r).key, Ask(r).body)
  \/ code = "accepted" /\ t = r /\ r \in rows
  \/ code = "accepted" /\ t \in Existing(r) /\ ~IsMateriallyDifferent(t, r)

Answers(r) ==
  /\ UNCHANGED rows
  /\ \E code \in Refusals \union {"accepted"}, t \in Requests \union {None, Old} :
       Justified(r, code, t) /\ Respond(r, Answer(code, t))

RequestStep(r) ==
  /\ UNCHANGED <<route, call, try, got, clock, old>>
  /\ pc[r] \in Busy
  /\ MovesOn(r) \/ StoresRow(r) \/ Answers(r)

LEMMA RefusalAnswers ==
  ASSUME NEW r \in Requests, NEW code \in Refusals \ {"conflict"}, Reply(r, code), UNCHANGED rows
  PROVE  Answers(r)
BY DEF Answers, Justified, Reply

LEMMA ReplayAnswers ==
  ASSUME TypeOK, NEW r \in Requests, NEW t \in Existing(r), Replay(r, t), UNCHANGED rows
  PROVE  Answers(r)
<1>1. CASE IsMateriallyDifferent(t, r) /\ Reply(r, "conflict")
  <2>1. t \in rows /\ Ask(t).key = Ask(r).key /\ Ask(r).key # None /\ Ask(t).body # Ask(r).body
    BY <1>1 DEF Existing, IsMateriallyDifferent
  <2>2. Conflicts(Ask(r).key, Ask(r).body)
    BY <2>1 DEF Conflicts
  <2> QED BY <1>1, <2>2 DEF Answers, Justified, Reply, Refusals
<1>2. CASE ~IsMateriallyDifferent(t, r) /\ Accepted(r, t)
  <2>1. t \in Requests \union {None, Old}
    BY DEF TypeOK, Existing
  <2> QED BY <1>2, <2>1 DEF Answers, Justified, Accepted
<1> QED BY <1>1, <1>2 DEF Replay

LEMMA OwnRowAnswers ==
  ASSUME NEW r \in Requests, r \in rows, Accepted(r, r), UNCHANGED rows
  PROVE  Answers(r)
BY DEF Answers, Justified, Accepted

LEMMA GotoMoves ==
  ASSUME NEW r \in Requests, NEW p \in Busy \ {"reread"}, Goto(r, p), UNCHANGED rows,
         p \in Stored <=> pc[r] \in Stored
  PROVE  MovesOn(r)
BY DEF MovesOn, Goto

LEMMA ServeCases ==
  ASSUME TypeOK, RequestInv, NEW r \in Requests, Serve(r)
  PROVE  RequestStep(r)
<1>0. /\ UNCHANGED <<route, call, try, got, clock>>
  BY DEF Serve, InRequest, caller
<1>1. CASE Limit(r)
  <2>1. UNCHANGED <<rows, old>> /\ pc[r] = "limit" /\ (Goto(r, "lookup") \/ Reply(r, "limited"))
    BY <1>1 DEF Limit, table
  <2> QED BY <1>0, <2>1, GotoMoves, RefusalAnswers DEF RequestStep, Busy, Stored, Refusals
<1>2. CASE Lookup(r)
  <2>1. UNCHANGED <<rows, old>> /\ pc[r] = "lookup"
    BY <1>2 DEF Lookup, Unstored, table
  <2>2. \/ \E t \in Existing(r) : Replay(r, t)
        \/ Goto(r, "insert") \/ Goto(r, "find") \/ Reply(r, "failed")
    BY <1>2 DEF Lookup
  <2> QED BY <1>0, <2>1, <2>2, GotoMoves, RefusalAnswers, ReplayAnswers
          DEF RequestStep, Busy, Stored, Refusals
<1>3. CASE Find(r)
  <2>1. UNCHANGED <<rows, old>> /\ pc[r] = "find"
    BY <1>3 DEF Find, Unstored, table
  <2>2. Goto(r, "insert") \/ Reply(r, "missing") \/ Reply(r, "failed")
    BY <1>3 DEF Find
  <2> QED BY <1>0, <2>1, <2>2, GotoMoves, RefusalAnswers DEF RequestStep, Busy, Stored, Refusals
<1>4. CASE Insert(r)
  <2>1. UNCHANGED old /\ pc[r] = "insert"
    BY <1>4 DEF Insert, Commit, table
  <2>2. CASE Existing(r) = {} /\ Commit(r) /\ \E p \in Stored : Goto(r, p)
    BY <1>0, <2>1, <2>2 DEF RequestStep, StoresRow, Commit, Goto, Busy
  <2>3. CASE UNCHANGED table /\ Ask(r).key # None /\ Goto(r, "reread")
    BY <1>0, <2>1, <2>3 DEF RequestStep, MovesOn, Goto, Busy, Stored, table
  <2>4. CASE UNCHANGED table /\ (Reply(r, "failed") \/ Reply(r, "missing"))
    BY <1>0, <2>1, <2>4, RefusalAnswers DEF RequestStep, Busy, Refusals, table
  <2> QED BY <1>4, <2>2, <2>3, <2>4 DEF Insert, Stored
<1>5. CASE Reread(r)
  <2>1. UNCHANGED <<rows, old>> /\ pc[r] = "reread"
    BY <1>5 DEF Reread, Unstored, table
  <2> QED BY <1>0, <1>5, <2>1, RefusalAnswers, ReplayAnswers DEF Reread, RequestStep, Busy, Refusals
<1>6. CASE Publish(r)
  <2>1. UNCHANGED <<rows, old>> /\ pc[r] = "publish" /\ r \in rows
    BY <1>6 DEF Publish, Unstored, table, RequestInv
  <2>2. Goto(r, "created") \/ Accepted(r, r) \/ Goto(r, "note")
    BY <1>6 DEF Publish
  <2> QED BY <1>0, <2>1, <2>2, GotoMoves, OwnRowAnswers DEF RequestStep, Busy, Stored
<1>7. CASE Note(r)
  <2>1. UNCHANGED <<rows, old>> /\ pc[r] = "note" /\ (Reply(r, "down") \/ Reply(r, "failed"))
    BY <1>7 DEF Note, Unstored, table
  <2> QED BY <1>0, <2>1, RefusalAnswers DEF RequestStep, Busy, Refusals
<1>8. CASE Created(r)
  <2>1. UNCHANGED <<rows, old>> /\ pc[r] = "created" /\ r \in rows
    BY <1>8 DEF Created, Unstored, table, RequestInv
  <2>2. Accepted(r, r) \/ Reply(r, "down")
    BY <1>8 DEF Created
  <2> QED BY <1>0, <2>1, <2>2, RefusalAnswers, OwnRowAnswers DEF RequestStep, Busy, Refusals
<1>9. CASE Fail(r)
  <2>1. UNCHANGED <<rows, old>> /\ pc[r] = "fail" /\ Reply(r, "failed")
    BY <1>9 DEF Fail, Unstored, table
  <2> QED BY <1>0, <2>1, RefusalAnswers DEF RequestStep, Busy, Refusals
<1> QED BY <1>1, <1>2, <1>3, <1>4, <1>5, <1>6, <1>7, <1>8, <1>9 DEF Serve

LEMMA StepTypes ==
  ASSUME TypeOK, NEW r \in Requests, RequestStep(r)
  PROVE  /\ pc' \in [Requests -> PcType] /\ reply' \in [Requests -> AnswerType]
         /\ rows' \subseteq Requests
<1>1. CASE MovesOn(r)
  BY <1>1 DEF TypeOK, MovesOn, PcType, AnswerType
<1>2. CASE StoresRow(r)
  BY <1>2 DEF TypeOK, StoresRow, Stored, Busy, PcType, AnswerType
<1>3. CASE Answers(r)
  BY <1>3 DEF TypeOK, Answers, Respond, Answer, PcType, AnswerType
<1> QED BY <1>1, <1>2, <1>3 DEF RequestStep

LEMMA ServeTypes ==
  ASSUME AcceptanceInv, NEW r \in Requests, Serve(r)
  PROVE  TypeOK'
<1> USE DEF AcceptanceInv
<1>1. RequestStep(r)
  BY ServeCases
<1>2. /\ pc' \in [Requests -> PcType] /\ reply' \in [Requests -> AnswerType]
      /\ rows' \subseteq Requests
  BY <1>1, StepTypes
<1>3. saw' \in [Requests -> BOOLEAN]
  BY DEF Serve, Limit, Lookup, Find, Insert, Reread, Publish, Note, Created, Fail, TypeOK
<1>4. now' \in [Requests -> Nat]
  BY DEF Serve, Limit, Lookup, Find, Insert, Reread, Publish, Note, Created, Fail, TypeOK
<1>5. start' \in [Requests -> Nat] /\ nextFree' \in Nat
  <2>1. CASE UNCHANGED <<start, nextFree>>
    BY <2>1 DEF TypeOK
  <2>2. CASE Commit(r)
    <3>1. StartAt(r) \in Nat
      BY DEF StartAt, TypeOK
    <3>2. NextAvailable(StartAt(r)) \in Nat
      BY <3>1, ProductsAreNat DEF NextAvailable
    <3> QED BY <2>2, <3>1, <3>2 DEF Commit, TypeOK
  <2> QED BY <2>1, <2>2 DEF Serve, Limit, Lookup, Find, Insert, Reread, Publish, Note, Created, Fail,
                            Unstored, table
<1>6. {level', lastRefill', admitted', restarts'} \subseteq Nat
  <2>1. CASE UNCHANGED limiter
    BY <2>1 DEF limiter, TypeOK
  <2>2. CASE Limit(r)
    <3>1. Refilled \in Nat /\ (HasToken => Refilled - Window \in Nat)
      BY RefilledBounds, AcceptanceAssumption DEF HasToken
    <3> QED BY <2>2, <3>1 DEF Limit, TypeOK
  <2> QED BY <2>1, <2>2 DEF Serve, Lookup, Find, Insert, Reread, Publish, Note, Created, Fail, Unstored
<1> QED BY <1>1, <1>2, <1>3, <1>4, <1>5, <1>6 DEF RequestStep, TypeOK, PcType, AnswerType

LEMMA ServeCaller ==
  ASSUME TypeOK, CallerInv, NEW r \in Requests, RequestStep(r)
  PROVE  CallerInv'
<1>1. pc[r] # "idle" /\ \A q \in Requests : pc'[q] = "idle" <=> pc[q] = "idle"
  BY DEF RequestStep, MovesOn, StoresRow, Answers, Respond, Stored, Busy, TypeOK
<1> QED BY <1>1 DEF RequestStep, CallerInv

LEMMA ServeRequest ==
  ASSUME TypeOK, RequestInv, NEW r \in Requests, RequestStep(r)
  PROVE  RequestInv'
<1> USE DEF RequestInv, TypeOK, Stored, Busy, Ask
<1>0. call' = call /\ pc[r] \in Busy /\ reply[r].code = "none"
  BY DEF RequestStep
<1>1. CASE MovesOn(r)
  BY <1>0, <1>1 DEF MovesOn
<1>2. CASE StoresRow(r)
  BY <1>0, <1>2 DEF StoresRow
<1>3. CASE Answers(r)
  <2>1. PICK code \in Refusals \union {"accepted"}, t \in Requests \union {None, Old} :
          Respond(r, Answer(code, t))
    BY <1>3 DEF Answers
  <2>2. /\ pc' = [pc EXCEPT ![r] = "replied"] /\ reply' = [reply EXCEPT ![r] = Answer(code, t)]
        /\ Answer(code, t).code # "none" /\ rows' = rows
    BY <1>3, <2>1 DEF Answers, Respond, Answer, Refusals
  <2> QED BY <1>0, <2>2
<1> QED BY <1>1, <1>2, <1>3 DEF RequestStep

LEMMA ServeKey ==
  ASSUME TypeOK, KeyInv, NEW r \in Requests, RequestStep(r)
  PROVE  KeyInv'
<1>1. call' = call /\ old' = old
  BY DEF RequestStep
<1>2. CASE UNCHANGED rows
  BY <1>1, <1>2 DEF KeyInv, Ask
<1>3. CASE StoresRow(r)
  <2>1. Ask(r).key # None => Ask(r).key \notin old /\ \A t \in rows : Ask(t).key # Ask(r).key
    BY <1>3 DEF StoresRow, Existing
  <2>2. rows' = rows \union {r}
    BY <1>3 DEF StoresRow
  <2> QED BY <1>1, <2>1, <2>2 DEF KeyInv, Ask
<1> QED BY <1>2, <1>3 DEF RequestStep, MovesOn, Answers

LEMMA ServeConflict ==
  ASSUME TypeOK, ConflictInv, NEW r \in Requests, RequestStep(r)
  PROVE  ConflictInv'
<1>1. call' = call /\ got' = got /\ rows \subseteq rows'
  BY DEF RequestStep, MovesOn, StoresRow, Answers
<1>2. \A k, b : Conflicts(k, b) => Conflicts(k, b)'
  BY <1>1 DEF Conflicts, Ask
<1>3. \A q \in Requests : reply'[q].code = "conflict" =>
        reply[q].code = "conflict" \/ Conflicts(Ask(q).key, Ask(q).body)
  <2>1. CASE UNCHANGED reply
    BY <2>1
  <2>2. CASE Answers(r)
    BY <2>2 DEF Answers, Respond, Answer, Justified, TypeOK
  <2> QED BY <2>1, <2>2 DEF RequestStep, MovesOn, StoresRow
<1> QED BY <1>1, <1>2, <1>3 DEF ConflictInv, Ask

\* The schedule: a batch starts where the last one ended, or later.
LEMMA CommitPaced ==
  ASSUME TypeOK, RequestInv, PaceInv, NEW r \in Requests, pc[r] = "insert",
         route = "bulk", Commit(r), UNCHANGED <<route, now>>
  PROVE  PaceInv'
<1> DEFINE d == Items * Delay
<1>0. d \in Nat
  BY ProductsAreNat
<1>1. /\ StartAt(r) \in Nat /\ StartAt(r) >= now[r] /\ StartAt(r) >= nextFree
      /\ nextFree \in Nat /\ start \in [Requests -> Nat] /\ now \in [Requests -> Nat]
  BY DEF StartAt, TypeOK
<1>2. /\ rows' = rows \union {r} /\ rows \subseteq Requests /\ r \notin rows
      /\ start' = [start EXCEPT ![r] = StartAt(r)]
      /\ nextFree' = StartAt(r) + d
  BY DEF Commit, NextAvailable, RequestInv, TypeOK
<1>3. /\ \A q \in rows : start[q] >= now[q] /\ start[q] + d <= nextFree
      /\ \A q, s \in rows : q # s => start[q] + d <= start[s] \/ start[s] + d <= start[q]
  BY DEF PaceInv, BatchesArePaced
<1> HIDE DEF d
<1>4. /\ start'[r] = StartAt(r) /\ \A q \in rows : start'[q] = start[q] /\ q # r
      /\ now' = now
  BY <1>1, <1>2
<1>5. \A q \in rows' : start'[q] >= now'[q] /\ start'[q] + d <= nextFree'
  BY <1>0, <1>1, <1>2, <1>3, <1>4
<1>6. \A q, s \in rows' : q # s => start'[q] + d <= start'[s] \/ start'[s] + d <= start'[q]
  BY <1>0, <1>1, <1>2, <1>3, <1>4
<1> QED BY <1>5, <1>6 DEF PaceInv, BatchesArePaced, d

LEMMA ServePaced ==
  ASSUME TypeOK, RequestInv, PaceInv, NEW r \in Requests, Serve(r)
  PROVE  PaceInv'
<1>0. route' = route
  BY DEF Serve, InRequest
<1>1. CASE UNCHANGED <<table, now>>
  BY <1>0, <1>1 DEF PaceInv, BatchesArePaced, table
<1>2. CASE Insert(r) /\ Commit(r)
  <2>1. pc[r] = "insert" /\ now' = now
    BY <1>2 DEF Insert
  <2> QED BY <1>0, <1>2, <2>1, CommitPaced DEF PaceInv, BatchesArePaced
<1>3. CASE Lookup(r)
  <2>1. UNCHANGED table /\ pc[r] = "lookup" /\ \A q \in Requests \ {r} : now'[q] = now[q]
    BY <1>3 DEF Lookup, Unstored, TypeOK
  <2>2. r \notin rows
    BY <2>1 DEF RequestInv
  <2> QED BY <1>0, <2>1, <2>2 DEF PaceInv, BatchesArePaced, table, TypeOK
<1> QED BY <1>1, <1>2, <1>3 DEF Serve, Limit, Find, Insert, Reread, Publish, Note, Created, Fail, Unstored

LEMMA ServeRate ==
  ASSUME TypeOK, RateInv, NEW r \in Requests, Serve(r)
  PROVE  RateInv'
<1>0. clock' = clock
  BY DEF Serve, InRequest
<1>1. CASE UNCHANGED limiter
  BY <1>0, <1>1 DEF RateInv, limiter
<1>2. CASE Limit(r)
  <2> DEFINE cw == Capacity * Window
             granted == Capacity * Window * (restarts + 1)
             aw == admitted * Window
             c0 == Capacity * lastRefill
             c1 == Capacity * clock
  <2>1. /\ {cw, granted, aw, c0, c1, level, Window} \subseteq Nat
        /\ (admitted + 1) * Window = aw + Window
        /\ (clock - lastRefill) * Capacity = c1 - c0
    <3>1. {cw, aw, c0, c1, level, Window, admitted, clock, lastRefill, Capacity} \subseteq Nat
      BY AcceptanceAssumption, ProductsAreNat DEF TypeOK
    <3>2. granted \in Nat
      BY ProductsAreNat DEF TypeOK
    <3>3. (admitted + 1) * Window = aw + Window
      BY <3>1
    <3>4. (clock - lastRefill) * Capacity = c1 - c0
      BY <3>1
    <3> QED BY <3>1, <3>2, <3>3, <3>4
  <2>2. level <= cw /\ aw + level <= granted + c0
    BY DEF RateInv
  <2>3. Refilled \in Nat /\ Refilled <= cw /\ Refilled <= level + (c1 - c0)
    BY <2>1, RefilledBounds
  <2>4. /\ lastRefill' = clock /\ restarts' = restarts
        /\ \/ /\ Refilled >= Window /\ level' = Refilled - Window /\ admitted' = admitted + 1
           \/ level' = Refilled /\ admitted' = admitted
    BY <1>2 DEF Limit, HasToken
  <2> HIDE DEF cw, granted, aw, c0, c1
  <2>5. level' <= cw /\ (IF admitted' = admitted THEN aw ELSE aw + Window) + level' <= granted + c1
    BY <2>1, <2>2, <2>3, <2>4
  <2>6. admitted' * Window = IF admitted' = admitted THEN aw ELSE aw + Window
    BY <2>1, <2>4 DEF aw, TypeOK
  <2>7. clock \in Nat
    BY DEF TypeOK
  <2> QED BY <1>0, <2>4, <2>5, <2>6, <2>7 DEF RateInv, cw, granted, c1
<1> QED BY <1>1, <1>2 DEF Serve, Lookup, Find, Insert, Reread, Publish, Note, Created, Fail, Unstored

LEMMA ServeKeeps ==
  ASSUME AcceptanceInv, NEW r \in Requests, Serve(r)
  PROVE  AcceptanceInv'
BY ServeCases, ServeTypes, ServeCaller, ServeRequest, ServeKey, ServeConflict, ServePaced, ServeRate
   DEF AcceptanceInv

-----------------------------------------------------------------------------
(* The caller, the restart of the process and the clock.                     *)

\* The caller sends an attempt nobody has served yet, or waits no longer.
CallerStep(c) ==
  /\ UNCHANGED <<route, reply, table, saw, now, clock, limiter>>
  /\ \/ /\ call[c] = None /\ UNCHANGED got
        /\ \E k \in Keys \union {None}, b \in Bodies, again \in BOOLEAN :
             call' = [call EXCEPT ![c] = [key |-> k, body |-> b, retry |-> again]]
        /\ SendAttempt(c, 1)
     \/ /\ call[c] # None /\ call[c].retry /\ call[c].key # None /\ try[c] < MaxAttempts
        /\ SendAttempt(c, try[c] + 1)
        /\ UNCHANGED <<call, got>>
     \/ /\ call[c] # None
        /\ \/ got' = [got EXCEPT ![c] = "unreachable"]
           \/ /\ reply[Current(c)].code # "none"
              /\ got' = [got EXCEPT ![c] = reply[Current(c)].code]
        /\ UNCHANGED <<call, try, pc>>

LEMMA CurrentRequest ==
  ASSUME TypeOK, CallerInv, NEW c \in Calls, call[c] # None
  PROVE  Current(c) \in Requests /\ Ask(Current(c)) = call[c] /\ try[c] \in 1..MaxAttempts
<1>1. try[c] \in 1..MaxAttempts
  BY DEF TypeOK, CallerInv
<1> QED BY <1>1 DEF Current, Requests, Ask

LEMMA SettleCases ==
  ASSUME TypeOK, CallerInv, NEW c \in Calls, NEW a, call[c] # None, Settle(c, a),
         a = "unreachable" \/ (a # "none" /\ a = reply[Current(c)].code)
  PROVE  CallerStep(c)
<1>1. CASE try[c] < Attempts(c) /\ SendAttempt(c, try[c] + 1) /\ UNCHANGED got
  <2>1. try[c] \in 1..MaxAttempts
    BY CurrentRequest
  <2>2. call[c].retry /\ call[c].key # None /\ try[c] < MaxAttempts
    BY <1>1, <2>1, AcceptanceAssumption DEF Attempts
  <2> QED BY <1>1, <2>2 DEF Settle, CallerStep
<1>2. CASE got' = [got EXCEPT ![c] = a] /\ UNCHANGED <<try, pc>>
  BY <1>2 DEF Settle, CallerStep
<1> QED BY <1>1, <1>2 DEF Settle

LEMMA CallerCases ==
  ASSUME TypeOK, CallerInv, RequestInv, NEW c \in Calls, Begin(c) \/ Receive(c) \/ GiveUp(c)
  PROVE  CallerStep(c)
<1>1. CASE Begin(c)
  <2>1. PICK k \in Keys \union {None}, b \in Bodies, again \in {FALSE} \union {route = "message"} :
          call' = [call EXCEPT ![c] = [key |-> k, body |-> b, retry |-> again]]
    BY <1>1 DEF Begin
  <2>2. again \in BOOLEAN
    BY Zenon
  <2>3. call[c] = None /\ SendAttempt(c, 1)
        /\ UNCHANGED <<route, got, reply, table, saw, now, clock, limiter>>
    BY <1>1 DEF Begin
  <2> QED BY <2>1, <2>2, <2>3 DEF CallerStep
<1>2. CASE Receive(c)
  <2>1. call[c] # None /\ Settle(c, reply[Current(c)].code) /\ pc[Current(c)] = "replied"
    BY <1>2 DEF Receive, Waits
  <2>2. reply[Current(c)].code # "none"
    BY <2>1, CurrentRequest DEF RequestInv
  <2> QED BY <2>1, <2>2, SettleCases
<1>3. CASE GiveUp(c)
  BY <1>3, SettleCases DEF GiveUp, Waits
<1> QED BY <1>1, <1>2, <1>3

LEMMA SendKeeps ==
  ASSUME TypeOK, CallerInv, NEW c \in Calls, NEW n \in 1..MaxAttempts, n = try[c] + 1, SendAttempt(c, n)
  PROVE  /\ try' \in [Calls -> 0..MaxAttempts] /\ pc' \in [Requests -> PcType]
         /\ <<c, n>> \in Requests /\ pc[<<c, n>>] = "idle" /\ pc'[<<c, n>>] \in {"limit", "lookup"}
         /\ \A r \in Requests : r # <<c, n>> => pc'[r] = pc[r]
         /\ \A r \in Requests : pc'[r] = "idle" <=> r[2] > try'[r[1]]
         /\ try'[c] = n /\ \A d \in Calls \ {c} : try'[d] = try[d]
<1>1. /\ try' = [try EXCEPT ![c] = n] /\ pc' = [pc EXCEPT ![<<c, n>>] = FirstStep]
      /\ FirstStep \in {"limit", "lookup"}
  BY DEF SendAttempt, FirstStep
<1>2. <<c, n>> \in Requests /\ pc[<<c, n>>] = "idle"
  BY DEF TypeOK, CallerInv, Requests
<1>3. \A r \in Requests : r[1] \in Calls /\ r[2] \in 1..MaxAttempts /\ r = <<r[1], r[2]>>
  BY DEF Requests
<1>4. \A r \in Requests : r # <<c, n>> => pc'[r] = pc[r]
  BY <1>1, <1>2 DEF TypeOK
<1>5. pc'[<<c, n>>] \in {"limit", "lookup"}
  BY <1>1, <1>2 DEF TypeOK
<1>6. try' \in [Calls -> 0..MaxAttempts] /\ try'[c] = n /\ \A d \in Calls \ {c} : try'[d] = try[d]
  BY <1>1 DEF TypeOK
<1>7. \A r \in Requests : pc'[r] = "idle" <=> r[2] > try'[r[1]]
  <2> SUFFICES ASSUME NEW r \in Requests
               PROVE  pc'[r] = "idle" <=> r[2] > try'[r[1]]
    OBVIOUS
  <2>1. CASE r = <<c, n>>
    BY <2>1, <1>5, <1>6
  <2>2. CASE r # <<c, n>> /\ r[1] = c
    <3>1. r[2] # n /\ r[2] \in Nat /\ pc'[r] = pc[r]
      BY <2>2, <1>3, <1>4
    <3>2. try[c] \in Nat /\ n \in Nat /\ (pc[r] = "idle" <=> r[2] > try[c])
      BY <2>2 DEF CallerInv, TypeOK
    <3> QED BY <2>2, <3>1, <3>2, <1>6
  <2>3. CASE r[1] # c
    BY <2>3, <1>3, <1>4, <1>6 DEF CallerInv
  <2> QED BY <2>1, <2>2, <2>3
<1>8. pc' \in [Requests -> PcType]
  BY <1>1 DEF TypeOK, PcType, Busy
<1> QED BY <1>2, <1>4, <1>5, <1>6, <1>7, <1>8

\* A row's request has been sent, so the first attempt of a new call disturbs none.
LEMMA CallerKeepsAsk ==
  ASSUME TypeOK, CallerInv, NEW c \in Calls, CallerStep(c)
  PROVE  \A r \in Requests : pc[r] # "idle" => Ask(r)' = Ask(r)
<1>1. \A r \in Requests : pc[r] # "idle" => r[1] \in Calls /\ call[r[1]] # None
  BY AskType
<1> QED BY <1>1 DEF CallerStep, Ask, TypeOK

LEMMA CallerTypes ==
  ASSUME TypeOK, CallerInv, NEW c \in Calls, CallerStep(c)
  PROVE  TypeOK' /\ CallerInv'
<1>0. /\ UNCHANGED <<route, reply, rows, start, nextFree, old, saw, now, clock>>
      /\ UNCHANGED <<level, lastRefill, admitted, restarts>>
  BY DEF CallerStep, table, limiter
<1>1. /\ \A d \in Calls : call[d] = None <=> try[d] = 0
      /\ \A d \in Calls : call[d] # None => try[d] = 1 \/ (call[d].retry /\ call[d].key # None)
  BY DEF CallerInv
<1>2. ASSUME NEW k \in Keys \union {None}, NEW b \in Bodies, NEW again \in BOOLEAN,
             call[c] = None, UNCHANGED got,
             call' = [call EXCEPT ![c] = [key |-> k, body |-> b, retry |-> again]],
             SendAttempt(c, 1)
      PROVE  TypeOK' /\ CallerInv'
  <2>1. try[c] = 0 /\ 1 \in 1..MaxAttempts /\ 1 = try[c] + 1
    BY <1>1, <1>2, AcceptanceAssumption
  <2>2. [key |-> k, body |-> b, retry |-> again] \in CallType
        /\ [key |-> k, body |-> b, retry |-> again] # None
    BY AcceptanceAssumption DEF CallType
  <2>3. /\ call' \in [Calls -> CallType \union {None}]
        /\ call'[c] # None /\ \A d \in Calls \ {c} : call'[d] = call[d]
    BY <1>2, <2>2 DEF TypeOK
  <2>4. /\ try' \in [Calls -> 0..MaxAttempts] /\ pc' \in [Requests -> PcType]
        /\ \A r \in Requests : pc'[r] = "idle" <=> r[2] > try'[r[1]]
        /\ try'[c] = 1 /\ \A d \in Calls \ {c} : try'[d] = try[d]
    BY <1>2, <2>1, SendKeeps
  <2>5. TypeOK'
    BY <1>0, <1>2, <2>3, <2>4 DEF TypeOK, PcType
  <2>6. CallerInv'
    BY <1>1, <2>3, <2>4 DEF CallerInv
  <2> QED BY <2>5, <2>6
<1>3. CASE /\ call[c] # None /\ call[c].retry /\ call[c].key # None /\ try[c] < MaxAttempts
           /\ SendAttempt(c, try[c] + 1)
           /\ UNCHANGED <<call, got>>
  <2>1. try[c] + 1 \in 1..MaxAttempts
    BY <1>3, AcceptanceAssumption DEF TypeOK
  <2>2. /\ try' \in [Calls -> 0..MaxAttempts] /\ pc' \in [Requests -> PcType]
        /\ \A r \in Requests : pc'[r] = "idle" <=> r[2] > try'[r[1]]
        /\ try'[c] = try[c] + 1 /\ \A d \in Calls \ {c} : try'[d] = try[d]
    BY <1>3, <2>1, SendKeeps
  <2>3. TypeOK'
    BY <1>0, <1>3, <2>2 DEF TypeOK, PcType
  <2>4. CallerInv'
    BY <1>1, <1>3, <2>1, <2>2 DEF CallerInv
  <2> QED BY <2>3, <2>4
<1>4. CASE /\ call[c] # None
           /\ \/ got' = [got EXCEPT ![c] = "unreachable"]
              \/ /\ reply[Current(c)].code # "none"
                 /\ got' = [got EXCEPT ![c] = reply[Current(c)].code]
           /\ UNCHANGED <<call, try, pc>>
  <2>1. Current(c) \in Requests
    BY <1>4, CurrentRequest
  <2>2. got' \in [Calls -> Refusals \union {"none", "accepted", "unreachable"}]
    BY <1>4, <2>1 DEF TypeOK
  <2>3. TypeOK'
    BY <1>0, <1>4, <2>2 DEF TypeOK
  <2>4. CallerInv'
    BY <1>4 DEF CallerInv
  <2> QED BY <2>3, <2>4
<1> QED BY <1>2, <1>3, <1>4 DEF CallerStep

LEMMA CallerKeeps ==
  ASSUME AcceptanceInv, NEW c \in Calls, CallerStep(c)
  PROVE  AcceptanceInv'
<1> USE DEF AcceptanceInv
<1>1. TypeOK' /\ CallerInv'
  BY CallerTypes
<1>2. /\ UNCHANGED <<route, reply, rows, start, nextFree, old, saw, now, clock>>
      /\ UNCHANGED <<level, lastRefill, admitted, restarts>>
  BY DEF CallerStep, table, limiter
<1>3. \A r \in Requests : pc[r] # "idle" => Ask(r)' = Ask(r)
  BY CallerKeepsAsk
<1>4. \A r \in Requests : pc'[r] = pc[r] \/ (pc[r] = "idle" /\ pc'[r] \in {"limit", "lookup"})
  <2>1. \A n \in 1..MaxAttempts : n = try[c] + 1 /\ SendAttempt(c, n) =>
          \A r \in Requests : pc'[r] = pc[r] \/ (pc[r] = "idle" /\ pc'[r] \in {"limit", "lookup"})
    BY SendKeeps
  <2>2. 1 \in 1..MaxAttempts /\ (call[c] = None => 1 = try[c] + 1)
        /\ (try[c] < MaxAttempts => try[c] + 1 \in 1..MaxAttempts)
    BY AcceptanceAssumption DEF TypeOK, CallerInv
  <2> QED BY <2>1, <2>2 DEF CallerStep
<1>5. rows \subseteq Requests /\ \A r \in rows : pc[r] # "idle"
  BY DEF RequestInv, TypeOK
<1>6. RequestInv'
  BY <1>2, <1>3, <1>4, <1>5 DEF RequestInv
<1>7. KeyInv'
  BY <1>2, <1>3, <1>5 DEF KeyInv
<1>8. \A k, b : Conflicts(k, b) => Conflicts(k, b)'
  BY <1>2, <1>3, <1>5 DEF Conflicts
<1>9. \A r \in Requests : reply'[r].code = "conflict" => Conflicts(Ask(r).key, Ask(r).body)'
  <2>1. \A r \in Requests : reply[r].code = "conflict" => pc[r] # "idle"
    BY DEF RequestInv
  <2> QED BY <1>2, <1>3, <1>8, <2>1 DEF ConflictInv
<1>10. \A d \in Calls : got'[d] = "conflict" => call'[d] # None /\ Conflicts(call[d].key, call[d].body)
                                              /\ call'[d] = call[d]
  <2>1. \A d \in Calls : call[d] # None => call'[d] = call[d]
    BY DEF CallerStep, TypeOK
  <2>2. \A d \in Calls : got'[d] = "conflict" =>
          got[d] = "conflict" \/ (d = c /\ call[c] # None /\ reply[Current(c)].code = "conflict")
    BY DEF CallerStep, TypeOK
  <2>3. call[c] # None => Current(c) \in Requests /\ Ask(Current(c)) = call[c]
    BY CurrentRequest
  <2> QED BY <2>1, <2>2, <2>3 DEF ConflictInv
<1>11. ConflictInv'
  BY <1>8, <1>9, <1>10 DEF ConflictInv
<1>12. PaceInv' /\ RateInv'
  BY <1>2 DEF PaceInv, BatchesArePaced, RateInv
<1> QED BY <1>1, <1>6, <1>7, <1>11, <1>12

LEMMA RestartKeeps ==
  ASSUME AcceptanceInv, Restart
  PROVE  AcceptanceInv'
<1> USE DEF AcceptanceInv
<1>1. /\ UNCHANGED <<route, call, try, got, reply, rows, start, nextFree, old, saw, now, clock, admitted>>
      /\ restarts' = restarts + 1 /\ level' = Capacity * Window /\ lastRefill' = clock
      /\ pc' = [r \in Requests |-> IF pc[r] \in Busy THEN "dead" ELSE pc[r]]
  BY DEF Restart, caller, table
<1>2. \A r \in Requests : pc'[r] = pc[r] \/ (pc[r] \in Busy /\ pc'[r] = "dead")
  BY <1>1
<1>3. TypeOK'
  BY <1>1, ProductsAreNat DEF TypeOK
<1>4. CallerInv'
  BY <1>1, <1>2 DEF CallerInv, Busy
<1>5. RequestInv'
  BY <1>1, <1>2 DEF RequestInv, Ask, TypeOK, Busy
<1>6. KeyInv' /\ ConflictInv' /\ PaceInv'
  BY <1>1 DEF KeyInv, ConflictInv, Conflicts, PaceInv, BatchesArePaced, Ask
<1>7. RateInv'
  <2> DEFINE cw == Capacity * Window
             granted == cw * (restarts + 1)
             aw == admitted * Window
             c0 == Capacity * lastRefill
             c1 == Capacity * clock
  <2>1. {cw, aw, c0, c1, level, clock, lastRefill, Capacity, restarts} \subseteq Nat /\ cw \in Nat
    BY AcceptanceAssumption, ProductsAreNat DEF TypeOK
  <2>2. aw + level <= granted + c0 /\ c0 <= c1
    <3>1. lastRefill <= clock /\ aw + level <= granted + c0
      BY DEF RateInv
    <3>2. c0 <= c1
      BY <2>1, <3>1
    <3> QED BY <3>1, <3>2
  <2>3. cw * (restarts + 2) = granted + cw /\ granted \in Nat
    <3> HIDE DEF cw
    <3>1. cw * (restarts + 1) \in Nat
      BY <2>1
    <3>2. cw * (restarts + 2) = cw * (restarts + 1) + cw
      BY <2>1
    <3> QED BY <3>1, <3>2
  <2> HIDE DEF granted, aw, c0, c1, cw
  <2>4. aw + cw <= granted + cw + c1
    BY <2>1, <2>2, <2>3
  <2>5. restarts' + 1 = restarts + 2
    BY <1>1, <2>1
  <2>6. lastRefill' <= clock' /\ level' <= cw
    BY <1>1, <2>1 DEF cw
  <2>7. admitted' * Window + level' <= cw * (restarts' + 1) + Capacity * lastRefill'
    BY <1>1, <2>3, <2>4, <2>5 DEF aw, c1, cw
  <2> QED BY <2>6, <2>7 DEF RateInv, cw
<1> QED BY <1>3, <1>4, <1>5, <1>6, <1>7

LEMMA TickKeeps ==
  ASSUME AcceptanceInv, Tick
  PROVE  AcceptanceInv'
<1> USE DEF AcceptanceInv
<1>1. /\ UNCHANGED <<route, call, try, got, pc, reply, rows, start, nextFree, old, saw, now>>
      /\ UNCHANGED <<level, lastRefill, admitted, restarts>>
      /\ clock \in Nat /\ clock' = clock + 1
  BY DEF Tick, caller, table, limiter, TypeOK
<1>2. TypeOK'
  BY <1>1 DEF TypeOK
<1>3. CallerInv' /\ RequestInv'
  BY <1>1 DEF CallerInv, RequestInv, Ask
<1>4. KeyInv' /\ ConflictInv' /\ PaceInv'
  BY <1>1 DEF KeyInv, ConflictInv, Conflicts, PaceInv, BatchesArePaced, Ask
<1>5. RateInv'
  BY <1>1 DEF RateInv, TypeOK
<1> QED BY <1>2, <1>3, <1>4, <1>5

LEMMA AcceptanceInit == Init => AcceptanceInv
<1> SUFFICES ASSUME Init PROVE AcceptanceInv
  OBVIOUS
<1>1. MaxAttempts \in Nat /\ Capacity * Window \in Nat
  BY AcceptanceAssumption, ProductsAreNat
<1>2. TypeOK
  <2>1. Answer("none", None) \in [code : Refusals \union {"none", "accepted"},
                                  row : Requests \union {None, Old}]
    BY DEF Answer
  <2> QED BY <1>1, <2>1 DEF Init, TypeOK
<1>3. CallerInv
  BY DEF Init, CallerInv, Requests
<1>4. RequestInv /\ KeyInv /\ ConflictInv /\ PaceInv
  BY DEF Init, RequestInv, KeyInv, ConflictInv, PaceInv, BatchesArePaced, Answer
<1>5. RateInv
  BY <1>1, AcceptanceAssumption DEF Init, RateInv
<1> QED BY <1>2, <1>3, <1>4, <1>5 DEF AcceptanceInv

LEMMA AcceptanceStep == AcceptanceInv /\ [Next]_vars => AcceptanceInv'
<1> SUFFICES ASSUME AcceptanceInv, [Next]_vars PROVE AcceptanceInv'
  OBVIOUS
<1>1. ASSUME NEW c \in Calls, Begin(c) \/ Receive(c) \/ GiveUp(c)
      PROVE  AcceptanceInv'
  BY <1>1, CallerCases, CallerKeeps DEF AcceptanceInv
<1>2. ASSUME NEW r \in Requests, Serve(r)
      PROVE  AcceptanceInv'
  BY <1>2, ServeKeeps
<1>3. CASE UNCHANGED vars
  <2>1. /\ UNCHANGED <<route, call, try, got, pc, reply, rows, start, nextFree, old, saw, now, clock>>
        /\ UNCHANGED <<level, lastRefill, admitted, restarts>>
    BY <1>3 DEF vars, caller, table, limiter
  <2>2. TypeOK' /\ CallerInv' /\ RequestInv'
    BY <2>1 DEF AcceptanceInv, TypeOK, CallerInv, RequestInv, Ask
  <2>3. KeyInv' /\ ConflictInv' /\ PaceInv' /\ RateInv'
    BY <2>1 DEF AcceptanceInv, KeyInv, ConflictInv, Conflicts, PaceInv, BatchesArePaced, RateInv, Ask
  <2> QED BY <2>2, <2>3 DEF AcceptanceInv
<1> QED BY <1>1, <1>2, <1>3, RestartKeeps, TickKeeps DEF Next

\* The inductive invariant: what the attempts of a call, the unique index, the answers
\* given, the schedule of the account and the bucket have to do with each other.
THEOREM AcceptanceCorrect == Spec => []AcceptanceInv
BY AcceptanceInit, AcceptanceStep, PTL DEF Spec

\* A call stores one row at most, for every retry configuration, every fault and every
\* interleaving of its attempts.
THEOREM OneRow == Spec => []OneRowPerCall
<1>1. AcceptanceInv => OneRowPerCall
  <2> SUFFICES ASSUME AcceptanceInv, NEW c \in Calls
               PROVE  Cardinality({r \in rows : r[1] = c}) <= 1
    BY DEF OneRowPerCall
  <2> DEFINE R == {r \in rows : r[1] = c}
  <2>1. \A r, s \in R : r = s
    <3> SUFFICES ASSUME NEW r \in R, NEW s \in R
                 PROVE  r = s
      OBVIOUS
    <3>1. /\ r \in Requests /\ s \in Requests /\ r[1] = c /\ s[1] = c
          /\ pc[r] # "idle" /\ pc[s] # "idle" /\ Ask(r) = Ask(s)
      BY DEF AcceptanceInv, TypeOK, RequestInv, Ask
    <3>2. CASE Ask(r).key # None
      BY <3>1, <3>2 DEF AcceptanceInv, KeyInv
    <3>3. CASE Ask(r).key = None
      <4>1. call[c] # None /\ try[c] = 1
        BY <3>1, <3>3, AskType DEF AcceptanceInv, CallerInv, Ask
      <4>2. /\ r[2] \in Nat \ {0} /\ s[2] \in Nat \ {0} /\ r = <<r[1], r[2]>> /\ s = <<s[1], s[2]>>
            /\ ~ (r[2] > 1) /\ ~ (s[2] > 1)
        BY <3>1, <4>1, AskType DEF AcceptanceInv, CallerInv
      <4> QED BY <3>1, <4>2
    <3> QED BY <3>2, <3>3
  <2>2. CASE R = {}
    BY <2>2, FS_EmptySet
  <2>3. CASE R # {}
    <3>1. PICK r \in R : TRUE
      BY <2>3
    <3>2. R = {r}
      BY <2>1, <3>1
    <3> QED BY <3>2, FS_Singleton
  <2> QED BY <2>2, <2>3
<1> QED BY <1>1, AcceptanceCorrect, PTL

\* A call that was refused as a conflict has stored nothing and never will.
THEOREM ConflictIsEmpty == Spec => []ConflictLeavesNothing
<1>1. AcceptanceInv => ConflictLeavesNothing
  <2> SUFFICES ASSUME AcceptanceInv, NEW c \in Calls, got[c] = "conflict", NEW r \in rows, r[1] = c
               PROVE  FALSE
    BY DEF ConflictLeavesNothing
  <2>1. PICK t \in rows : Ask(t).key = call[c].key /\ Ask(t).body # call[c].body
    BY DEF AcceptanceInv, ConflictInv, Conflicts
  <2>2. Ask(r) = call[c] /\ Ask(r).key # None
    BY DEF AcceptanceInv, ConflictInv, Conflicts, Ask
  <2> QED BY <2>1, <2>2 DEF AcceptanceInv, KeyInv
<1> QED BY <1>1, AcceptanceCorrect, PTL

\* The batches of an account are laid out one after the other for every number of items
\* and every delay, and whatever the requests that race for the lock.
THEOREM Paced == Spec => []BatchesArePaced
<1>1. AcceptanceInv => BatchesArePaced
  BY DEF AcceptanceInv, PaceInv
<1> QED BY <1>1, AcceptanceCorrect, PTL

\* The bucket admits no more than its capacity and its rate allow, for every capacity,
\* window, number of restarts and pattern of arrivals.
THEOREM RateHolds == Spec => []WithinRate
<1>1. AcceptanceInv => WithinRate
  <2> SUFFICES ASSUME AcceptanceInv PROVE WithinRate
    OBVIOUS
  <2> DEFINE granted == Capacity * Window * (restarts + 1)
             aw == admitted * Window
             c0 == Capacity * lastRefill
             c1 == Capacity * clock
  <2>1. {aw, c0, c1, level, clock, lastRefill, Capacity, restarts} \subseteq Nat
    BY AcceptanceAssumption, ProductsAreNat DEF AcceptanceInv, TypeOK
  <2>2. granted \in Nat
    BY ProductsAreNat, <2>1
  <2>3. lastRefill <= clock /\ aw + level <= granted + c0
    BY DEF AcceptanceInv, RateInv
  <2>4. c0 <= c1
    BY <2>1, <2>3
  <2> HIDE DEF granted, aw, c0, c1
  <2>5. aw <= granted + c1
    BY <2>1, <2>2, <2>3, <2>4
  <2> QED BY <2>5 DEF WithinRate, granted, aw, c1
<1> QED BY <1>1, AcceptanceCorrect, PTL

-----------------------------------------------------------------------------
(* The refinement: requests, keys and answers as AcceptanceContract has them. *)

LEMMA EntryIs ==
  ASSUME TypeOK, KeyInv, NEW k \in Keys
  PROVE  /\ k \in old => Entry(k) = Old
         /\ \A r \in rows : Ask(r).key = k => k \notin old /\ Entry(k) = r
         /\ k \notin old /\ (\A r \in rows : Ask(r).key # k) => Entry(k) = None
<1>1. ASSUME NEW r \in rows, Ask(r).key = k
      PROVE  k \notin old /\ Entry(k) = r
  <2>1. k \notin old /\ \A s \in rows : Ask(s).key = k => r = s
    BY <1>1, AcceptanceAssumption DEF KeyInv
  <2>2. (CHOOSE s \in rows : Ask(s).key = k) = r
    BY <1>1, <2>1
  <2> QED BY <1>1, <2>1, <2>2 DEF Entry
<1> QED BY <1>1 DEF Entry

LEMMA EntryIsNext ==
  ASSUME TypeOK', KeyInv', NEW k \in Keys
  PROVE  /\ k \in old' => Entry(k)' = Old
         /\ \A r \in rows' : Ask(r)'.key = k => k \notin old' /\ Entry(k)' = r
         /\ k \notin old' /\ (\A r \in rows' : Ask(r)'.key # k) => Entry(k)' = None
<1>1. ASSUME NEW r \in rows', Ask(r)'.key = k
      PROVE  k \notin old' /\ Entry(k)' = r
  <2>1. k \notin old' /\ \A s \in rows' : Ask(s)'.key = k => r = s
    BY <1>1, AcceptanceAssumption DEF KeyInv
  <2>2. (CHOOSE s \in rows' : Ask(s)'.key = k) = r
    BY <1>1, <2>1
  <2> QED BY <1>1, <2>1, <2>2 DEF Entry
<1> QED BY <1>1 DEF Entry

\* A key no new row has been stored under keeps its entry.
LEMMA KeptEntry ==
  ASSUME AcceptanceInv, AcceptanceInv', NEW k \in Keys, rows \subseteq rows', UNCHANGED old,
         \A r \in rows : Ask(r)' = Ask(r),
         \A r \in rows' \ rows : Ask(r)'.key # k
  PROVE  Entry(k)' = Entry(k)
<1>1. CASE k \in old
  BY <1>1, EntryIs, EntryIsNext DEF AcceptanceInv
<1>2. CASE k \notin old /\ \A r \in rows : Ask(r).key # k
  BY <1>2, EntryIs, EntryIsNext DEF AcceptanceInv
<1>3. ASSUME NEW r \in rows, Ask(r).key = k
      PROVE  Entry(k)' = Entry(k)
  <2>1. Entry(k) = r
    BY <1>3, EntryIs DEF AcceptanceInv
  <2>2. r \in rows' /\ Ask(r)'.key = k
    BY <1>3
  <2>3. Entry(k)' = r
    BY <2>2, EntryIsNext DEF AcceptanceInv
  <2> QED BY <2>1, <2>3
<1> QED BY <1>1, <1>2, <1>3

LEMMA Asking ==
  ASSUME TypeOK, CallerInv, NEW r \in Requests, pc[r] # "idle"
  PROVE  /\ Asks(r) # None /\ Asks(r).key = Ask(r).key /\ Asks(r).body = Ask(r).body
         /\ Ask(r).key \in Keys \union {None}
<1>1. Ask(r) \in CallType
  BY AskType
<1>2. Asks(r) = [key |-> Ask(r).key, body |-> Ask(r).body]
  BY DEF Asks
<1>3. [key |-> Ask(r).key, body |-> Ask(r).body] \in [key : Keys \union {None}, body : Bodies]
  BY <1>1 DEF CallType
<1> QED BY <1>1, <1>2, <1>3, AcceptanceAssumption DEF CallType

Promised == Promise!Next \/ UNCHANGED <<[r \in Requests |-> Asks(r)], rows,
                                        [k \in Keys |-> Entry(k)],
                                        [r \in Requests |-> Answered(r)]>>

LEMMA RefineStore ==
  ASSUME AcceptanceInv, AcceptanceInv', NEW r \in Requests, RequestStep(r), StoresRow(r),
         \A q \in Requests : Asks(q)' = Asks(q)
  PROVE  Promise!Store(r)
<1>1. /\ pc[r] = "insert" /\ Existing(r) = {} /\ rows' = rows \union {r} /\ reply' = reply
      /\ call' = call /\ old' = old /\ rows \subseteq Requests
  BY DEF StoresRow, RequestStep, AcceptanceInv, TypeOK
<1>2. /\ Asks(r) # None /\ Asks(r).key = Ask(r).key /\ Ask(r).key \in Keys \union {None}
  BY <1>1, Asking DEF AcceptanceInv
<1>3. /\ reply[r].code = "none" /\ r \notin rows
  BY <1>1 DEF AcceptanceInv, RequestInv
<1>4. \A q \in Requests : Answered(q)' = Answered(q)
  BY <1>1 DEF Answered
<1>5. \A q : Ask(q)' = Ask(q)
  BY <1>1 DEF Ask
<1>6. CASE Ask(r).key = None
  <2>1. \A k \in Keys : Entry(k)' = Entry(k)
    BY <1>1, <1>5, <1>6, AcceptanceAssumption, KeptEntry
  <2>2. UNCHANGED [k \in Keys |-> Entry(k)]
    BY <2>1
  <2> QED BY <1>1, <1>2, <1>3, <1>4, <1>6, <2>2
          DEF Promise!Store, Promise!Open, Promise!Asked, Answered, Answer
<1>7. CASE Ask(r).key # None
  <2>0. PICK k0 \in Keys : k0 = Ask(r).key
    BY <1>2, <1>7
  <2>1. k0 \notin old /\ \A s \in rows : Ask(s).key # k0
    BY <1>1, <1>7, <2>0 DEF Existing
  <2>2. Entry(k0) = None
    BY <2>1, EntryIs DEF AcceptanceInv
  <2>3. Entry(k0)' = r
    BY <1>1, <1>5, <2>0, EntryIsNext DEF AcceptanceInv
  <2>4. ASSUME NEW k \in Keys, k # k0
        PROVE  Entry(k)' = Entry(k)
    BY <1>1, <1>5, <2>0, <2>4, KeptEntry
  <2>5. [k \in Keys |-> Entry(k)]' = [[k \in Keys |-> Entry(k)] EXCEPT ![k0] = r]
    BY <2>1, <2>3, <2>4
  <2> QED BY <1>1, <1>2, <1>3, <1>4, <1>7, <2>0, <2>1, <2>2, <2>5
          DEF Promise!Store, Promise!Open, Promise!Asked, Answered, Answer
<1> QED BY <1>6, <1>7

LEMMA RefineAnswer ==
  ASSUME AcceptanceInv, AcceptanceInv', NEW r \in Requests, RequestStep(r), Answers(r),
         \A q \in Requests : Asks(q)' = Asks(q)
  PROVE  Promise!Next
<1>1. PICK code \in Refusals \union {"accepted"}, t \in Requests \union {None, Old} :
        Justified(r, code, t) /\ Respond(r, Answer(code, t))
  BY DEF Answers
<1>2. /\ rows' = rows /\ rows \subseteq Requests /\ old' = old /\ call' = call /\ pc[r] \in Busy
      /\ reply' = [reply EXCEPT ![r] = Answer(code, t)] /\ reply[r].code = "none"
  BY <1>1 DEF Answers, RequestStep, Respond, AcceptanceInv, TypeOK, RequestInv, Busy
<1>3. /\ Asks(r) # None /\ Asks(r).key = Ask(r).key /\ Asks(r).body = Ask(r).body
      /\ Ask(r).key \in Keys \union {None}
  BY <1>2, Asking DEF AcceptanceInv, Busy
<1>4. \A k \in Keys : Entry(k)' = Entry(k)
  BY <1>2, KeptEntry DEF Ask
<1>5. UNCHANGED <<[q \in Requests |-> Asks(q)], rows, [k \in Keys |-> Entry(k)]>>
  BY <1>2, <1>4
<1>6. Promise!Open(r)
  BY <1>2, <1>3 DEF Promise!Open, Promise!Asked, Answered, Answer
<1>7. \A q \in Requests \ {r} : Answered(q)' = Answered(q)
  BY <1>2 DEF Answered, AcceptanceInv, TypeOK
<1>8. \A s \in rows : s \in Requests /\ pc[s] # "idle" /\ Asks(s).body = Ask(s).body
  BY <1>2, Asking DEF AcceptanceInv, RequestInv
<1>9. CASE code \in Refusals \ {"conflict"} /\ t = None
  <2>1. Answered(r)' = Promise!Answer("failed", None)
    BY <1>2, <1>9 DEF Answered, Answer, Promise!Answer, Refusals, AcceptanceInv, TypeOK
  <2>2. Promise!Fail(r)
    BY <1>5, <1>6, <1>7, <2>1 DEF Promise!Fail
  <2> QED BY <2>2 DEF Promise!Next
<1>10. CASE code = "conflict" /\ t = None /\ Conflicts(Ask(r).key, Ask(r).body)
  <2>1. Answered(r)' = Promise!Answer("conflict", None)
    BY <1>2, <1>10 DEF Answered, Answer, Promise!Answer, AcceptanceInv, TypeOK
  <2>2. PICK s \in rows : Ask(s).key = Ask(r).key /\ Ask(s).body # Ask(r).body /\ Ask(r).key # None
    BY <1>10 DEF Conflicts
  <2>3. Entry(Ask(r).key) = s /\ Ask(r).key \in Keys
    BY <1>3, <2>2, EntryIs DEF AcceptanceInv
  <2>4. Promise!Conflict(r)
    BY <1>3, <1>5, <1>6, <1>7, <1>8, <2>1, <2>2, <2>3 DEF Promise!Conflict
  <2> QED BY <2>4 DEF Promise!Next
<1>11. CASE code = "accepted"
  <2>1. Answered(r)' = Promise!Answer("accepted", t)
    BY <1>2, <1>11 DEF Answered, Answer, Promise!Answer, AcceptanceInv, TypeOK
  <2>2. CASE t = r /\ r \in rows
    <3>1. CASE Ask(r).key = None
      <4>1. Promise!Accept(r, r)
        BY <1>3, <1>5, <1>6, <1>7, <2>1, <2>2, <3>1 DEF Promise!Accept
      <4> QED BY <2>2, <4>1 DEF Promise!Next
    <3>2. CASE Ask(r).key # None
      <4>1. Entry(Ask(r).key) = r /\ Ask(r).key \in Keys
        BY <1>3, <2>2, <3>2, EntryIs DEF AcceptanceInv
      <4>2. Promise!Accept(r, r)
        BY <1>3, <1>5, <1>6, <1>7, <2>1, <2>2, <3>2, <4>1 DEF Promise!Accept
      <4> QED BY <2>2, <4>2 DEF Promise!Next
    <3> QED BY <3>1, <3>2
  <2>3. CASE t \in Existing(r) /\ ~IsMateriallyDifferent(t, r)
    <3>1. /\ Ask(r).key # None /\ Ask(r).key \in Keys
          /\ \/ t = Old /\ Ask(r).key \in old
             \/ t \in rows /\ Ask(t).key = Ask(r).key
      BY <1>3, <2>3 DEF Existing
    <3>2. Entry(Ask(r).key) = t
      BY <3>1, EntryIs DEF AcceptanceInv
    <3>3. t = Old \/ (t \in rows /\ Asks(t).body = Asks(r).body)
      BY <1>3, <1>8, <2>3, <3>1 DEF IsMateriallyDifferent
    <3>4. CASE t = Old
      BY <1>3, <1>5, <1>6, <1>7, <2>1, <3>1, <3>2, <3>4 DEF Promise!Accept, Promise!Next
    <3>5. CASE t \in rows /\ Asks(t).body = Asks(r).body
      <4>1. t \in Requests
        BY <1>8, <3>5
      <4>2. Promise!Accept(r, t)
        BY <1>3, <1>5, <1>6, <1>7, <2>1, <3>1, <3>2, <3>5, <4>1 DEF Promise!Accept
      <4> QED BY <3>5, <4>2 DEF Promise!Next
    <3> QED BY <3>3, <3>4, <3>5
  <2> QED BY <1>1, <1>11, <2>2, <2>3 DEF Justified, Refusals
<1> QED BY <1>1, <1>9, <1>10, <1>11 DEF Justified

LEMMA RefineServe ==
  ASSUME AcceptanceInv, AcceptanceInv', NEW r \in Requests, RequestStep(r)
  PROVE  Promised
<1>1. \A q \in Requests : Asks(q)' = Asks(q)
  <2>1. \A q \in Requests : pc'[q] = "idle" <=> pc[q] = "idle"
    BY DEF RequestStep, MovesOn, StoresRow, Answers, Respond, Stored, Busy, AcceptanceInv, TypeOK
  <2> QED BY <2>1 DEF RequestStep, Asks, Ask
<1>2. CASE MovesOn(r)
  <2>1. rows' = rows /\ reply' = reply /\ old' = old /\ call' = call
    BY <1>2 DEF MovesOn, RequestStep
  <2>2. \A k \in Keys : Entry(k)' = Entry(k)
    BY <2>1, KeptEntry DEF Ask
  <2> QED BY <1>1, <2>1, <2>2 DEF Promised, Answered
<1>3. CASE StoresRow(r)
  BY <1>1, <1>3, RefineStore DEF Promised, Promise!Next
<1>4. CASE Answers(r)
  BY <1>1, <1>4, RefineAnswer DEF Promised
<1> QED BY <1>2, <1>3, <1>4 DEF RequestStep

LEMMA RefineSend ==
  ASSUME AcceptanceInv, AcceptanceInv', NEW c \in Calls, CallerStep(c), UNCHANGED call \/ call[c] = None,
         NEW n \in 1..MaxAttempts, n = try[c] + 1, SendAttempt(c, n), call'[c] # None
  PROVE  Promise!Ask(<<c, n>>)
<1> DEFINE r == <<c, n>>
<1>0. TypeOK /\ CallerInv
  BY DEF AcceptanceInv
<1>1. r \in Requests /\ pc[r] = "idle" /\ pc'[r] # "idle"
  BY <1>0, SendKeeps
<1>2. \A q \in Requests \ {r} : pc'[q] = pc[q]
  BY <1>0 DEF SendAttempt, TypeOK
<1>3. \A q \in Requests : pc[q] # "idle" => Ask(q)' = Ask(q)
  BY CallerKeepsAsk DEF AcceptanceInv
<1>4. \A q \in Requests \ {r} : Asks(q)' = Asks(q)
  BY <1>2, <1>3 DEF Asks
<1>5. Ask(r)' \in CallType
  BY <1>1 DEF AcceptanceInv, TypeOK, Ask
<1>6. /\ Asks(r) = None
      /\ Asks(r)' = [key |-> Ask(r)'.key, body |-> Ask(r)'.body]
      /\ Ask(r)'.key \in Keys \union {None} /\ Ask(r)'.body \in Bodies
  BY <1>1, <1>5 DEF Asks, CallType
<1>7. rows' = rows /\ reply' = reply /\ old' = old
  BY DEF CallerStep, table
<1>8. \A q \in rows : Ask(q)' = Ask(q)
  BY <1>3 DEF AcceptanceInv, RequestInv, TypeOK
<1>9. \A k \in Keys : Entry(k)' = Entry(k)
  BY <1>7, <1>8, KeptEntry
<1>10. UNCHANGED <<rows, [k \in Keys |-> Entry(k)], [q \in Requests |-> Answered(q)]>>
  BY <1>7, <1>9 DEF Answered
<1> HIDE DEF r
<1>11. [q \in Requests |-> Asks(q)]'
         = [[q \in Requests |-> Asks(q)] EXCEPT ![r] = [key |-> Ask(r)'.key, body |-> Ask(r)'.body]]
  BY <1>1, <1>4, <1>6
<1>12. Promise!Ask(r)
  BY <1>1, <1>6, <1>10, <1>11 DEF Promise!Ask, Promise!Asked
<1> QED BY <1>12 DEF r

LEMMA RefineCaller ==
  ASSUME AcceptanceInv, AcceptanceInv', NEW c \in Calls, CallerStep(c)
  PROVE  Promised
<1>1. ASSUME NEW n \in 1..MaxAttempts, n = try[c] + 1, SendAttempt(c, n), call'[c] # None,
             UNCHANGED call \/ call[c] = None
      PROVE  Promised
  <2>1. Promise!Ask(<<c, n>>) /\ <<c, n>> \in Requests
    BY <1>1, RefineSend DEF Requests
  <2> QED BY <2>1 DEF Promised, Promise!Next
<1>2. CASE UNCHANGED <<call, pc>>
  <2>1. rows' = rows /\ reply' = reply /\ old' = old
    BY DEF CallerStep, table
  <2>2. \A k \in Keys : Entry(k)' = Entry(k)
    BY <1>2, <2>1, KeptEntry DEF Ask
  <2> QED BY <1>2, <2>1, <2>2 DEF Promised, Answered, Asks, Ask
<1>3. CASE call[c] = None /\ SendAttempt(c, 1)
  <2>1. 1 \in 1..MaxAttempts /\ 1 = try[c] + 1
    BY <1>3, AcceptanceAssumption DEF AcceptanceInv, CallerInv
  <2>2. call'[c] # None
    <3>1. try'[c] = 1
      BY <1>3, <2>1, SendKeeps DEF AcceptanceInv
    <3> QED BY <3>1 DEF AcceptanceInv, CallerInv
  <2> QED BY <1>1, <1>3, <2>1, <2>2
<1>4. CASE call[c] # None /\ try[c] < MaxAttempts /\ SendAttempt(c, try[c] + 1) /\ UNCHANGED call
  <2>1. try[c] + 1 \in 1..MaxAttempts
    BY <1>4, AcceptanceAssumption DEF AcceptanceInv, TypeOK
  <2> QED BY <1>1, <1>4, <2>1
<1> QED BY <1>2, <1>3, <1>4 DEF CallerStep

LEMMA RefineAside ==
  ASSUME AcceptanceInv, AcceptanceInv', UNCHANGED <<call, reply, rows, old>>,
         \A r \in Requests : pc'[r] = "idle" <=> pc[r] = "idle"
  PROVE  Promised
<1>1. \A k \in Keys : Entry(k)' = Entry(k)
  BY KeptEntry DEF Ask
<1> QED BY <1>1 DEF Promised, Answered, Asks, Ask

LEMMA RefineInit == Init => Promise!Init
<1> SUFFICES ASSUME Init PROVE Promise!Init
  OBVIOUS
<1>1. \A k \in Keys : Entry(k) \in {None, Old}
  BY DEF Init, Entry
<1> QED BY <1>1 DEF Init, Promise!Init, Asks, Answered, Answer, Promise!Answer

LEMMA RefineStep == AcceptanceInv /\ AcceptanceInv' /\ [Next]_vars => Promised
<1> SUFFICES ASSUME AcceptanceInv, AcceptanceInv', [Next]_vars PROVE Promised
  OBVIOUS
<1>1. ASSUME NEW c \in Calls, Begin(c) \/ Receive(c) \/ GiveUp(c)
      PROVE  Promised
  BY <1>1, CallerCases, RefineCaller DEF AcceptanceInv
<1>2. ASSUME NEW r \in Requests, Serve(r)
      PROVE  Promised
  BY <1>2, ServeCases, RefineServe DEF AcceptanceInv
<1>3. CASE Restart
  <2>1. UNCHANGED <<call, reply, rows, old>>
    BY <1>3 DEF Restart, caller, table
  <2>2. \A r \in Requests : pc'[r] = "idle" <=> pc[r] = "idle"
    BY <1>3 DEF Restart, Busy
  <2> QED BY <2>1, <2>2, RefineAside
<1>4. CASE Tick \/ UNCHANGED vars
  BY <1>4, RefineAside DEF Tick, vars, caller, table
<1> QED BY <1>1, <1>2, <1>3, <1>4 DEF Next

\* Every send, bulk and V1 request, with whatever retries, races and failed queries,
\* is a behaviour of the contract of idempotency keys.
THEOREM Refinement == Spec => ImplementsContract
<1>1. AcceptanceInv /\ AcceptanceInv' /\ [Next]_vars
        => [Promise!Next]_<<[r \in Requests |-> Asks(r)], rows, [k \in Keys |-> Entry(k)],
                            [r \in Requests |-> Answered(r)]>>
  BY RefineStep DEF Promised
<1> QED BY <1>1, AcceptanceCorrect, RefineInit, PTL DEF Spec, ImplementsContract, Promise!Spec

=============================================================================
