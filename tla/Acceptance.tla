----------------------------- MODULE Acceptance -----------------------------
(***************************************************************************)
(* The endpoints that accept mail: POST /api/send, POST /api/send/bulk and    *)
(* POST /v1/messages, the SDK that repeats a request, the idempotency keys,   *)
(* the rate limiter of the legacy routes and the schedule of paced batches.  *)
(*                                                                          *)
(* A request is a sequence of database calls; a caller that gives up sends    *)
(* the next attempt while the last one may still be on its way. The routes    *)
(* share no table, so a behaviour is about one of them. What becomes of an    *)
(* accepted row is MailDelivery's and BulkSend's subject.                    *)
(***************************************************************************)
EXTENDS Naturals, FiniteSets

CONSTANTS
  Calls,        \* calls made by applications
  Keys, Bodies, \* idempotency keys, request bodies up to their canonical digest
  Routes,       \* the routes looked at, among "send", "bulk" and "message"
  MaxAttempts,  \* retry.maxAttempts of the SDK, at most 5
  Items, Delay, \* accepted recipients and effectiveMinDelayMs of a batch
  Capacity, Window, \* the token bucket: capacity, and ticks to refill it
  MaxTime, MaxRestarts, \* bounds of the clock and of the API's restarts
  Faults,       \* "db": a query fails, its effect kept or not; "publish"
  None, Old     \* no value; a row stored by a version without digests

ASSUME AcceptanceAssumption ==
  /\ MaxAttempts \in 1..5 /\ Routes \subseteq {"send", "bulk", "message"}
  /\ {Items, Delay, Capacity, Window} \subseteq Nat \ {0}
  /\ {MaxTime, MaxRestarts} \subseteq Nat
  /\ None \notin Keys /\ Old \notin Calls \X (1..MaxAttempts)
  /\ None \notin [key : Keys \union {None}, body : Bodies, retry : BOOLEAN]
  /\ None \notin [key : Keys \union {None}, body : Bodies]

VARIABLES
  route,
  call,     \* what a call asks for: key or None, body, and whether it may be retried
  try,      \* the attempt a call waits for; 0 before the first
  got,      \* how a call ended
  pc,       \* of a request: what it awaits
  reply,    \* its answer: "none", "accepted" with a row, or a refusal
  rows,     \* requests that have stored their row
  old,      \* keys that name a row without a digest
  saw,      \* the transaction of a V1 request found its artifacts
  now,      \* `now` of a bulk request
  start,    \* scheduledFor of the first row of a batch
  nextFree, \* Account.bulkNextAvailableAt; 0 for null
  clock,
  level, lastRefill, \* the bucket of the route, in units of 1 / Window token
  admitted, restarts \* history: requests admitted, restarts of the API

caller == <<call, try, got>>
table == <<rows, start, nextFree, old>>
limiter == <<level, lastRefill, admitted, restarts>>
vars == <<route, caller, pc, reply, table, saw, now, clock, limiter>>

Requests == Calls \X (1..MaxAttempts)
Ask(r) == call[r[1]]
Current(c) == <<c, try[c]>>
Limited == route \in {"send", "bulk"}

Answer(code, t) == [code |-> code, row |-> t]

Busy == {"limit", "lookup", "find", "insert", "reread", "publish", "note", "created", "fail"}

Init ==
  /\ route \in Routes
  /\ call = [c \in Calls |-> None]
  /\ try = [c \in Calls |-> 0]
  /\ got = [c \in Calls |-> "none"]
  /\ pc = [r \in Requests |-> "idle"]
  /\ reply = [r \in Requests |-> Answer("none", None)]
  /\ rows = {}
  /\ old \in (IF route = "message" THEN {{}} ELSE SUBSET Keys)
  /\ saw = [r \in Requests |-> FALSE]
  /\ now = [r \in Requests |-> 0]
  /\ start = [r \in Requests |-> 0]
  /\ nextFree = 0 /\ clock = 0
  /\ level = Capacity * Window /\ lastRefill = 0
  /\ admitted = 0 /\ restarts = 0

-----------------------------------------------------------------------------
(* The caller: FetchTransport of the SDK. The legacy routes have callers that  *)
(* do not repeat by themselves, but two calls may carry one key.              *)

FirstStep == IF Limited THEN "limit" ELSE "lookup"

SendAttempt(c, n) ==
  /\ try' = [try EXCEPT ![c] = n]
  /\ pc' = [pc EXCEPT ![<<c, n>>] = FirstStep]

Begin(c) ==
  /\ call[c] = None
  /\ \E k \in Keys \union {None}, b \in Bodies, again \in {FALSE} \union {route = "message"} :
       call' = [call EXCEPT ![c] = [key |-> k, body |-> b, retry |-> again]]
  /\ SendAttempt(c, 1)
  /\ UNCHANGED <<route, got, reply, table, saw, now, clock, limiter>>

\* retryConfiguration: a POST is repeated only on request and with a key.
\* Mutant: the request of the caller is enough.
Attempts_AnyPost(c) == IF call[c].retry THEN MaxAttempts ELSE 1

Attempts(c) == IF call[c].retry /\ call[c].key # None THEN MaxAttempts ELSE 1

\* SimpleMailerError.retryable: 429, 500 and 503, and no answer at all.
Retryable(a) == a \in {"limited", "failed", "down", "unreachable"}

\* An attempt has failed or been answered with a.
Settle(c, a) ==
  /\ \/ /\ Retryable(a) /\ try[c] < Attempts(c)
        /\ SendAttempt(c, try[c] + 1)
        /\ UNCHANGED got
     \/ /\ ~(Retryable(a) /\ try[c] < Attempts(c))
        /\ got' = [got EXCEPT ![c] = a]
        /\ UNCHANGED <<try, pc>>
  /\ UNCHANGED <<route, call, reply, table, saw, now, clock, limiter>>

Waits(c) == call[c] # None /\ got[c] = "none"

Receive(c) == Waits(c) /\ pc[Current(c)] = "replied" /\ Settle(c, reply[Current(c)].code)

\* REQUEST_TIMEOUT or NETWORK_ERROR: the request itself may go on.
GiveUp(c) == Waits(c) /\ Settle(c, "unreachable")

-----------------------------------------------------------------------------
(* What the steps of a request have in common.                              *)

Goto(r, p) == pc' = [pc EXCEPT ![r] = p] /\ UNCHANGED reply

Respond(r, a) ==
  /\ pc' = [pc EXCEPT ![r] = "replied"]
  /\ reply' = [reply EXCEPT ![r] = a]

\* 202 with a row, and every other answer: 409, 404, 429, 503 and 500.
Accepted(r, t) == Respond(r, Answer("accepted", t))
Reply(r, code) == Respond(r, Answer(code, None))

\* The row the unique index has under the key of a request.
Existing(r) ==
  IF Ask(r).key = None THEN {}
  ELSE {t \in rows : Ask(t).key = Ask(r).key} \union (IF Ask(r).key \in old THEN {Old} ELSE {})

\* Mutant: the digest covers the request id too.
IsMateriallyDifferent_RequestId(t, r) == t # Old

\* isMateriallyDifferent: a row without a digest differs from nothing.
IsMateriallyDifferent(t, r) == t # Old /\ Ask(t).body # Ask(r).body

\* A row found under the key: a conflict, or the answer to the first request.
\* Mutant: the digest is not compared after a lost race.
Replay_Trusting(r, t) == Accepted(r, t)

Replay(r, t) ==
  \/ IsMateriallyDifferent(t, r) /\ Reply(r, "conflict")
  \/ ~IsMateriallyDifferent(t, r) /\ Accepted(r, t)

Unstored == UNCHANGED <<table, limiter>>
InRequest == UNCHANGED <<route, caller, clock>>

-----------------------------------------------------------------------------
(* The rate limiter, local to the process.                                   *)

Least(a, b) == IF a < b THEN a ELSE b

Refilled == Least(Capacity * Window, level + (clock - lastRefill) * Capacity)

\* consumeRateLimitToken. A token is Window units.
\* Mutant: the last fraction of a token is a token.
HasToken_Fraction == Refilled > 0

HasToken == Refilled >= Window

Limit(r) ==
  /\ pc[r] = "limit"
  /\ lastRefill' = clock
  /\ \/ HasToken /\ Goto(r, "lookup")
        /\ level' = Refilled - Window
        /\ admitted' = admitted + 1
     \/ ~HasToken /\ Reply(r, "limited") /\ level' = Refilled /\ UNCHANGED admitted
  /\ UNCHANGED <<restarts, table, saw, now>>

-----------------------------------------------------------------------------
(* The steps of a request.                                                   *)

\* findUnique by key, where there is a key. A bulk request reads the clock next,
\* before it waits for the lock of the account.
Lookup(r) ==
  /\ pc[r] = "lookup"
  /\ \/ \E t \in Existing(r) : Replay(r, t) /\ UNCHANGED now
     \/ /\ Existing(r) = {}
        /\ Goto(r, IF route = "bulk" THEN "insert" ELSE "find")
        /\ now' = [now EXCEPT ![r] = IF route = "bulk" THEN clock ELSE 0]
     \/ /\ "db" \in Faults /\ Ask(r).key # None
        /\ Reply(r, "failed") /\ UNCHANGED now
  /\ Unstored /\ UNCHANGED saw

\* The account and the template of a send (a batch without a valid recipient, account or
\* template is refused before it stores anything), the active sender of a message and its
\* artifacts, which an earlier message with this content has stored.
Find(r) ==
  /\ pc[r] = "find"
  /\ \/ Goto(r, "insert") /\ saw' = [saw EXCEPT ![r] = \E t \in rows : Ask(t).body = Ask(r).body]
     \/ Reply(r, "missing") /\ UNCHANGED saw
     \/ "db" \in Faults /\ Reply(r, "failed") /\ UNCHANGED saw
  /\ Unstored /\ UNCHANGED now

\* A unique violation is possible when the transaction commits: of the key, or of an
\* artifact another message has stored since, where the upsert is a read and an insert.
Violates(r) ==
  \/ Existing(r) # {}
  \/ route = "message" /\ ~saw[r] /\ \E t \in rows : Ask(t).body = Ask(r).body

\* computeInitialScheduleStart, under the lock of the account.
StartAt(r) == IF nextFree > now[r] THEN nextFree ELSE now[r]

\* Mutant: the account is free when the last item is due.
NextAvailable_LastItem(s) == s + (Items - 1) * Delay

NextAvailable(s) == s + Items * Delay

\* The row, or the batch with its rows and the schedule of the account.
Commit(r) ==
  /\ rows' = rows \union {r}
  /\ \/ /\ route = "bulk"
        /\ start' = [start EXCEPT ![r] = StartAt(r)]
        /\ nextFree' = NextAvailable(StartAt(r))
     \/ route # "bulk" /\ UNCHANGED <<start, nextFree>>
  /\ UNCHANGED old

Insert(r) ==
  /\ pc[r] = "insert"
  /\ \/ /\ Existing(r) = {}
        /\ Commit(r)
        /\ Goto(r, IF route = "bulk" THEN "created" ELSE "publish")
     \/ /\ Violates(r)
        /\ \/ Ask(r).key # None /\ Goto(r, "reread")
           \/ Ask(r).key = None /\ Reply(r, "failed")
        /\ UNCHANGED table
     \/ route = "bulk" /\ Reply(r, "missing") /\ UNCHANGED table
     \/ "db" \in Faults /\ Reply(r, "failed") /\ UNCHANGED table
     \/ "db" \in Faults /\ Existing(r) = {} /\ Commit(r) /\ Goto(r, "fail")
  /\ saw' = [saw EXCEPT ![r] = FALSE]
  /\ UNCHANGED <<now, limiter>>

\* After P2002. The V1 route takes every violation for one of the key and throws when
\* no row is found; the others answer 500.
Reread(r) ==
  /\ pc[r] = "reread"
  /\ \/ \E t \in Existing(r) : Replay(r, t)
     \/ (Existing(r) = {} \/ "db" \in Faults) /\ Reply(r, "failed")
  /\ Unstored /\ UNCHANGED <<saw, now>>

\* publishLogRecords and publishMessageRecord: the confirm and the QUEUED mark, either
\* of which may fail. A send then reads its row once more.
Publish(r) ==
  /\ pc[r] = "publish"
  /\ \/ route = "send" /\ Goto(r, "created")
     \/ route = "message" /\ Accepted(r, r)
     \/ "publish" \in Faults /\ Goto(r, "note")
  /\ Unstored /\ UNCHANGED <<saw, now>>

\* The note of a failed publish; where it fails too, a message ends in 500.
Note(r) ==
  /\ pc[r] = "note"
  /\ Reply(r, "down") \/ ("db" \in Faults /\ route = "message" /\ Reply(r, "failed"))
  /\ Unstored /\ UNCHANGED <<saw, now>>

Created(r) ==
  /\ pc[r] = "created"
  /\ Accepted(r, r) \/ ("db" \in Faults /\ route = "send" /\ Reply(r, "down"))
  /\ Unstored /\ UNCHANGED <<saw, now>>

\* A commit whose answer was lost.
Fail(r) ==
  /\ pc[r] = "fail"
  /\ Reply(r, "failed")
  /\ Unstored /\ UNCHANGED <<saw, now>>

Serve(r) ==
  /\ \/ Limit(r) \/ Lookup(r) \/ Find(r) \/ Insert(r) \/ Reread(r)
     \/ Publish(r) \/ Note(r) \/ Created(r) \/ Fail(r)
  /\ InRequest

-----------------------------------------------------------------------------
(* The rest of the system.                                                   *)

\* The API process dies with its requests, and its buckets are full again.
Restart ==
  /\ restarts < MaxRestarts
  /\ restarts' = restarts + 1
  /\ pc' = [r \in Requests |-> IF pc[r] \in Busy THEN "dead" ELSE pc[r]]
  /\ level' = Capacity * Window /\ lastRefill' = clock
  /\ UNCHANGED <<route, caller, reply, table, saw, now, clock, admitted>>

Tick ==
  /\ Limited /\ clock < MaxTime
  /\ clock' = clock + 1
  /\ UNCHANGED <<route, caller, pc, reply, table, saw, now, limiter>>

Next ==
  \/ \E c \in Calls : Begin(c) \/ Receive(c) \/ GiveUp(c)
  \/ \E r \in Requests : Serve(r)
  \/ Restart \/ Tick

Spec == Init /\ [][Next]_vars

-----------------------------------------------------------------------------
(* Properties.                                                               *)

\* However often the SDK repeats a call, and whichever of its attempts are still on
\* their way, the call stores one row at most: retryConfiguration repeats keyed
\* requests only, and the unique index refuses the second.
OneRowPerCall == \A c \in Calls : Cardinality({r \in rows : r[1] = c}) <= 1

\* A call that was told IDEMPOTENCY_CONFLICT has stored nothing, and no attempt of it
\* that is still on its way will: not even when it lost the race to its own attempt.
ConflictLeavesNothing ==
  \A c \in Calls : got[c] = "conflict" => \A r \in rows : r[1] # c

\* The batches of an account never share a span of its schedule and never start before
\* their request read the clock, whoever waited for whose lock.
BatchesArePaced ==
  route = "bulk" =>
    \A r, s \in rows :
      /\ start[r] >= now[r]
      /\ r # s => start[r] + Items * Delay <= start[s] \/ start[s] + Items * Delay <= start[r]

\* A process admits a burst of Capacity and then Capacity requests per Window; its
\* restart grants a new burst.
WithinRate == admitted * Window <= Capacity * Window * (restarts + 1) + Capacity * clock

\* The row the unique index has under k.
Entry(k) ==
  IF k \in old THEN Old
  ELSE IF \E r \in rows : Ask(r).key = k THEN CHOOSE r \in rows : Ask(r).key = k ELSE None

\* What a request asks for, and its answer, as its caller sees them.
Asks(r) == IF pc[r] = "idle" THEN None ELSE [key |-> Ask(r).key, body |-> Ask(r).body]

Answered(r) ==
  IF reply[r].code \in {"missing", "limited", "down"} THEN Answer("failed", None) ELSE reply[r]

Promise == INSTANCE AcceptanceContract WITH
  ask <- [r \in Requests |-> Asks(r)],
  rows <- rows,
  entry <- [k \in Keys |-> Entry(k)],
  reply <- [r \in Requests |-> Answered(r)]

\* The three routes implement the contract of keys, whatever fails, races or is repeated.
ImplementsContract == Promise!Spec

-----------------------------------------------------------------------------
(* Why the properties hold: the parts of the inductive invariant.            *)

CallType == [key : Keys \union {None}, body : Bodies, retry : BOOLEAN]
Refusals == {"conflict", "limited", "failed", "missing", "down"}

TypeOK ==
  /\ route \in Routes
  /\ call \in [Calls -> CallType \union {None}]
  /\ try \in [Calls -> 0..MaxAttempts]
  /\ got \in [Calls -> Refusals \union {"none", "accepted", "unreachable"}]
  /\ pc \in [Requests -> Busy \union {"idle", "replied", "dead"}]
  /\ reply \in [Requests -> [code : Refusals \union {"none", "accepted"},
                             row : Requests \union {None, Old}]]
  /\ rows \subseteq Requests /\ old \subseteq Keys
  /\ saw \in [Requests -> BOOLEAN]
  /\ now \in [Requests -> Nat] /\ start \in [Requests -> Nat]
  /\ {nextFree, clock, level, lastRefill, admitted, restarts} \subseteq Nat

\* The attempts of a call are sent one after the other, and only a call that may be
\* repeated has a second one.
CallerInv ==
  /\ \A c \in Calls : call[c] = None <=> try[c] = 0
  /\ \A c \in Calls : call[c] # None => try[c] = 1 \/ (call[c].retry /\ call[c].key # None)
  /\ \A r \in Requests : pc[r] = "idle" <=> r[2] > try[r[1]]

\* A request stores its row once, and answers once.
RequestInv ==
  /\ \A r \in rows : pc[r] \in {"publish", "note", "created", "fail", "replied", "dead"}
  /\ \A r \in Requests : pc[r] \in {"publish", "note", "created", "fail"} => r \in rows
  /\ \A r \in Requests : pc[r] = "reread" => Ask(r).key # None
  /\ \A r \in Requests : pc[r] = "replied" <=> reply[r].code # "none"

\* The unique index: a key names one row.
KeyInv ==
  \A r \in rows : Ask(r).key # None =>
    /\ Ask(r).key \notin old
    /\ \A s \in rows : Ask(s).key = Ask(r).key => r = s

\* A conflict rests on a row under the key that the request did not ask for.
Conflicts(k, b) == k # None /\ \E t \in rows : Ask(t).key = k /\ Ask(t).body # b

ConflictInv ==
  /\ \A r \in Requests : reply[r].code = "conflict" => Conflicts(Ask(r).key, Ask(r).body)
  /\ \A c \in Calls : got[c] = "conflict" => call[c] # None /\ Conflicts(call[c].key, call[c].body)

\* The schedule of the account ends after the last batch.
PaceInv == BatchesArePaced /\ (route = "bulk" =>
                                \A r \in rows : start[r] + Items * Delay <= nextFree)

\* What was admitted and what is left have been granted since the process started.
RateInv ==
  /\ lastRefill <= clock /\ level <= Capacity * Window
  /\ admitted * Window + level <= Capacity * Window * (restarts + 1) + Capacity * lastRefill

AcceptanceInv ==
  TypeOK /\ CallerInv /\ RequestInv /\ KeyInv /\ ConflictInv /\ PaceInv /\ RateInv

=============================================================================
