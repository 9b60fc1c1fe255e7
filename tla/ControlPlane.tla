---------------------------- MODULE ControlPlane ----------------------------
(***************************************************************************)
(* The control plane of a project: API keys, a sender, a managed template, a  *)
(* webhook endpoint's secrets, and `simplemailer sync`, which brings sender   *)
(* and template to what a manifest says.                                     *)
(*                                                                          *)
(* A request authenticates, reads and commits in separate statements at READ  *)
(* COMMITTED, so other requests commit in between. The three areas share the   *)
(* keys only, so a behaviour is about one of them.                           *)
(***************************************************************************)
EXTENDS Naturals, Sequences, FiniteSets

CONSTANTS
  Areas,      \* the areas looked at, among "keys", "catalog" and "webhooks"
  Clients,    \* programs that use the API, one request at a time
  Keys,       \* API keys, present and future
  Accounts, Values, Digests, \* SMTP accounts, sender fields, template contents
  MaxRotations, \* bound
  Faults,     \* "db": a transaction fails, its effect kept or not
  None

ASSUME ControlPlaneAssumption ==
  /\ Areas \subseteq {"keys", "catalog", "webhooks"}
  /\ Clients # {} /\ MaxRotations \in Nat
  /\ None \notin [account : Accounts, value : Values]

VARIABLES
  area,
  key,        \* of each key: "free", "active" or "revoked"
  sender,     \* the Sender row of one alias: its account and its other fields
  versions,   \* digests of the versions of one managed template
  active,     \* its activeVersionId
  current, previous, \* the endpoint's secrets, numbered as issued
  deliveries, \* secrets that test and replay deliveries carry
  actor,      \* the key a client authenticates with
  op, pc, seen, \* its request: the operation, what it awaits, what it has read
  todo,       \* operations a sync has yet to apply
  manifest,   \* what it syncs
  outcome,    \* how its last request or sync ended
  quiet,      \* history: nobody else has written since its sync began
  crossed     \* history: a row was changed between the read and the commit of a request

catalog == <<sender, versions, active>>
endpoint == <<current, previous, deliveries>>
tables == <<key, catalog, endpoint>>
sync == <<todo, manifest, quiet>>
vars == <<area, tables, actor, op, pc, seen, sync, outcome, crossed>>

Manifests == [account : Accounts \union {None}, value : Values, digest : Digests, activate : BOOLEAN]

NoOp == [kind |-> "none"]

Ops(a) ==
  CASE a = "keys" -> [kind : {"create key", "revoke key"}, key : Keys]
    [] a = "catalog" ->
         [kind : {"put sender"}, account : Accounts \union {None}, value : Values]
         \union [kind : {"put template", "activate"}, digest : Digests]
    [] OTHER -> [kind : {"rotate", "deliver"}]

Init ==
  /\ area \in Areas
  /\ actor \in [Clients -> Keys]
  /\ key = [k \in Keys |-> IF \E c \in Clients : actor[c] = k THEN "active" ELSE "free"]
  /\ sender = None /\ versions = {} /\ active = None
  /\ current = 0 /\ previous = None /\ deliveries = {}
  /\ op = [c \in Clients |-> NoOp]
  /\ pc = [c \in Clients |-> "idle"]
  /\ seen = [c \in Clients |-> None]
  /\ todo = [c \in Clients |-> <<>>]
  /\ manifest = [c \in Clients |-> None]
  /\ outcome = [c \in Clients |-> "none"]
  /\ quiet = [c \in Clients |-> FALSE]
  /\ crossed = FALSE

-----------------------------------------------------------------------------
(* Requests.                                                                 *)

Goto(c, p) == pc' = [pc EXCEPT ![c] = p]

\* The response. A sync goes on with its next operation when this one succeeded, and
\* ends with an error otherwise.
Respond(c, o) ==
  LET rest == IF todo[c] = <<>> THEN <<>> ELSE Tail(todo[c])
      goOn == o = "ok" /\ rest # <<>> IN
  /\ op' = [op EXCEPT ![c] = IF goOn THEN Head(rest) ELSE NoOp]
  /\ todo' = [todo EXCEPT ![c] = IF goOn THEN rest ELSE <<>>]
  /\ outcome' = [outcome EXCEPT ![c] = IF o = "ok" /\ todo[c] # <<>> /\ ~goOn THEN "synced" ELSE o]
  /\ seen' = [seen EXCEPT ![c] = None]
  /\ Goto(c, IF goOn THEN "auth" ELSE "idle")

\* After a commit; its answer may be lost on the way from the database.
Done(c) == Respond(c, "ok") \/ ("db" \in Faults /\ Respond(c, "failed"))

Await(c, p, s) ==
  /\ Goto(c, p)
  /\ seen' = [seen EXCEPT ![c] = s]
  /\ UNCHANGED <<op, todo, outcome>>

\* A client calls an operation, with the key it holds or one it was given since.
Request(c) ==
  /\ pc[c] = "idle"
  /\ \E o \in Ops(area) : op' = [op EXCEPT ![c] = o]
  /\ \E k \in Keys : key[k] # "free" /\ actor' = [actor EXCEPT ![c] = k]
  /\ Goto(c, "auth")
  /\ outcome' = [outcome EXCEPT ![c] = "none"]
  /\ manifest' = [manifest EXCEPT ![c] = None]
  /\ UNCHANGED <<area, tables, seen, todo, quiet, crossed>>

\* requireProjectScope.
Authenticate(c) ==
  /\ pc[c] = "auth"
  /\ \/ key[actor[c]] = "active" /\ Await(c, "read", None)
     \/ key[actor[c]] # "active" /\ Respond(c, "refused")
     \/ "db" \in Faults /\ Respond(c, "failed")
  /\ UNCHANGED <<area, tables, actor, manifest, quiet, crossed>>

\* A commit by c: syncs of other clients are no longer alone, and a row that is not
\* the one c has read is noted.
Note(c, stale) ==
  /\ quiet' = [d \in Clients |-> quiet[d] /\ d = c]
  /\ crossed' = (crossed \/ stale)

-----------------------------------------------------------------------------
(* API keys.                                                                 *)

CreateKey(c) ==
  /\ op[c].kind = "create key"
  /\ \/ /\ pc[c] = "read" /\ key[op[c].key] = "free"
        /\ key' = [key EXCEPT ![op[c].key] = "active"]
        /\ Done(c)
     \/ pc[c] = "read" /\ key[op[c].key] # "free" /\ Respond(c, "refused") /\ UNCHANGED key
  /\ UNCHANGED <<catalog, endpoint, quiet, crossed>>

\* Mutant: a key may revoke itself.
SelfRevoke_Allowed(c) == FALSE

SelfRevoke(c) == op[c].key = actor[c]

\* revokeProjectApiKey. The target is read and updated, the actor is not looked at again.
FindKey(c) ==
  LET k == op[c].key IN
  /\ pc[c] = "read" /\ op[c].kind = "revoke key"
  /\ \/ (key[k] = "free" \/ SelfRevoke(c)) /\ Respond(c, "refused")
     \/ key[k] = "revoked" /\ ~SelfRevoke(c) /\ Respond(c, "ok")
     \/ key[k] = "active" /\ ~SelfRevoke(c) /\ Await(c, "commit", None)
  /\ UNCHANGED <<tables, quiet, crossed>>

RevokeKey(c) ==
  /\ pc[c] = "commit" /\ op[c].kind = "revoke key"
  /\ key' = [key EXCEPT ![op[c].key] = "revoked"]
  /\ Done(c)
  /\ crossed' = (crossed \/ (key[actor[c]] # "active" /\ actor[c] # op[c].key))
  /\ UNCHANGED <<catalog, endpoint, quiet>>

-----------------------------------------------------------------------------
(* The sender: read and account outside the transaction, then an upsert.      *)

FindSender(c) ==
  LET account == IF op[c].account # None THEN op[c].account
                 ELSE IF sender # None THEN sender.account ELSE None IN
  /\ pc[c] = "read" /\ op[c].kind = "put sender"
  /\ \/ account = None /\ Respond(c, "refused")
     \/ account # None /\ Await(c, "commit", account)
  /\ UNCHANGED <<tables, quiet, crossed>>

PutSender(c) ==
  /\ pc[c] = "commit" /\ op[c].kind = "put sender"
  /\ sender' = [account |-> seen[c], value |-> op[c].value]
  /\ Done(c)
  /\ Note(c, FALSE)
  /\ UNCHANGED <<key, versions, active, endpoint>>

-----------------------------------------------------------------------------
(* The managed template: versions are added and never changed.               *)

FindVersion(c) ==
  LET d == op[c].digest IN
  /\ pc[c] = "read"
  /\ \/ op[c].kind = "put template" /\ d \in versions /\ Respond(c, "ok")
     \/ op[c].kind = "activate" /\ d \notin versions /\ Respond(c, "refused")
     \/ op[c].kind = "put template" /\ d \notin versions /\ Await(c, "commit", None)
     \/ op[c].kind = "activate" /\ d \in versions /\ Await(c, "commit", None)
  /\ UNCHANGED <<tables, quiet, crossed>>

\* The unique index of templateId and digest refuses the second of two upserts.
PutTemplate(c) ==
  /\ pc[c] = "commit" /\ op[c].kind = "put template"
  /\ \/ /\ op[c].digest \notin versions
        /\ versions' = versions \union {op[c].digest}
        /\ Done(c) /\ Note(c, FALSE)
     \/ op[c].digest \in versions /\ Respond(c, "failed") /\ UNCHANGED <<versions, quiet, crossed>>
  /\ UNCHANGED <<key, sender, active, endpoint>>

Activate(c) ==
  /\ pc[c] = "commit" /\ op[c].kind = "activate"
  /\ active' = op[c].digest
  /\ Done(c) /\ Note(c, FALSE)
  /\ UNCHANGED <<key, sender, versions, endpoint>>

-----------------------------------------------------------------------------
(* The secrets of an endpoint. A delivery keeps the one it was created with.   *)

FindEndpoint(c) ==
  /\ pc[c] = "read" /\ op[c].kind \in {"rotate", "deliver"}
  /\ Await(c, "commit", current)
  /\ UNCHANGED <<tables, quiet, crossed>>

\* Mutant: the secret that is replaced is not kept.
Replaced_Forgotten(c) == previous

Replaced(c) == seen[c]

\* rotateWebhookSecret.
Rotate(c) ==
  /\ pc[c] = "commit" /\ op[c].kind = "rotate" /\ current < MaxRotations
  /\ previous' = Replaced(c)
  /\ current' = current + 1
  /\ Done(c)
  /\ crossed' = (crossed \/ seen[c] # current)
  /\ UNCHANGED <<key, catalog, deliveries, quiet>>

\* testWebhookEndpoint and replayWebhookEvent.
CreateDelivery(c) ==
  /\ pc[c] = "commit" /\ op[c].kind = "deliver"
  /\ deliveries' = deliveries \union {seen[c]}
  /\ Done(c)
  /\ UNCHANGED <<key, catalog, current, previous, quiet, crossed>>

-----------------------------------------------------------------------------
(* simplemailer sync: planMailerSync and applyMailerSync of the SDK.          *)

\* diffMailerDefinition, for what the two lists have returned. A credential is no part
\* of the sender the API lists.
SenderMatches(m, s) == s # None /\ s.value = m.value

SenderOp(m) == [kind |-> "put sender", account |-> m.account, value |-> m.value]
TemplateOp(m) == [kind |-> "put template", digest |-> m.digest]
ActivateOp(m) == [kind |-> "activate", digest |-> m.digest]

\* Mutant: a version that exists is taken for deployed.
TemplateOps_NoActivation(m, V, a) ==
  IF m.digest \in V THEN <<>>
  ELSE <<TemplateOp(m)>> \o (IF m.activate THEN <<ActivateOp(m)>> ELSE <<>>)

TemplateOps(m, V, a) ==
  (IF m.digest \in V THEN <<>> ELSE <<TemplateOp(m)>>) \o
  (IF m.activate /\ a # m.digest THEN <<ActivateOp(m)>> ELSE <<>>)

Plan(m, s, V, a) ==
  (IF SenderMatches(m, s) THEN <<>> ELSE <<SenderOp(m)>>) \o TemplateOps(m, V, a)

\* The lists are requested together and answered one after the other.
BeginSync(c) ==
  /\ area = "catalog" /\ pc[c] = "idle"
  /\ \E m \in Manifests : manifest' = [manifest EXCEPT ![c] = m]
  /\ outcome' = [outcome EXCEPT ![c] = "none"]
  /\ quiet' = [quiet EXCEPT ![c] = TRUE]
  /\ Goto(c, "plan")
  /\ UNCHANGED <<area, tables, actor, op, seen, todo, crossed>>

ListSenders(c) ==
  /\ pc[c] = "plan"
  /\ Await(c, "diff", sender)
  /\ UNCHANGED <<area, tables, actor, manifest, quiet, crossed>>

Diff(c) ==
  /\ pc[c] = "diff"
  /\ LET p == Plan(manifest[c], seen[c], versions, active) IN
     \/ /\ p = <<>>
        /\ outcome' = [outcome EXCEPT ![c] = "synced"]
        /\ Goto(c, "idle")
        /\ UNCHANGED <<op, todo>>
     \/ /\ p # <<>>
        /\ todo' = [todo EXCEPT ![c] = p]
        /\ op' = [op EXCEPT ![c] = Head(p)]
        /\ Goto(c, "auth")
        /\ UNCHANGED outcome
  /\ seen' = [seen EXCEPT ![c] = None]
  /\ UNCHANGED <<area, tables, actor, manifest, quiet, crossed>>

-----------------------------------------------------------------------------
(* The routes: requireProjectScope, then one of the operations.              *)

KeyRoutes(c) == CreateKey(c) \/ FindKey(c) \/ RevokeKey(c)
SenderRoutes(c) == FindSender(c) \/ PutSender(c)
TemplateRoutes(c) == FindVersion(c) \/ PutTemplate(c) \/ Activate(c)
WebhookRoutes(c) == FindEndpoint(c) \/ Rotate(c) \/ CreateDelivery(c)

\* A query or a transaction fails: 500.
DbFails(c) ==
  /\ "db" \in Faults /\ pc[c] \in {"read", "commit"}
  /\ Respond(c, "failed")
  /\ UNCHANGED <<tables, quiet, crossed>>

Serve(c) ==
  /\ \/ KeyRoutes(c) \/ SenderRoutes(c) \/ TemplateRoutes(c) \/ WebhookRoutes(c)
     \/ DbFails(c)
  /\ UNCHANGED <<area, actor, manifest>>

Next ==
  \E c \in Clients :
    Request(c) \/ Authenticate(c) \/ Serve(c) \/ BeginSync(c) \/ ListSenders(c) \/ Diff(c)

Spec == Init /\ [][Next]_vars

-----------------------------------------------------------------------------
(* Properties.                                                               *)

\* No sequence of revocations leaves a project without a key: a key cannot revoke
\* itself, so the last one stays, unless two keys revoke each other at the same time.
KeysRemain == (\E k \in Keys : key[k] = "active") \/ crossed

Deployed(m) ==
  /\ sender # None /\ sender.value = m.value
  /\ m.digest \in versions /\ (m.activate => active = m.digest)

\* A sync that ended without an error, and beside which nobody else wrote, has deployed
\* its manifest, also when an earlier sync failed half-way: what diffMailerDefinition
\* leaves out of a plan was there already.
SyncConverges == \A c \in Clients : outcome[c] = "synced" /\ quiet[c] => Deployed(manifest[c])

\* A delivery signed with the newest secret but one is signed with a secret the endpoint
\* still knows: rotateWebhookSecret keeps what it replaces, unless two rotations crossed.
SnapshotIsKnown ==
  crossed \/ \A d \in deliveries : d + 1 >= current => d \in {current, previous}

-----------------------------------------------------------------------------
(* Why a sync converges: the inductive invariant.                            *)

SyncOps(m) == {SenderOp(m), TemplateOp(m), ActivateOp(m)}

\* An operation of its manifest that a sync has yet to apply.
Owes(c, o) == \E i \in 1..Len(todo[c]) : todo[c][i] = o

SyncTypeOK ==
  /\ DOMAIN op = Clients /\ DOMAIN seen = Clients /\ DOMAIN quiet = Clients
  /\ DOMAIN todo = Clients /\ DOMAIN manifest = Clients /\ DOMAIN outcome = Clients
  /\ pc \in [Clients -> {"idle", "auth", "read", "commit", "plan", "diff"}]
  /\ sender \in [account : Accounts, value : Values] \union {None}

\* A put of a sender has an account when it commits.
Puts(c) ==
  op[c].kind = "put sender" =>
    /\ op[c].account \in Accounts \union {None} /\ op[c].value \in Values
    /\ pc[c] = "commit" => seen[c] \in Accounts

\* The part of a manifest that is not deployed is among the operations left, as long as
\* nobody else has written.
Syncing(c) ==
  LET m == manifest[c] IN
  /\ pc[c] \in {"idle", "plan", "diff"} => todo[c] = <<>>
  /\ pc[c] # "idle" => outcome[c] # "synced"
  /\ pc[c] \in {"plan", "diff"} \/ todo[c] # <<>> => m \in Manifests
  /\ pc[c] = "diff" /\ quiet[c] => seen[c] = sender
  /\ todo[c] # <<>> => todo[c] \in Seq(SyncOps(m)) /\ op[c] = Head(todo[c])
  /\ todo[c] # <<>> /\ quiet[c] =>
       /\ SenderMatches(m, sender) \/ Owes(c, SenderOp(m))
       /\ m.digest \in versions \/ Owes(c, TemplateOp(m))
       /\ m.activate => active = m.digest \/ Owes(c, ActivateOp(m))

SyncInv == SyncTypeOK /\ (\A c \in Clients : Puts(c) /\ Syncing(c)) /\ SyncConverges

=============================================================================
