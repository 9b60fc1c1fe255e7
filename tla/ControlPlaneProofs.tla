------------------------- MODULE ControlPlaneProofs -------------------------
(* Keys and webhook secrets, for any number of clients, keys and rotations.  *)
EXTENDS ControlPlane, TLAPS

Shape ==
  /\ DOMAIN op = Clients /\ DOMAIN pc = Clients /\ DOMAIN seen = Clients
  /\ key \in [Keys -> {"free", "active", "revoked"}]
  /\ actor \in [Clients -> Keys]
  /\ current \in Nat

\* A revocation that is about to commit is not aimed at the key it was asked with.
Aimed(c) == pc[c] = "commit" /\ op[c].kind = "revoke key" => op[c].key # actor[c]

\* A rotation or a delivery that is about to commit has read a secret of the endpoint.
Read(c) == pc[c] = "commit" /\ op[c].kind \in {"rotate", "deliver"} => seen[c] \in 0..current

Held == (\E k \in Keys : key[k] = "active") \/ crossed
Follows == crossed \/ current = 0 \/ previous = current - 1

Inv ==
  /\ Shape /\ Held /\ Follows
  /\ deliveries \subseteq 0..current
  /\ \A c \in Clients : Aimed(c) /\ Read(c)

LEMMA Initially == Init => Inv
<1> SUFFICES ASSUME Init PROVE Inv
  OBVIOUS
<1>1. PICK c \in Clients : actor[c] \in Keys
  BY ControlPlaneAssumption DEF Init
<1>2. Held
  BY <1>1 DEF Init, Held
<1>3. Shape
  BY DEF Init, Shape
<1>4. Follows /\ deliveries \subseteq 0..current
  BY DEF Init, Follows
<1>5. \A d \in Clients : Aimed(d) /\ Read(d)
  BY DEF Init, Aimed, Read
<1> QED BY <1>2, <1>3, <1>4, <1>5 DEF Inv

-----------------------------------------------------------------------------
(* What a step leaves of the requests: those of other clients, and c's own    *)
(* unless it is about to commit.                                             *)

Beside(c) ==
  /\ DOMAIN op' = Clients /\ DOMAIN pc' = Clients /\ DOMAIN seen' = Clients
  /\ \A d \in Clients \ {c} : op'[d] = op[d] /\ pc'[d] = pc[d] /\ seen'[d] = seen[d]

LEMMA Responds ==
  ASSUME Shape, NEW c \in Clients, NEW o, Respond(c, o)
  PROVE  Beside(c) /\ pc'[c] # "commit"
BY DEF Shape, Respond, Beside, Goto

LEMMA Awaits ==
  ASSUME Shape, NEW c \in Clients, NEW p, NEW s, Await(c, p, s)
  PROVE  Beside(c) /\ op' = op /\ pc'[c] = p /\ seen'[c] = s
BY DEF Shape, Await, Beside, Goto

LEMMA DoneResponds ==
  ASSUME Shape, NEW c \in Clients, Done(c)
  PROVE  Beside(c) /\ pc'[c] # "commit"
BY Responds DEF Done

\* A step of c that keeps keys and secrets as they are.
LEMMA OthersKept ==
  ASSUME Inv, NEW c \in Clients, Beside(c), UNCHANGED <<actor, current>>, Aimed(c)', Read(c)'
  PROVE  \A d \in Clients : (Aimed(d) /\ Read(d))'
BY DEF Inv, Beside, Aimed, Read

LEMMA TablesKept ==
  ASSUME Inv, NEW c \in Clients, Beside(c), UNCHANGED <<key, endpoint, actor>>,
         crossed => crossed', Aimed(c)', Read(c)'
  PROVE  Inv'
<1>1. \A d \in Clients : (Aimed(d) /\ Read(d))'
  BY OthersKept DEF endpoint
<1>2. Held'
  BY DEF Inv, Held
<1>3. Follows' /\ (deliveries \subseteq 0..current)'
  BY DEF Inv, Follows, endpoint
<1>4. Shape'
  BY DEF Inv, Shape, Beside, endpoint
<1> QED BY <1>1, <1>2, <1>3, <1>4 DEF Inv

LEMMA Quits ==
  ASSUME Inv, NEW c \in Clients, Beside(c), pc'[c] # "commit",
         UNCHANGED <<key, endpoint, actor>>, crossed => crossed'
  PROVE  Inv'
<1>1. Aimed(c)' /\ Read(c)'
  BY DEF Aimed, Read
<1> QED BY <1>1, TablesKept

-----------------------------------------------------------------------------
(* One lemma per group of handlers.                                          *)

LEMMA KeysKeep ==
  ASSUME Inv, NEW c \in Clients, CreateKey(c) \/ FindKey(c) \/ RevokeKey(c), UNCHANGED actor
  PROVE  Inv'
<1>0. Shape
  BY DEF Inv
<1>1. CASE CreateKey(c)
  <2>1. Beside(c) /\ pc'[c] # "commit"
    BY <1>0, <1>1, DoneResponds, Responds DEF CreateKey
  <2>2. Aimed(c)' /\ Read(c)'
    BY <2>1 DEF Aimed, Read
  <2>3. UNCHANGED <<endpoint, crossed>>
    BY <1>1 DEF CreateKey
  <2>4. Shape'
    BY <1>1, <2>1, <2>3 DEF CreateKey, Inv, Shape, Beside, endpoint
  <2>5. Held'
    <3>1. CASE key' = key
      BY <3>1, <2>3 DEF Inv, Held
    <3>2. CASE key' = [key EXCEPT ![op[c].key] = "active"]
      BY <3>2, <2>3 DEF Inv, Held, Shape
    <3> QED BY <1>1, <3>1, <3>2 DEF CreateKey
  <2>6. \A d \in Clients : (Aimed(d) /\ Read(d))'
    BY <2>1, <2>2, <2>3, OthersKept DEF endpoint
  <2> QED BY <2>3, <2>4, <2>5, <2>6 DEF Inv, Follows, endpoint
<1>2. CASE FindKey(c)
  <2>1. UNCHANGED <<key, endpoint, crossed>>
    BY <1>2 DEF FindKey, tables
  <2>2. CASE \E o : Respond(c, o)
    BY <1>0, <2>1, <2>2, Responds, Quits
  <2>3. CASE ~SelfRevoke(c) /\ Await(c, "commit", None)
    <3>1. Beside(c) /\ op' = op /\ pc'[c] = "commit"
      BY <1>0, <2>3, Awaits
    <3>2. Aimed(c)' /\ Read(c)'
      BY <1>2, <2>3, <3>1 DEF Aimed, Read, SelfRevoke, FindKey
    <3> QED BY <2>1, <3>1, <3>2, TablesKept
  <2> QED BY <1>2, <2>2, <2>3 DEF FindKey
<1>3. CASE RevokeKey(c)
  <2>1. Beside(c) /\ pc'[c] # "commit"
    BY <1>0, <1>3, DoneResponds DEF RevokeKey
  <2>2. Aimed(c)' /\ Read(c)'
    BY <2>1 DEF Aimed, Read
  <2>3. UNCHANGED endpoint /\ op[c].key # actor[c]
    BY <1>3 DEF RevokeKey, Inv, Aimed
  <2>4. Shape'
    BY <1>3, <2>1, <2>3 DEF RevokeKey, Inv, Shape, Beside, endpoint
  <2>5. crossed => crossed'
    BY <1>3 DEF RevokeKey
  <2>6. Held'
    <3>1. CASE key[actor[c]] = "active"
      BY <1>3, <2>3, <3>1 DEF RevokeKey, Inv, Shape, Held
    <3>2. CASE key[actor[c]] # "active"
      BY <1>3, <2>3, <3>2 DEF RevokeKey, Held
    <3> QED BY <3>1, <3>2
  <2>7. \A d \in Clients : (Aimed(d) /\ Read(d))'
    BY <2>1, <2>2, <2>3, OthersKept DEF endpoint
  <2> QED BY <2>3, <2>4, <2>5, <2>6, <2>7 DEF Inv, Follows, endpoint
<1> QED BY <1>1, <1>2, <1>3

LEMMA CatalogKeeps ==
  ASSUME Inv, NEW c \in Clients, UNCHANGED actor,
         FindSender(c) \/ PutSender(c) \/ FindVersion(c) \/ PutTemplate(c) \/ Activate(c)
  PROVE  Inv'
<1>0. Shape
  BY DEF Inv
<1>1. UNCHANGED <<key, endpoint>> /\ (crossed => crossed')
  <2>1. CASE FindSender(c) \/ FindVersion(c)
    <3>1. UNCHANGED <<tables, crossed>>
      BY <2>1, Zenon DEF FindSender, FindVersion
    <3> QED BY <3>1, Zenon DEF tables
  <2>2. CASE PutSender(c) \/ Activate(c)
    BY <2>2 DEF PutSender, Activate, Note
  <2>3. CASE PutTemplate(c)
    <3>1. UNCHANGED <<key, endpoint>>
      BY <2>3 DEF PutTemplate
    <3>2. crossed' = crossed \/ crossed' = (crossed \/ FALSE)
      BY <2>3, Zenon DEF PutTemplate, Note
    <3>3. crossed => crossed'
      BY <3>2, Zenon
    <3> QED BY <3>1, <3>3
  <2> QED BY <2>1, <2>2, <2>3
<1>2. CASE (\E o : Respond(c, o)) \/ Done(c)
  BY <1>0, <1>1, <1>2, Responds, DoneResponds, Quits
<1>3. CASE /\ op[c].kind \in {"put sender", "put template", "activate"}
           /\ \E s : Await(c, "commit", s)
  <2>1. Beside(c) /\ op' = op
    BY <1>0, <1>3, Awaits
  <2>2. Aimed(c)' /\ Read(c)'
    BY <1>3, <2>1 DEF Aimed, Read
  <2> QED BY <1>1, <2>1, <2>2, TablesKept
<1> QED BY <1>2, <1>3 DEF FindSender, PutSender, FindVersion, PutTemplate, Activate

LEMMA EndpointKeeps ==
  ASSUME Inv, NEW c \in Clients, UNCHANGED actor,
         FindEndpoint(c) \/ Rotate(c) \/ CreateDelivery(c)
  PROVE  Inv'
<1>0. Shape
  BY DEF Inv
<1>1. CASE FindEndpoint(c)
  <2>1. Beside(c) /\ op' = op /\ pc'[c] = "commit" /\ seen'[c] = current
    BY <1>0, <1>1, Awaits DEF FindEndpoint
  <2>2. UNCHANGED <<key, endpoint, crossed>>
    BY <1>1 DEF FindEndpoint, tables
  <2>3. current' = current /\ current \in Nat /\ op[c].kind \in {"rotate", "deliver"}
    BY <1>0, <1>1, <2>2 DEF FindEndpoint, endpoint, Shape
  <2>4. seen'[c] \in 0..current'
    BY <2>1, <2>3
  <2>5. Aimed(c)' /\ Read(c)'
    BY <2>1, <2>3, <2>4 DEF Aimed, Read
  <2> QED BY <2>1, <2>2, <2>5, TablesKept
<1>2. CASE Rotate(c)
  <2>1. Beside(c) /\ pc'[c] # "commit"
    BY <1>0, <1>2, DoneResponds DEF Rotate
  <2>2. UNCHANGED <<key, deliveries>> /\ (crossed => crossed')
    BY <1>2 DEF Rotate
  <2>3. current \in Nat /\ current' = current + 1 /\ previous' = seen[c]
    BY <1>0, <1>2 DEF Rotate, Replaced, Shape
  <2>4. seen[c] # current => crossed'
    BY <1>2 DEF Rotate
  <2>5. Follows'
    <3>1. CASE seen[c] = current
      BY <2>3, <3>1 DEF Follows
    <3>2. CASE seen[c] # current
      BY <2>4, <3>2 DEF Follows
    <3> QED BY <3>1, <3>2
  <2>6. Held'
    BY <2>2 DEF Inv, Held
  <2>7. (deliveries \subseteq 0..current)'
    BY <2>2, <2>3 DEF Inv
  <2>8. ASSUME NEW d \in Clients PROVE (Aimed(d) /\ Read(d))'
    <3>1. CASE d = c
      BY <2>1, <3>1 DEF Aimed, Read
    <3>2. CASE d # c
      <4>1. Aimed(d)'
        BY <2>1, <3>2 DEF Inv, Beside, Aimed
      <4>2. ASSUME Read(d), seen'[d] = seen[d] PROVE seen[d] \in 0..current => seen'[d] \in 0..current'
        BY <2>3, <4>2
      <4>3. Read(d)'
        BY <2>1, <3>2, <4>2 DEF Inv, Beside, Read
      <4> QED BY <4>1, <4>3
    <3> QED BY <3>1, <3>2
  <2>9. Shape'
    BY <1>0, <2>1, <2>2, <2>3 DEF Shape, Beside
  <2> QED BY <2>5, <2>6, <2>7, <2>8, <2>9 DEF Inv
<1>3. CASE CreateDelivery(c)
  <2>1. Beside(c) /\ pc'[c] # "commit"
    BY <1>0, <1>3, DoneResponds DEF CreateDelivery
  <2>2. UNCHANGED <<key, current, previous, crossed>>
    BY <1>3 DEF CreateDelivery
  <2>3. (deliveries \subseteq 0..current)'
    BY <1>3 DEF CreateDelivery, Inv, Read
  <2>4. Aimed(c)' /\ Read(c)'
    BY <2>1 DEF Aimed, Read
  <2>5. \A d \in Clients : (Aimed(d) /\ Read(d))'
    BY <2>1, <2>2, <2>4, OthersKept
  <2>6. Shape'
    BY <1>0, <2>1, <2>2 DEF Shape, Beside
  <2> QED BY <2>2, <2>3, <2>5, <2>6 DEF Inv, Held, Follows
<1> QED BY <1>1, <1>2, <1>3

\* The client's side, authentication, the sync and failures of the database.
LEMMA RequestsKeep ==
  ASSUME Inv, NEW c \in Clients,
         \/ Request(c) \/ Authenticate(c) \/ BeginSync(c) \/ ListSenders(c) \/ Diff(c)
         \/ DbFails(c) /\ UNCHANGED actor
  PROVE  Inv'
<1>0. Shape
  BY DEF Inv
<1>1. UNCHANGED <<key, endpoint, crossed>>
  BY DEF Request, Authenticate, BeginSync, ListSenders, Diff, DbFails, tables
<1>2. CASE Request(c)
  <2>1. Beside(c) /\ pc'[c] # "commit"
    BY <1>0, <1>2 DEF Request, Shape, Beside, Goto
  <2>2. actor' \in [Clients -> Keys] /\ \A d \in Clients \ {c} : actor'[d] = actor[d]
    BY <1>0, <1>2 DEF Request, Shape
  <2>3. \A d \in Clients : (Aimed(d) /\ Read(d))'
    BY <1>1, <2>1, <2>2 DEF Inv, Beside, Aimed, Read, endpoint
  <2>4. Shape'
    BY <1>0, <1>1, <2>1, <2>2 DEF Shape, Beside, endpoint
  <2> QED BY <1>1, <2>3, <2>4 DEF Inv, Held, Follows, endpoint
<1>3. CASE ~Request(c)
  <2>1. UNCHANGED actor
    BY <1>3 DEF Authenticate, BeginSync, ListSenders, Diff
  <2>2. Beside(c) /\ pc'[c] # "commit"
    <3>1. CASE \E o : Respond(c, o)
      BY <1>0, <3>1, Responds
    <3>2. CASE \E p, s : p # "commit" /\ Await(c, p, s)
      BY <1>0, <3>2, Awaits
    <3>3. CASE BeginSync(c) \/ Diff(c)
      BY <1>0, <3>3 DEF BeginSync, Diff, Shape, Beside, Goto
    <3> QED BY <1>3, <3>1, <3>2, <3>3 DEF Authenticate, ListSenders, DbFails
  <2> QED BY <1>1, <2>1, <2>2, Quits
<1> QED BY <1>2, <1>3

-----------------------------------------------------------------------------
THEOREM ControlPlaneCorrect == Spec => []Inv
<1>1. Inv /\ [Next]_vars => Inv'
  <2> SUFFICES ASSUME Inv, [Next]_vars PROVE Inv'
    OBVIOUS
  <2>1. ASSUME NEW c \in Clients, Serve(c) PROVE Inv'
    BY <2>1, KeysKeep, CatalogKeeps, EndpointKeeps, RequestsKeep 
       DEF Serve, KeyRoutes, SenderRoutes, TemplateRoutes, WebhookRoutes
  <2>2. ASSUME NEW c \in Clients,
               Request(c) \/ Authenticate(c) \/ BeginSync(c) \/ ListSenders(c) \/ Diff(c)
        PROVE  Inv'
    BY <2>2, RequestsKeep
  <2>3. CASE UNCHANGED vars
    BY <2>3 DEF vars, tables, endpoint, Inv, Shape, Held, Follows, Aimed, Read
  <2> QED BY <2>1, <2>2, <2>3 DEF Next
<1> QED BY Initially, <1>1, PTL DEF Spec

\* The last active key of a project is never revoked, however many clients revoke keys at
\* the same time, unless the key of one of them was revoked under it.
THEOREM KeysStay == Spec => []KeysRemain
<1>1. Inv => KeysRemain
  BY DEF Inv, Held, KeysRemain
<1> QED BY ControlPlaneCorrect, <1>1, PTL

\* After any number of rotations that did not cross, what was signed with the newest
\* secret or the one before can be verified.
THEOREM SecretsKnown == Spec => []SnapshotIsKnown
<1>1. Inv => SnapshotIsKnown
  <2> SUFFICES ASSUME Inv, ~crossed, NEW d \in deliveries, d + 1 >= current
               PROVE  d \in {current, previous}
    BY DEF SnapshotIsKnown
  <2>1. d \in 0..current /\ current \in Nat
    BY DEF Inv, Shape
  <2>2. current = 0 \/ previous = current - 1
    BY DEF Inv, Follows
  <2> QED BY <2>1, <2>2
<1> QED BY ControlPlaneCorrect, <1>1, PTL

-----------------------------------------------------------------------------
(* The sync.                                                                 *)

Ended(c) == outcome[c] = "synced" /\ quiet[c] => Deployed(manifest[c])
Good(c) == Puts(c) /\ Syncing(c) /\ Ended(c)

LEMMA GoodIsInv == SyncInv <=> SyncTypeOK /\ \A c \in Clients : Good(c)
BY DEF SyncInv, SyncConverges, Good, Ended

Has(s, x) == \E i \in 1..Len(s) : s[i] = x

LEMMA HasConcat ==
  ASSUME NEW X, NEW s \in Seq(X), NEW t \in Seq(X)
  PROVE  s \o t \in Seq(X) /\ \A x : Has(s, x) \/ Has(t, x) => Has(s \o t, x)
<1>1. s \o t \in Seq(X) /\ Len(s \o t) = Len(s) + Len(t) /\ Len(s) \in Nat /\ Len(t) \in Nat
  OBVIOUS
<1>2. ASSUME NEW i \in 1..Len(s)
      PROVE  i \in 1..Len(s \o t) /\ (s \o t)[i] = s[i]
  BY <1>1
<1>3. ASSUME NEW i \in 1..Len(t)
      PROVE  Len(s) + i \in 1..Len(s \o t) /\ (s \o t)[Len(s) + i] = t[i]
  BY <1>1
<1> QED BY <1>1, <1>2, <1>3 DEF Has

\* A plan holds every operation that its manifest still needs, and no other.
LEMMA PlanOps ==
  ASSUME NEW m, NEW s, NEW V, NEW a
  PROVE  /\ Plan(m, s, V, a) \in Seq(SyncOps(m))
         /\ SenderMatches(m, s) \/ Has(Plan(m, s, V, a), SenderOp(m))
         /\ m.digest \in V \/ Has(Plan(m, s, V, a), TemplateOp(m))
         /\ m.activate => a = m.digest \/ Has(Plan(m, s, V, a), ActivateOp(m))
<1> DEFINE x == IF SenderMatches(m, s) THEN <<>> ELSE <<SenderOp(m)>>
           y == IF m.digest \in V THEN <<>> ELSE <<TemplateOp(m)>>
           z == IF m.activate /\ a # m.digest THEN <<ActivateOp(m)>> ELSE <<>>
<1>0. \A o \in SyncOps(m) : <<o>> \in Seq(SyncOps(m)) /\ Has(<<o>>, o)
  BY DEF Has
<1>1. /\ <<>> \in Seq(SyncOps(m))
      /\ <<SenderOp(m)>> \in Seq(SyncOps(m)) /\ Has(<<SenderOp(m)>>, SenderOp(m))
      /\ <<TemplateOp(m)>> \in Seq(SyncOps(m)) /\ Has(<<TemplateOp(m)>>, TemplateOp(m))
      /\ <<ActivateOp(m)>> \in Seq(SyncOps(m)) /\ Has(<<ActivateOp(m)>>, ActivateOp(m))
  <2>1. SenderOp(m) \in SyncOps(m) /\ TemplateOp(m) \in SyncOps(m) /\ ActivateOp(m) \in SyncOps(m)
    BY DEF SyncOps
  <2> QED BY <1>0, <2>1
<1>2. x \in Seq(SyncOps(m)) /\ (SenderMatches(m, s) \/ Has(x, SenderOp(m)))
  BY <1>1
<1>3. y \in Seq(SyncOps(m)) /\ (m.digest \in V \/ Has(y, TemplateOp(m)))
  BY <1>1
<1>4. z \in Seq(SyncOps(m)) /\ (m.activate => a = m.digest \/ Has(z, ActivateOp(m)))
  BY <1>1
<1>5. Plan(m, s, V, a) = x \o (y \o z)
  BY DEF Plan, TemplateOps
<1> HIDE DEF x, y, z
<1>6. /\ y \o z \in Seq(SyncOps(m))
      /\ \A o : Has(y, o) \/ Has(z, o) => Has(y \o z, o)
  BY <1>3, <1>4, HasConcat
<1>7. /\ x \o (y \o z) \in Seq(SyncOps(m))
      /\ \A o : Has(x, o) \/ Has(y \o z, o) => Has(x \o (y \o z), o)
  BY <1>2, <1>6, HasConcat
<1> QED BY <1>2, <1>3, <1>4, <1>5, <1>6, <1>7

\* A step of c: what other clients do is as it was, and who was alone still is only if
\* the catalog is as it was.
Alone(c) ==
  /\ DOMAIN op' = Clients /\ DOMAIN seen' = Clients /\ DOMAIN quiet' = Clients
  /\ DOMAIN todo' = Clients /\ DOMAIN manifest' = Clients /\ DOMAIN outcome' = Clients
  /\ \A d \in Clients \ {c} :
       /\ op'[d] = op[d] /\ pc'[d] = pc[d] /\ seen'[d] = seen[d] /\ todo'[d] = todo[d]
       /\ manifest'[d] = manifest[d] /\ outcome'[d] = outcome[d]
       /\ quiet'[d] => quiet[d] /\ UNCHANGED catalog

Senders == [account : Accounts, value : Values]
Places == {"idle", "auth", "read", "commit", "plan", "diff"}

LEMMA OthersSync ==
  ASSUME SyncInv, NEW c \in Clients, Alone(c), Good(c)',
         pc' \in [Clients -> Places], sender' \in Senders \union {None}
  PROVE  SyncInv'
<1>1. SyncTypeOK'
  BY DEF SyncTypeOK, Alone, Places, Senders
<1>2. ASSUME NEW d \in Clients \ {c}
      PROVE  Good(d)'
  <2>1. /\ Good(d)
        /\ op'[d] = op[d] /\ pc'[d] = pc[d] /\ seen'[d] = seen[d] /\ todo'[d] = todo[d]
        /\ manifest'[d] = manifest[d] /\ outcome'[d] = outcome[d]
        /\ quiet'[d] => quiet[d] /\ sender' = sender /\ versions' = versions /\ active' = active
    BY GoodIsInv DEF Alone, catalog
  <2>2. Puts(d)'
    BY <2>1 DEF Good, Puts
  <2>3. Ended(d)'
    BY <2>1 DEF Good, Ended, Deployed
  <2>4. Syncing(d)'
    BY <2>1 DEF Good, Syncing, Owes, SenderMatches
  <2> QED BY <2>2, <2>3, <2>4 DEF Good
<1>3. \A d \in Clients : Good(d)'
  BY <1>2
<1> QED BY <1>1, <1>3 DEF SyncInv, SyncConverges, Good, Ended

\* What has been deployed of c's manifest still is, and so is what its request was about.
Gains(c) ==
  LET m == manifest[c] IN
  /\ SenderMatches(m, sender) \/ op[c] = SenderOp(m) => SenderMatches(m, sender')
  /\ m.digest \in versions \/ op[c] = TemplateOp(m) => m.digest \in versions'
  /\ active = m.digest \/ op[c] = ActivateOp(m) => active' = m.digest

LEMMA RespondSyncs ==
  ASSUME SyncInv, NEW c \in Clients, NEW o \in {"ok", "refused", "failed"}, Respond(c, o),
         pc[c] \in {"auth", "read", "commit"}, manifest' = manifest,
         o = "ok" /\ todo[c] # <<>> /\ quiet'[c] => quiet[c] /\ Gains(c)
  PROVE  Good(c)' /\ pc' \in [Clients -> Places]
<1> DEFINE m == manifest[c]
           t == todo[c]
           goOn == o = "ok" /\ t # <<>> /\ Tail(t) # <<>>
<1>1. /\ op'[c] = IF goOn THEN Head(Tail(t)) ELSE NoOp
      /\ todo'[c] = IF goOn THEN Tail(t) ELSE <<>>
      /\ outcome'[c] = IF o = "ok" /\ t # <<>> /\ ~goOn THEN "synced" ELSE o
      /\ pc'[c] = IF goOn THEN "auth" ELSE "idle"
      /\ pc' \in [Clients -> Places] /\ manifest'[c] = m
  BY DEF Respond, Goto, SyncInv, SyncTypeOK, Places
<1>2. CASE o = "ok" /\ t # <<>>
  <2>1. /\ m \in Manifests /\ t \in Seq(SyncOps(m)) /\ op[c] = Head(t)
        /\ quiet[c] =>
             /\ SenderMatches(m, sender) \/ Owes(c, SenderOp(m))
             /\ m.digest \in versions \/ Owes(c, TemplateOp(m))
             /\ m.activate => active = m.digest \/ Owes(c, ActivateOp(m))
    BY <1>2 DEF SyncInv, Syncing
  <2>2. Tail(t) \in Seq(SyncOps(m)) /\ \A x : Has(t, x) => x = Head(t) \/ Has(Tail(t), x)
    <3> DEFINE X == SyncOps(m)
    <3>0. t \in Seq(X) /\ t # <<>>
      BY <1>2, <2>1
    <3> HIDE DEF t, X
    <3>1. /\ Tail(t) \in Seq(X) /\ Len(Tail(t)) = Len(t) - 1 /\ Len(t) \in Nat \ {0}
          /\ Head(t) = t[1] /\ \A i \in 1..Len(t) - 1 : Tail(t)[i] = t[i + 1]
      BY <3>0
    <3>2. ASSUME NEW i \in 1..Len(t), i # 1
          PROVE  i - 1 \in 1..Len(Tail(t)) /\ Tail(t)[i - 1] = t[i]
      BY <3>1, <3>2
    <3>3. \A x : Has(t, x) => x = Head(t) \/ Has(Tail(t), x)
      BY <3>1, <3>2 DEF Has
    <3> QED BY <3>1, <3>3 DEF X
  <2>3. quiet'[c] =>
          /\ SenderMatches(m, sender') \/ Has(Tail(t), SenderOp(m))
          /\ m.digest \in versions' \/ Has(Tail(t), TemplateOp(m))
          /\ m.activate => active' = m.digest \/ Has(Tail(t), ActivateOp(m))
    BY <1>2, <2>1, <2>2 DEF Gains, Owes, Has
  <2>4. CASE Tail(t) # <<>>
    <3>1. todo'[c] = Tail(t) /\ op'[c] = Head(Tail(t)) /\ pc'[c] = "auth" /\ outcome'[c] = "ok"
      BY <1>1, <1>2, <2>4
    <3>2. Head(Tail(t)) \in SyncOps(m)
      <4> DEFINE u == Tail(t)
                 X == SyncOps(m)
      <4>1. u \in Seq(X) /\ u # <<>>
        BY <2>2, <2>4
      <4> HIDE DEF u, X
      <4>2. Head(u) \in X
        BY <4>1
      <4> QED BY <4>2 DEF u, X
    <3>3. Puts(c)'
      <4>1. m.account \in Accounts \union {None} /\ m.value \in Values
        BY <2>1 DEF Manifests
      <4>2. \A o1 \in SyncOps(m) : o1.kind = "put sender" => o1.account = m.account /\ o1.value = m.value
        <5> SUFFICES ASSUME NEW o1 \in SyncOps(m), o1.kind = "put sender"
                     PROVE  o1.account = m.account /\ o1.value = m.value
          OBVIOUS
        <5>1. TemplateOp(m).kind = "put template" /\ ActivateOp(m).kind = "activate"
          BY DEF TemplateOp, ActivateOp
        <5>2. o1 = SenderOp(m)
          BY <5>1 DEF SyncOps
        <5> QED BY <5>2 DEF SenderOp
      <4> QED BY <3>1, <3>2, <4>1, <4>2 DEF Puts
    <3>4. Syncing(c)'
      BY <1>1, <2>1, <2>2, <2>3, <2>4, <3>1 DEF Syncing, Owes, Has
    <3>5. Ended(c)'
      BY <3>1 DEF Ended
    <3> QED BY <1>1, <3>3, <3>4, <3>5 DEF Good
  <2>5. CASE Tail(t) = <<>>
    <3>1. todo'[c] = <<>> /\ op'[c] = NoOp /\ pc'[c] = "idle"
      BY <1>1, <1>2, <2>5
    <3>2. \A x : ~Has(Tail(t), x)
      <4>1. \A i \in 1..Len(<<>>) : FALSE
        OBVIOUS
      <4> QED BY <2>5, <4>1 DEF Has
    <3>3. Ended(c)'
      BY <1>1, <2>3, <3>2 DEF Ended, Deployed, SenderMatches
    <3>4. Puts(c)' /\ Syncing(c)'
      BY <3>1 DEF Puts, NoOp, Syncing
    <3> QED BY <1>1, <3>3, <3>4 DEF Good
  <2> QED BY <2>4, <2>5
<1>3. CASE ~(o = "ok" /\ t # <<>>)
  <2>1. todo'[c] = <<>> /\ op'[c] = NoOp /\ pc'[c] = "idle" /\ outcome'[c] = o
    BY <1>1, <1>3
  <2>2. Puts(c)' /\ Syncing(c)' /\ Ended(c)'
    BY <2>1 DEF Puts, NoOp, Syncing, Ended
  <2> QED BY <1>1, <2>2 DEF Good
<1> QED BY <1>2, <1>3

\* A request that goes on with what it has read.
LEMMA AwaitSyncs ==
  ASSUME SyncInv, NEW c \in Clients, NEW p \in {"read", "commit"}, NEW s, Await(c, p, s),
         pc[c] \in {"auth", "read"}, UNCHANGED <<catalog, manifest, quiet>>,
         p = "commit" /\ op[c].kind = "put sender" => s \in Accounts
  PROVE  Good(c)' /\ pc' \in [Clients -> Places]
<1>1. /\ pc'[c] = p /\ seen'[c] = s /\ UNCHANGED <<op, todo, outcome>>
      /\ pc' \in [Clients -> Places]
  BY DEF Await, Goto, SyncInv, SyncTypeOK, Places
<1>2. Good(c) /\ UNCHANGED <<sender, versions, active>>
  BY GoodIsInv DEF catalog
<1>3. Puts(c)'
  BY <1>1, <1>2 DEF Good, Puts
<1>4. Syncing(c)' /\ Ended(c)'
  BY <1>1, <1>2 DEF Good, Syncing, Owes, SenderMatches, Ended, Deployed
<1> QED BY <1>1, <1>3, <1>4 DEF Good

LEMMA RespondAlone ==
  ASSUME SyncInv, NEW c \in Clients, NEW o, Respond(c, o), manifest' = manifest,
         DOMAIN quiet' = Clients,
         \A d \in Clients \ {c} : quiet'[d] => quiet[d] /\ UNCHANGED catalog
  PROVE  Alone(c)
BY DEF Respond, Goto, SyncInv, SyncTypeOK, Alone

LEMMA AwaitAlone ==
  ASSUME SyncInv, NEW c \in Clients, NEW p, NEW s, Await(c, p, s),
         UNCHANGED <<catalog, manifest, quiet>>
  PROVE  Alone(c)
BY DEF Await, Goto, SyncInv, SyncTypeOK, Alone

LEMMA RespondKeepsSync ==
  ASSUME SyncInv, NEW c \in Clients, NEW o \in {"ok", "refused", "failed"}, Respond(c, o),
         pc[c] \in {"auth", "read", "commit"}, manifest' = manifest, DOMAIN quiet' = Clients,
         \A d \in Clients \ {c} : quiet'[d] => quiet[d] /\ UNCHANGED catalog,
         sender' \in Senders \union {None},
         o = "ok" /\ todo[c] # <<>> /\ quiet'[c] => quiet[c] /\ Gains(c)
  PROVE  SyncInv'
<1>1. Good(c)' /\ pc' \in [Clients -> Places]
  BY RespondSyncs
<1>2. Alone(c)
  BY RespondAlone
<1> QED BY <1>1, <1>2, OthersSync

LEMMA AwaitKeepsSync ==
  ASSUME SyncInv, NEW c \in Clients, NEW p \in {"read", "commit"}, NEW s, Await(c, p, s),
         pc[c] \in {"auth", "read"}, UNCHANGED <<catalog, manifest, quiet>>,
         p = "commit" /\ op[c].kind = "put sender" => s \in Accounts
  PROVE  SyncInv'
<1>1. Good(c)' /\ pc' \in [Clients -> Places]
  BY AwaitSyncs
<1>2. Alone(c)
  BY AwaitAlone
<1>3. sender' \in Senders \union {None}
  BY DEF SyncInv, SyncTypeOK, catalog, Senders
<1> QED BY <1>1, <1>2, <1>3, OthersSync

LEMMA OpFields ==
  ASSUME NEW m
  PROVE  /\ SenderOp(m).kind = "put sender" /\ SenderOp(m).value = m.value
         /\ TemplateOp(m).kind = "put template" /\ TemplateOp(m).digest = m.digest
         /\ ActivateOp(m).kind = "activate" /\ ActivateOp(m).digest = m.digest
BY DEF SenderOp, TemplateOp, ActivateOp

\* The request of a sync is the first operation it has left.
LEMMA OpOfSync ==
  ASSUME SyncInv, NEW c \in Clients, todo[c] # <<>>
  PROVE  /\ op[c].kind = "put sender" => op[c] = SenderOp(manifest[c])
         /\ op[c].kind = "put template" => op[c] = TemplateOp(manifest[c])
         /\ op[c].kind = "activate" => op[c] = ActivateOp(manifest[c])
         /\ op[c].kind \in {"put sender", "put template", "activate"}
<1> DEFINE m == manifest[c]
           X == SyncOps(m)
           t == todo[c]
<1>1. t \in Seq(X) /\ t # <<>> /\ op[c] = Head(t)
  BY DEF SyncInv, Syncing
<1> HIDE DEF X, t
<1>2. op[c] \in X
  BY <1>1
<1>3. op[c] = SenderOp(m) \/ op[c] = TemplateOp(m) \/ op[c] = ActivateOp(m)
  BY <1>2 DEF X, SyncOps
<1> QED BY <1>3, OpFields

\* A request that ends without a write, and, if it is one of a sync, finds its operation
\* applied or fails.
LEMMA RespondQuietly ==
  ASSUME SyncInv, NEW c \in Clients, NEW o \in {"ok", "refused", "failed"}, Respond(c, o),
         pc[c] \in {"auth", "read", "commit"}, UNCHANGED <<catalog, manifest, quiet>>,
         \/ o # "ok"
         \/ op[c].kind \notin {"put sender", "put template", "activate"}
         \/ op[c].kind = "put template" /\ op[c].digest \in versions
  PROVE  SyncInv'
<1>1. /\ DOMAIN quiet' = Clients /\ sender' \in Senders \union {None}
      /\ \A d \in Clients \ {c} : quiet'[d] => quiet[d] /\ UNCHANGED catalog
  BY DEF SyncInv, SyncTypeOK, catalog, Senders
<1>2. ASSUME o = "ok", todo[c] # <<>>
      PROVE  Gains(c)
  <2>1. op[c] = TemplateOp(manifest[c]) /\ op[c].kind = "put template" /\ op[c].digest \in versions
    BY <1>2, OpOfSync
  <2>2. op[c].digest = manifest[c].digest
    BY <2>1, OpFields
  <2>3. op[c] # SenderOp(manifest[c]) /\ op[c] # ActivateOp(manifest[c])
    BY <2>1, OpFields
  <2> QED BY <2>1, <2>2, <2>3 DEF Gains, catalog, SenderMatches
<1> QED BY <1>1, <1>2, RespondKeepsSync

LEMMA NoteKeeps ==
  ASSUME SyncInv, NEW c \in Clients, NEW s, Note(c, s)
  PROVE  DOMAIN quiet' = Clients /\ (quiet'[c] => quiet[c]) /\ \A d \in Clients \ {c} : ~quiet'[d]
BY DEF Note

LEMMA SyncStart == Init => SyncInv
<1> SUFFICES ASSUME Init PROVE SyncInv
  OBVIOUS
<1>1. SyncTypeOK
  BY DEF Init, SyncTypeOK
<1>2. ASSUME NEW c \in Clients
      PROVE  Puts(c) /\ Syncing(c)
  BY DEF Init, Puts, Syncing, NoOp
<1>3. SyncConverges
  BY DEF Init, SyncConverges
<1> QED BY <1>1, <1>2, <1>3 DEF SyncInv

\* The operations of the catalog.
LEMMA PutsSync ==
  ASSUME SyncInv, NEW c \in Clients, manifest' = manifest,
         FindSender(c) \/ PutSender(c) \/ FindVersion(c) \/ PutTemplate(c) \/ Activate(c)
  PROVE  SyncInv'
<1>0. sender \in Senders \union {None}
  BY DEF SyncInv, SyncTypeOK, Senders
<1>1. CASE FindSender(c)
  <2> DEFINE account == IF op[c].account # None THEN op[c].account
                        ELSE IF sender # None THEN sender.account ELSE None
  <2>1. pc[c] = "read" /\ op[c].kind = "put sender" /\ UNCHANGED <<catalog, quiet>>
    BY <1>1 DEF FindSender, tables
  <2>2. CASE Respond(c, "refused")
    BY <2>1, <2>2, RespondQuietly
  <2>3. CASE account # None /\ Await(c, "commit", account)
    <3>1. account \in Accounts
      BY <1>0, <2>1, <2>3 DEF SyncInv, Puts, Senders
    <3> QED BY <2>1, <2>3, <3>1, AwaitKeepsSync
  <2> QED BY <1>1, <2>2, <2>3 DEF FindSender
<1>2. CASE PutSender(c)
  <2>1. /\ pc[c] = "commit" /\ op[c].kind = "put sender" /\ Done(c) /\ Note(c, FALSE)
        /\ sender' = [account |-> seen[c], value |-> op[c].value] /\ UNCHANGED <<versions, active>>
    BY <1>2 DEF PutSender
  <2>2. sender' \in Senders /\ sender' # None
    <3>1. seen[c] \in Accounts /\ op[c].value \in Values
      BY <2>1 DEF SyncInv, Puts
    <3>2. sender' \in Senders
      BY <2>1, <3>1 DEF Senders
    <3> QED BY <3>2, ControlPlaneAssumption DEF Senders
  <2>3. ASSUME todo[c] # <<>>
        PROVE  Gains(c)
    <3>1. op[c] = SenderOp(manifest[c])
      BY <2>1, <2>3, OpOfSync
    <3>2. op[c].value = manifest[c].value /\ op[c] # TemplateOp(manifest[c]) /\ op[c] # ActivateOp(manifest[c])
      BY <2>1, <3>1, OpFields
    <3> QED BY <2>1, <2>2, <3>2 DEF Gains, SenderMatches
  <2>4. PICK o \in {"ok", "failed"} : Respond(c, o)
    BY <2>1 DEF Done
  <2> QED BY <2>1, <2>2, <2>3, <2>4, NoteKeeps, RespondKeepsSync
<1>3. CASE FindVersion(c)
  <2>1. pc[c] = "read" /\ op[c].kind \in {"put template", "activate"} /\ UNCHANGED <<catalog, quiet>>
    BY <1>3 DEF FindVersion, tables
  <2>2. CASE Await(c, "commit", None)
    BY <2>1, <2>2, AwaitKeepsSync
  <2>3. CASE op[c].kind = "put template" /\ op[c].digest \in versions /\ Respond(c, "ok")
    BY <2>1, <2>3, RespondQuietly
  <2>4. CASE Respond(c, "refused")
    BY <2>1, <2>4, RespondQuietly
  <2> QED BY <1>3, <2>2, <2>3, <2>4 DEF FindVersion
<1>4. CASE PutTemplate(c)
  <2>1. pc[c] = "commit" /\ op[c].kind = "put template" /\ UNCHANGED <<sender, active>>
    BY <1>4 DEF PutTemplate
  <2>2. CASE versions' = versions \union {op[c].digest} /\ Done(c) /\ Note(c, FALSE)
    <3>1. ASSUME todo[c] # <<>>
          PROVE  Gains(c)
      <4>1. op[c] = TemplateOp(manifest[c])
        BY <2>1, <3>1, OpOfSync
      <4>2. op[c].digest = manifest[c].digest /\ op[c] # SenderOp(manifest[c]) /\ op[c] # ActivateOp(manifest[c])
        BY <2>1, <4>1, OpFields
      <4> QED BY <2>1, <2>2, <4>2 DEF Gains, SenderMatches
    <3>2. PICK o \in {"ok", "failed"} : Respond(c, o)
      BY <2>2 DEF Done
    <3> QED BY <1>0, <2>1, <2>2, <3>1, <3>2, NoteKeeps, RespondKeepsSync
  <2>3. CASE Respond(c, "failed") /\ UNCHANGED <<versions, quiet>>
    BY <2>1, <2>3, RespondQuietly DEF catalog
  <2> QED BY <1>4, <2>2, <2>3 DEF PutTemplate
<1>5. CASE Activate(c)
  <2>1. /\ pc[c] = "commit" /\ op[c].kind = "activate" /\ Done(c) /\ Note(c, FALSE)
        /\ active' = op[c].digest /\ UNCHANGED <<sender, versions>>
    BY <1>5 DEF Activate
  <2>2. ASSUME todo[c] # <<>>
        PROVE  Gains(c)
    <3>1. op[c] = ActivateOp(manifest[c])
      BY <2>1, <2>2, OpOfSync
    <3>2. op[c].digest = manifest[c].digest /\ op[c] # SenderOp(manifest[c]) /\ op[c] # TemplateOp(manifest[c])
      BY <2>1, <3>1, OpFields
    <3> QED BY <2>1, <3>2 DEF Gains, SenderMatches
  <2>3. PICK o \in {"ok", "failed"} : Respond(c, o)
    BY <2>1 DEF Done
  <2> QED BY <1>0, <2>1, <2>2, <2>3, NoteKeeps, RespondKeepsSync
<1> QED BY <1>1, <1>2, <1>3, <1>4, <1>5

\* Keys, webhooks and failures leave the catalog alone.
LEMMA OtherRoutesSync ==
  ASSUME SyncInv, NEW c \in Clients, manifest' = manifest,
         \/ CreateKey(c) \/ FindKey(c) \/ RevokeKey(c)
         \/ FindEndpoint(c) \/ Rotate(c) \/ CreateDelivery(c) \/ DbFails(c)
  PROVE  SyncInv'
<1>1. UNCHANGED <<catalog, quiet>>
  BY DEF CreateKey, FindKey, RevokeKey, FindEndpoint, Rotate, CreateDelivery, DbFails, tables
<1>2. CASE DbFails(c)
  BY <1>1, <1>2, RespondQuietly DEF DbFails
<1>3. CASE ~DbFails(c)
  <2>1. /\ pc[c] \in {"read", "commit"}
        /\ op[c].kind \in {"create key", "revoke key", "rotate", "deliver"}
    BY <1>3 DEF CreateKey, FindKey, RevokeKey, FindEndpoint, Rotate, CreateDelivery
  <2>2. \/ \E o \in {"ok", "refused", "failed"} : Respond(c, o)
        \/ pc[c] = "read" /\ \E s : Await(c, "commit", s)
    BY <1>3 DEF CreateKey, FindKey, RevokeKey, FindEndpoint, Rotate, CreateDelivery, Done
  <2>3. ASSUME NEW o \in {"ok", "refused", "failed"}, Respond(c, o)
        PROVE  SyncInv'
    BY <1>1, <2>1, <2>3, RespondQuietly
  <2>4. ASSUME NEW s, pc[c] = "read", Await(c, "commit", s)
        PROVE  SyncInv'
    BY <1>1, <2>1, <2>4, AwaitKeepsSync
  <2> QED BY <2>2, <2>3, <2>4
<1> QED BY <1>2, <1>3

LEMMA ClientsSync ==
  ASSUME SyncInv, NEW c \in Clients,
         Request(c) \/ Authenticate(c) \/ BeginSync(c) \/ ListSenders(c) \/ Diff(c)
  PROVE  SyncInv'
<1>0. Good(c) /\ SyncTypeOK
  BY GoodIsInv
<1>1. UNCHANGED catalog /\ sender' \in Senders \union {None}
  BY <1>0 DEF Request, Authenticate, BeginSync, ListSenders, Diff, tables, catalog, SyncTypeOK, Senders
<1>2. CASE Authenticate(c)
  <2>1. pc[c] = "auth" /\ UNCHANGED <<manifest, quiet>>
    BY <1>2 DEF Authenticate
  <2>2. CASE Await(c, "read", None)
    BY <1>1, <2>1, <2>2, AwaitKeepsSync
  <2>3. CASE Respond(c, "refused") \/ Respond(c, "failed")
    BY <1>1, <2>1, <2>3, RespondQuietly
  <2> QED BY <1>2, <2>2, <2>3 DEF Authenticate
<1>3. CASE Request(c)
  <2>1. PICK o \in Ops(area) : op' = [op EXCEPT ![c] = o]
    BY <1>3 DEF Request
  <2>2. o.kind = "put sender" => o.account \in Accounts \union {None} /\ o.value \in Values
    BY DEF Ops
  <2>3. /\ op'[c] = o /\ pc'[c] = "auth" /\ outcome'[c] = "none" /\ todo'[c] = <<>>
        /\ pc' \in [Clients -> Places]
    BY <1>0, <1>3, <2>1 DEF Request, Goto, SyncTypeOK, Places, Good, Syncing
  <2>4. Good(c)'
    BY <2>2, <2>3 DEF Good, Puts, Syncing, Ended
  <2>5. Alone(c)
    BY <1>0, <1>1, <1>3 DEF Request, Goto, Alone, SyncTypeOK
  <2> QED BY <1>1, <2>3, <2>4, <2>5, OthersSync
<1>4. CASE BeginSync(c)
  <2>1. PICK m \in Manifests : manifest' = [manifest EXCEPT ![c] = m]
    BY <1>4 DEF BeginSync
  <2>2. /\ manifest'[c] = m /\ pc'[c] = "plan" /\ outcome'[c] = "none" /\ todo'[c] = <<>> /\ op' = op
        /\ pc' \in [Clients -> Places]
    BY <1>0, <1>4, <2>1 DEF BeginSync, Goto, SyncTypeOK, Places, Good, Syncing
  <2>3. Good(c)'
    BY <1>0, <2>2 DEF Good, Puts, Syncing, Ended
  <2>4. Alone(c)
    BY <1>0, <1>1, <1>4 DEF BeginSync, Goto, Alone, SyncTypeOK
  <2> QED BY <1>1, <2>2, <2>3, <2>4, OthersSync
<1>5. CASE ListSenders(c)
  <2>1. /\ pc'[c] = "diff" /\ seen'[c] = sender /\ pc[c] = "plan"
        /\ UNCHANGED <<op, todo, outcome, manifest, quiet, catalog>>
        /\ pc' \in [Clients -> Places]
    BY <1>0, <1>1, <1>5 DEF ListSenders, Await, Goto, SyncTypeOK, Places
  <2>2. Good(c)'
    BY <1>0, <2>1 DEF Good, Puts, Syncing, Ended, catalog
  <2>3. Alone(c)
    BY <1>1, <1>5, <2>1, AwaitAlone DEF ListSenders
  <2> QED BY <1>1, <2>1, <2>2, <2>3, OthersSync
<1>6. CASE Diff(c)
  <2> DEFINE m == manifest[c]
             p == Plan(m, seen[c], versions, active)
  <2>1. /\ pc[c] = "diff" /\ UNCHANGED <<manifest, quiet>> /\ m \in Manifests /\ todo[c] = <<>>
        /\ quiet[c] => seen[c] = sender
        /\ outcome[c] # "synced"
    BY <1>0, <1>6 DEF Diff, Good, Syncing
  <2>2. /\ p \in Seq(SyncOps(m))
        /\ SenderMatches(m, seen[c]) \/ Has(p, SenderOp(m))
        /\ m.digest \in versions \/ Has(p, TemplateOp(m))
        /\ m.activate => active = m.digest \/ Has(p, ActivateOp(m))
    BY PlanOps
  <2>3. Alone(c) /\ pc' \in [Clients -> Places]
    BY <1>0, <1>1, <1>6 DEF Diff, Goto, Alone, SyncTypeOK, Places
  <2>4. CASE /\ p = <<>> /\ outcome' = [outcome EXCEPT ![c] = "synced"]
             /\ Goto(c, "idle") /\ UNCHANGED <<op, todo>>
    <3>1. \A x : ~Has(p, x)
      <4>1. \A i \in 1..Len(<<>>) : FALSE
        OBVIOUS
      <4> QED BY <2>4, <4>1 DEF Has
    <3>2. pc'[c] = "idle" /\ op' = op /\ todo'[c] = <<>> /\ manifest' = manifest /\ quiet' = quiet
      BY <1>0, <2>1, <2>4 DEF Goto, SyncTypeOK
    <3> HIDE DEF p
    <3>3. Ended(c)'
      BY <1>1, <2>1, <2>2, <3>1, <3>2 DEF Ended, Deployed, SenderMatches, catalog
    <3>4. Puts(c)' /\ Syncing(c)'
      BY <1>0, <3>2 DEF Good, Puts, Syncing
    <3>5. Good(c)'
      BY <3>3, <3>4 DEF Good
    <3> QED BY <1>1, <2>3, <3>5, OthersSync
  <2>5. CASE /\ p # <<>> /\ todo' = [todo EXCEPT ![c] = p] /\ op' = [op EXCEPT ![c] = Head(p)]
             /\ Goto(c, "auth") /\ UNCHANGED outcome
    <3>1. /\ pc'[c] = "auth" /\ op'[c] = Head(p) /\ todo'[c] = p /\ outcome'[c] = outcome[c]
          /\ manifest'[c] = m /\ quiet'[c] = quiet[c]
      BY <1>0, <2>1, <2>5 DEF Goto, SyncTypeOK
    <3> DEFINE X == SyncOps(m)
    <3>2. p \in Seq(X) /\ p # <<>>
      BY <2>2, <2>5
    <3> HIDE DEF p, X
    <3>3. Head(p) \in X
      BY <3>2
    <3>4. Puts(c)'
      <4>1. Head(p) = SenderOp(m) \/ Head(p) = TemplateOp(m) \/ Head(p) = ActivateOp(m)
        BY <3>3 DEF X, SyncOps
      <4>2. TemplateOp(m).kind = "put template" /\ ActivateOp(m).kind = "activate"
            /\ SenderOp(m).account \in Accounts \union {None} /\ SenderOp(m).value \in Values
        BY <2>1 DEF TemplateOp, ActivateOp, SenderOp, Manifests
      <4> QED BY <3>1, <4>1, <4>2 DEF Puts
    <3>5. Syncing(c)'
      BY <1>1, <2>1, <2>2, <2>5, <3>1, <3>2 DEF Syncing, Owes, Has, SenderMatches, X, catalog
    <3>6. Ended(c)'
      BY <2>1, <3>1 DEF Ended
    <3>7. Good(c)'
      BY <3>4, <3>5, <3>6 DEF Good
    <3> QED BY <1>1, <2>3, <3>7, OthersSync
  <2> QED BY <1>6, <2>4, <2>5 DEF Diff
<1> QED BY <1>2, <1>3, <1>4, <1>5, <1>6

\* Running sync beside nobody else's writes deploys its manifest: for any number of clients,
\* accounts, values and digests, and whatever was deployed or had failed half-way before.
THEOREM SyncsConverge == Spec => []SyncConverges
<1>1. SyncInv /\ [Next]_vars => SyncInv'
  <2> SUFFICES ASSUME SyncInv, [Next]_vars PROVE SyncInv'
    OBVIOUS
  <2>1. ASSUME NEW c \in Clients, Serve(c) PROVE SyncInv'
    BY <2>1, PutsSync, OtherRoutesSync
       DEF Serve, KeyRoutes, SenderRoutes, TemplateRoutes, WebhookRoutes
  <2>2. ASSUME NEW c \in Clients,
               Request(c) \/ Authenticate(c) \/ BeginSync(c) \/ ListSenders(c) \/ Diff(c)
        PROVE  SyncInv'
    BY <2>2, ClientsSync
  <2>3. CASE UNCHANGED vars
    BY <2>3 DEF vars, tables, catalog, sync, SyncInv, SyncTypeOK, SyncConverges, Deployed,
         Puts, Syncing, Owes, SenderMatches
  <2> QED BY <2>1, <2>2, <2>3 DEF Next
<1>2. SyncInv => SyncConverges
  BY DEF SyncInv
<1> QED BY <1>1, <1>2, SyncStart, PTL DEF Spec

=============================================================================
