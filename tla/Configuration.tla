--------------------------- MODULE Configuration ---------------------------
(***************************************************************************)
(* The SMTP accounts, buckets and templates of config.yaml, which every      *)
(* worker adds when it starts, next to an operator who creates and deletes    *)
(* accounts and buckets with the dashboard's routes.                           *)
(*                                                                          *)
(* A worker looks an entry up and creates it in two calls; names are unique    *)
(* in the database, and an error ends the entry and not the start. Only        *)
(* whether a row exists is kept of it. Templates are not deleted here.          *)
(***************************************************************************)
EXTENDS Naturals, Sequences

CONSTANTS
  Accounts, Buckets, Templates, \* the entries of config.yaml, in its order
  BucketOf,  \* the bucket of an S3 template, or NoBucket
  NoBucket,
  Starters,  \* worker processes
  Operators  \* callers of the account and bucket routes

VARIABLES
  configured, \* entries whose row exists
  step, todo, \* a worker: the call it awaits, the entries it has still to add
  held,       \* the bucket row it has looked up: none, live, or deleted since
  ask,        \* the row an operator's DELETE has found
  spoiled     \* history: starts a call of which failed, or after which a row was deleted

config == <<configured, step, todo, held, ask, spoiled>>

\* Mutant: templates are added first.
SeedOrder_TemplatesFirst == Templates \o Accounts \o Buckets

\* seedFromConfigYaml reads accounts, then buckets, then the templates that name them.
SeedOrder == Accounts \o Buckets \o Templates

Entries == {SeedOrder[i] : i \in 1..Len(SeedOrder)}

ASSUME ConfigurationAssumption ==
  /\ {Accounts, Buckets, Templates} \subseteq Seq(Entries)
  /\ BucketOf \in [Entries -> Entries \union {NoBucket}]

ConfigInit ==
  /\ configured = {}
  /\ step = [w \in Starters |-> "off"]
  /\ todo = [w \in Starters |-> <<>>]
  /\ held = [w \in Starters |-> "none"]
  /\ ask = [u \in Operators |-> NoBucket]
  /\ spoiled = {}

Entry(w) == Head(todo[w])

\* On to the next entry, whether this one was added, was there, or could not be added.
NextEntry(w) ==
  /\ todo' = [todo EXCEPT ![w] = Tail(@)]
  /\ step' = [step EXCEPT ![w] = IF Len(todo[w]) = 1 THEN "up" ELSE "find"]
  /\ held' = [held EXCEPT ![w] = "none"]

Await(w, s, h) ==
  /\ step' = [step EXCEPT ![w] = s]
  /\ held' = [held EXCEPT ![w] = h]
  /\ UNCHANGED <<configured, todo, spoiled>>

\* A file that is missing or cannot be parsed adds nothing.
StartSeeding(w) ==
  /\ step[w] = "off"
  /\ \/ /\ todo' = [todo EXCEPT ![w] = SeedOrder]
        /\ step' = [step EXCEPT ![w] = IF SeedOrder = <<>> THEN "up" ELSE "find"]
        /\ spoiled' = spoiled \ {w}
     \/ /\ step' = [step EXCEPT ![w] = "up"]
        /\ spoiled' = spoiled \union {w}
        /\ UNCHANGED todo
  /\ UNCHANGED <<configured, held>>

FindEntry(w) ==
  /\ step[w] = "find"
  /\ \/ Entry(w) \in configured /\ NextEntry(w) /\ UNCHANGED <<configured, spoiled>>
     \/ /\ Entry(w) \notin configured
        /\ Await(w, IF BucketOf[Entry(w)] = NoBucket THEN "create" ELSE "bucket", "none")

FindBucket(w) ==
  /\ step[w] = "bucket"
  /\ \/ BucketOf[Entry(w)] \in configured /\ Await(w, "create", "live")
     \/ BucketOf[Entry(w)] \notin configured /\ NextEntry(w) /\ UNCHANGED <<configured, spoiled>>

\* The insert is refused when the name was taken or the bucket deleted meanwhile.
CreateEntry(w) ==
  /\ step[w] = "create"
  /\ configured' = IF held[w] = "deleted" THEN configured ELSE configured \union {Entry(w)}
  /\ NextEntry(w)
  /\ UNCHANGED spoiled

\* The entry is invalid, a variable or a key it needs is not set, or a query fails.
SkipEntry(w) ==
  /\ step[w] \in {"find", "bucket", "create"}
  /\ NextEntry(w)
  /\ spoiled' = spoiled \union {w}
  /\ UNCHANGED configured

StopWorker(w) ==
  /\ step[w] # "off"
  /\ step' = [step EXCEPT ![w] = "off"]
  /\ todo' = [todo EXCEPT ![w] = <<>>]
  /\ held' = [held EXCEPT ![w] = "none"]
  /\ UNCHANGED <<configured, spoiled>>

Seed(w) ==
  /\ \/ StartSeeding(w) \/ FindEntry(w) \/ FindBucket(w) \/ CreateEntry(w)
     \/ SkipEntry(w) \/ StopWorker(w)
  /\ UNCHANGED ask

-----------------------------------------------------------------------------
(* The routes. A POST with a name that is taken answers 500, as does the       *)
(* DELETE of a row that others refer to.                                        *)

Post(e) ==
  /\ configured' = configured \union {e}
  /\ UNCHANGED <<step, todo, held, ask, spoiled>>

PostAccount == \E i \in 1..Len(Accounts) : Post(Accounts[i])
PostBucket == \E i \in 1..Len(Buckets) : Post(Buckets[i])

Answered(u) == ask' = [ask EXCEPT ![u] = NoBucket]

\* Both DELETEs find the row first. Whoever has found it as well answers 500.
FindForDelete(u, e) ==
  /\ ask[u] = NoBucket /\ e \in configured
  /\ ask' = [ask EXCEPT ![u] = e]
  /\ UNCHANGED <<configured, step, todo, held, spoiled>>

DeleteEntry(u, e) ==
  /\ ask[u] = e
  /\ configured' = configured \ {e}
  /\ ask' = [v \in Operators |-> IF ask[v] = e THEN NoBucket ELSE ask[v]]
  /\ spoiled' = Starters
  /\ UNCHANGED <<step, todo>>

DeleteAccount(u) ==
  /\ \E i \in 1..Len(Accounts) :
       FindForDelete(u, Accounts[i]) \/ (DeleteEntry(u, Accounts[i]) /\ UNCHANGED held)

\* A template keeps its row when its bucket goes; one about to be added is refused.
DeleteBucket(u) ==
  \E i \in 1..Len(Buckets) :
    \/ FindForDelete(u, Buckets[i])
    \/ /\ DeleteEntry(u, Buckets[i])
       /\ held' = [w \in Starters |->
            IF held[w] = "live" /\ BucketOf[Entry(w)] = Buckets[i] THEN "deleted" ELSE held[w]]

DeleteFails(u) ==
  /\ ask[u] # NoBucket /\ Answered(u)
  /\ UNCHANGED <<configured, step, todo, held, spoiled>>

Configuring ==
  \/ \E w \in Starters : Seed(w)
  \/ PostAccount \/ PostBucket
  \/ \E u \in Operators : DeleteAccount(u) \/ DeleteBucket(u) \/ DeleteFails(u)

-----------------------------------------------------------------------------
(* Properties.                                                               *)

\* A worker that has started and none of whose calls failed finds every entry of
\* config.yaml in the database, although others add the same entries at the same time
\* and its own inserts may be refused, until the operator deletes one.
StartedIsSeeded ==
  \A w \in Starters : step[w] = "up" /\ w \notin spoiled => Entries \subseteq configured

-----------------------------------------------------------------------------
(* Why it holds: what a worker that nothing has spoiled has passed is there.   *)

\* Accounts and buckets are in no bucket, and a template's bucket, if it has one, is an
\* entry of config.yaml too. A template that names another bucket is left out.
BucketsListed ==
  /\ \A i \in 1..Len(Accounts \o Buckets) : BucketOf[SeedOrder[i]] = NoBucket
  /\ \A e \in Entries : BucketOf[e] # NoBucket =>
       \E i \in 1..Len(Accounts \o Buckets) : BucketOf[e] = SeedOrder[i]

\* todo is what remains of SeedOrder.
Passed(w) == Len(SeedOrder) - Len(todo[w])

ConfigTypeOK ==
  /\ step \in [Starters -> {"off", "find", "bucket", "create", "up"}]
  /\ todo \in [Starters -> Seq(Entries)]
  /\ held \in [Starters -> {"none", "live", "deleted"}]
  /\ \A w \in Starters : step[w] \in {"off", "find", "bucket"} => held[w] = "none"
  /\ \A w \in Starters : step[w] \in {"find", "bucket", "create"} =>
       /\ Len(todo[w]) \in 1..Len(SeedOrder)
       /\ \A j \in 1..Len(todo[w]) : todo[w][j] = SeedOrder[Passed(w) + j]

SeedInv ==
  \A w \in Starters \ spoiled :
    /\ held[w] # "deleted"
    /\ step[w] = "up" => Entries \subseteq configured
    /\ step[w] \in {"find", "bucket", "create"} =>
         \A i \in 1..Passed(w) : SeedOrder[i] \in configured
    /\ step[w] = "bucket" => BucketOf[Entry(w)] # NoBucket

ConfigInv == ConfigTypeOK /\ SeedInv

=============================================================================
