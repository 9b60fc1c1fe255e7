-------------------------- MODULE DashboardProofs --------------------------
(***************************************************************************)
(* Proofs about Dashboard and the Configuration it extends: a started worker  *)
(* finds config.yaml in the database, and a template keeps its own content     *)
(* under the routes and under the editor.                                    *)
(***************************************************************************)
EXTENDS Dashboard, TLAPS

-----------------------------------------------------------------------------
(* config.yaml.                                                              *)

LEMMA SeedOrderSeq ==
  /\ SeedOrder \in Seq(Entries) /\ Len(SeedOrder) \in Nat
  /\ \A i \in 1..Len(SeedOrder) : SeedOrder[i] \in Entries
  /\ \A e \in Entries : \E i \in 1..Len(SeedOrder) : e = SeedOrder[i]
  /\ Len(Accounts \o Buckets) \in 0..Len(SeedOrder)
<1>1. Accounts \in Seq(Entries) /\ Buckets \in Seq(Entries) /\ Templates \in Seq(Entries)
  BY ConfigurationAssumption
<1>2. (Accounts \o Buckets) \in Seq(Entries)
  BY <1>1
<1>3. /\ SeedOrder \in Seq(Entries)
      /\ Len(SeedOrder) = Len(Accounts \o Buckets) + Len(Templates)
  BY <1>1, <1>2 DEF SeedOrder
<1>4. Len(Accounts \o Buckets) \in Nat /\ Len(Templates) \in Nat
  BY <1>1, <1>2
<1> QED BY <1>3, <1>4 DEF Entries

\* The entry a worker is at, and what comes after it.
LEMMA AtEntry ==
  ASSUME ConfigTypeOK, NEW w \in Starters, step[w] \in {"find", "bucket", "create"}
  PROVE  /\ Entry(w) = SeedOrder[Passed(w) + 1] /\ Entry(w) \in Entries
         /\ Passed(w) + 1 \in 1..Len(SeedOrder)
         /\ Len(todo[w]) \in 1..Len(SeedOrder) /\ todo[w] \in Seq(Entries)
         /\ Tail(todo[w]) \in Seq(Entries) /\ Len(Tail(todo[w])) = Len(todo[w]) - 1
         /\ \A j \in 1..Len(Tail(todo[w])) : Tail(todo[w])[j] = SeedOrder[Passed(w) + 1 + j]
<1> DEFINE t == todo[w]
           n == Len(SeedOrder)
<1>1. t \in Seq(Entries) /\ Len(t) \in 1..n /\ n \in Nat /\ Len(t) \in Nat
  BY SeedOrderSeq DEF ConfigTypeOK
<1>2. \A j \in 1..Len(t) : t[j] = SeedOrder[n - Len(t) + j]
  BY DEF ConfigTypeOK, Passed
<1>3. Head(t) = t[1] /\ Tail(t) \in Seq(Entries) /\ Len(Tail(t)) = Len(t) - 1
      /\ \A j \in 1..Len(t) - 1 : Tail(t)[j] = t[j + 1]
  BY <1>1
<1>4. Head(t) = SeedOrder[n - Len(t) + 1] /\ n - Len(t) + 1 \in 1..n
  <2>1. 1 \in 1..Len(t)
    BY <1>1
  <2>2. t[1] = SeedOrder[n - Len(t) + 1]
    BY <1>2, <2>1
  <2>3. n - Len(t) + 1 \in 1..n
    <3> DEFINE l == Len(t)
    <3>1. l \in 1..n /\ n \in Nat
      BY <1>1
    <3> HIDE DEF l, n
    <3>2. n - l + 1 \in 1..n
      BY <3>1
    <3> QED BY <3>2 DEF l
  <2> QED BY <1>3, <2>2, <2>3
<1>5. ASSUME NEW j \in 1..Len(t) - 1
      PROVE  Tail(t)[j] = SeedOrder[n - Len(t) + 1 + j]
  <2>1. j + 1 \in 1..Len(t) /\ n - Len(t) + (j + 1) = n - Len(t) + 1 + j
    BY <1>1
  <2> QED BY <1>2, <1>3, <2>1
<1> QED BY <1>1, <1>3, <1>4, <1>5, SeedOrderSeq DEF Entry, Passed

LEMMA NextEntryTypes ==
  ASSUME ConfigTypeOK, NEW w \in Starters, step[w] \in {"find", "bucket", "create"}, NextEntry(w)
  PROVE  ConfigTypeOK'
<1> DEFINE t == todo[w]
           n == Len(SeedOrder)
<1>1. /\ Len(t) \in 1..n /\ t \in Seq(Entries) /\ n \in Nat
      /\ Tail(t) \in Seq(Entries) /\ Len(Tail(t)) = Len(t) - 1
      /\ \A j \in 1..Len(Tail(t)) : Tail(t)[j] = SeedOrder[Passed(w) + 1 + j]
  BY AtEntry, SeedOrderSeq
<1>2. /\ todo' = [todo EXCEPT ![w] = Tail(t)]
      /\ step' = [step EXCEPT ![w] = IF Len(t) = 1 THEN "up" ELSE "find"]
      /\ held' = [held EXCEPT ![w] = "none"]
  BY DEF NextEntry
<1>3. Passed(w)' = Passed(w) + 1 /\ Passed(w) = n - Len(t)
  BY <1>1, <1>2 DEF Passed, ConfigTypeOK
<1>4. step'[w] = "find" => Len(t) - 1 \in 1..n
  BY <1>1, <1>2 DEF ConfigTypeOK
<1>5. todo' \in [Starters -> Seq(Entries)]
  BY <1>1, <1>2 DEF ConfigTypeOK
<1>6. /\ step' \in [Starters -> {"off", "find", "bucket", "create", "up"}]
      /\ held' \in [Starters -> {"none", "live", "deleted"}]
      /\ \A v \in Starters : step'[v] \in {"off", "find", "bucket"} => held'[v] = "none"
  BY <1>2 DEF ConfigTypeOK
<1>7. ASSUME NEW v \in Starters, step'[v] \in {"find", "bucket", "create"}
      PROVE  /\ Len(todo'[v]) \in 1..n
             /\ \A j \in 1..Len(todo'[v]) : todo'[v][j] = SeedOrder[Passed(v)' + j]
  <2>1. CASE v = w
    <3>1. todo'[v] = Tail(t) /\ step'[v] = "find"
      BY <1>2, <1>7, <2>1 DEF ConfigTypeOK
    <3> QED BY <1>1, <1>3, <1>4, <2>1, <3>1
  <2>2. CASE v # w
    <3>1. todo'[v] = todo[v] /\ step'[v] = step[v] /\ Passed(v)' = Passed(v)
      BY <1>2, <2>2 DEF ConfigTypeOK, Passed
    <3> QED BY <1>7, <3>1 DEF ConfigTypeOK
  <2> QED BY <2>1, <2>2
<1> QED BY <1>5, <1>6, <1>7 DEF ConfigTypeOK

\* What a worker has passed it has found or added, or it is spoiled.
LEMMA NextEntryKeeps ==
  ASSUME ConfigTypeOK, SeedInv, NEW w \in Starters, step[w] \in {"find", "bucket", "create"}, NextEntry(w),
         configured \subseteq configured', spoiled \subseteq spoiled',
         w \notin spoiled' => Entry(w) \in configured'
  PROVE  SeedInv'
<1> SUFFICES ASSUME NEW v \in Starters \ spoiled'
             PROVE  /\ held'[v] # "deleted"
                    /\ step'[v] = "up" => Entries \subseteq configured'
                    /\ step'[v] \in {"find", "bucket", "create"} =>
                         \A i \in 1..Passed(v)' : SeedOrder[i] \in configured'
                    /\ step'[v] = "bucket" => BucketOf[Entry(v)'] # NoBucket
  BY DEF SeedInv
<1>1. CASE v # w
  <2>1. todo'[v] = todo[v] /\ step'[v] = step[v] /\ held'[v] = held[v]
    BY <1>1 DEF NextEntry, ConfigTypeOK
  <2> QED BY <2>1 DEF SeedInv, Passed, Entry
<1>2. CASE v = w
  <2>1. /\ Entry(w) = SeedOrder[Passed(w) + 1]
        /\ Len(todo[w]) \in 1..Len(SeedOrder) /\ Len(SeedOrder) \in Nat
        /\ Len(Tail(todo[w])) = Len(todo[w]) - 1
    BY AtEntry, SeedOrderSeq
  <2>2. /\ todo'[w] = Tail(todo[w]) /\ held'[w] = "none"
        /\ step'[w] = IF Len(todo[w]) = 1 THEN "up" ELSE "find"
    BY DEF NextEntry, ConfigTypeOK
  <2> DEFINE n == Len(SeedOrder)
             l == Len(todo[w])
  <2>0. n \in Nat /\ l \in 1..n /\ Len(todo'[w]) = l - 1
    BY <2>1, <2>2
  <2>3. Passed(w)' = n - (l - 1) /\ Passed(w) = n - l
    BY <2>0 DEF Passed
  <2> HIDE DEF n, l
  <2>4. \A i \in 1..Passed(w) : SeedOrder[i] \in configured
    BY <1>2 DEF SeedInv
  <2>5. \A i \in 1..Passed(w)' : SeedOrder[i] \in configured'
    <3>1. Entry(w) \in configured'
      BY <1>2
    <3>2. Passed(w)' = Passed(w) + 1 /\ Passed(w) \in Nat
      BY <2>0, <2>3
    <3> QED BY <2>1, <2>4, <3>1, <3>2
  <2>6. step'[w] = "up" => Entries \subseteq configured'
    <3>1. step'[w] = "up" => l = 1
      BY <2>2 DEF l
    <3>2. step'[w] = "up" => Passed(w)' = n
      BY <2>0, <2>3, <3>1
    <3> QED BY <2>5, <3>2, SeedOrderSeq DEF n
  <2> QED BY <1>2, <2>2, <2>5, <2>6
<1> QED BY <1>1, <1>2

\* A worker that stays at its entries keeps what it has passed.
LEMMA AwaitKeeps ==
  ASSUME ConfigInv, NEW w \in Starters, step[w] \in {"find", "bucket"},
         NEW s \in {"bucket", "create"}, NEW h \in {"none", "live"}, Await(w, s, h),
         s = "bucket" => h = "none" /\ BucketOf[Entry(w)] # NoBucket
  PROVE  ConfigInv'
<1> USE DEF ConfigInv
<1>1. /\ step' = [step EXCEPT ![w] = s] /\ held' = [held EXCEPT ![w] = h]
      /\ UNCHANGED <<configured, todo, spoiled>>
  BY DEF Await
<1>2. ConfigTypeOK'
  BY <1>1 DEF ConfigTypeOK, Passed
<1>3. SeedInv'
  BY <1>1 DEF ConfigTypeOK, SeedInv, Passed, Entry
<1> QED BY <1>2, <1>3

LEMMA StartKeeps ==
  ASSUME ConfigInv, NEW w \in Starters, StartSeeding(w)
  PROVE  ConfigInv'
<1> USE DEF ConfigInv
<1>1. held' = held /\ configured' = configured /\ step[w] = "off" /\ held[w] = "none"
  BY DEF StartSeeding, ConfigTypeOK
<1>2. CASE /\ todo' = [todo EXCEPT ![w] = SeedOrder] /\ spoiled' = spoiled \ {w}
           /\ step' = [step EXCEPT ![w] = IF SeedOrder = <<>> THEN "up" ELSE "find"]
  <2>1. /\ todo'[w] = SeedOrder /\ step'[w] = IF SeedOrder = <<>> THEN "up" ELSE "find"
        /\ \A v \in Starters \ {w} : todo'[v] = todo[v] /\ step'[v] = step[v]
    BY <1>2 DEF ConfigTypeOK
  <2>2. Passed(w)' = 0 /\ (SeedOrder # <<>> => Len(SeedOrder) \in 1..Len(SeedOrder))
        /\ (SeedOrder = <<>> => Entries = {})
    BY <2>1, SeedOrderSeq DEF Passed
  <2>3. \A j \in 1..Len(SeedOrder) : SeedOrder[j] = SeedOrder[0 + j]
    BY SeedOrderSeq
  <2>4. ConfigTypeOK'
    <3>1. ASSUME NEW v \in Starters, step'[v] \in {"find", "bucket", "create"}
          PROVE  /\ Len(todo'[v]) \in 1..Len(SeedOrder)
                 /\ \A j \in 1..Len(todo'[v]) : todo'[v][j] = SeedOrder[Passed(v)' + j]
      <4>1. CASE v = w
        BY <2>1, <2>2, <2>3, <3>1, <4>1
      <4>2. CASE v # w
        <5>1. todo'[v] = todo[v] /\ step'[v] = step[v] /\ Passed(v)' = Passed(v)
          BY <2>1, <4>2 DEF Passed
        <5> QED BY <3>1, <5>1 DEF ConfigTypeOK
      <4> QED BY <4>1, <4>2
    <3>2. todo' \in [Starters -> Seq(Entries)]
      BY <1>2, SeedOrderSeq DEF ConfigTypeOK
    <3>3. step' \in [Starters -> {"off", "find", "bucket", "create", "up"}]
      BY <1>2 DEF ConfigTypeOK
    <3> QED BY <1>1, <2>1, <3>1, <3>2, <3>3 DEF ConfigTypeOK
  <2>5. SeedInv'
    <3> SUFFICES ASSUME NEW v \in Starters \ spoiled'
                 PROVE  /\ held'[v] # "deleted"
                        /\ step'[v] = "up" => Entries \subseteq configured'
                        /\ step'[v] \in {"find", "bucket", "create"} =>
                             \A i \in 1..Passed(v)' : SeedOrder[i] \in configured'
                        /\ step'[v] = "bucket" => BucketOf[Entry(v)'] # NoBucket
      BY DEF SeedInv
    <3>1. CASE v = w
      BY <1>1, <2>1, <2>2, <3>1
    <3>2. CASE v # w
      BY <1>1, <1>2, <2>1, <3>2 DEF SeedInv, Passed, Entry
    <3> QED BY <3>1, <3>2
  <2> QED BY <2>4, <2>5
<1>3. CASE /\ step' = [step EXCEPT ![w] = "up"] /\ spoiled' = spoiled \union {w} /\ todo' = todo
  <2>1. ConfigTypeOK'
    BY <1>1, <1>3 DEF ConfigTypeOK, Passed
  <2>2. SeedInv'
    BY <1>1, <1>3 DEF ConfigTypeOK, SeedInv, Passed, Entry
  <2> QED BY <2>1, <2>2
<1> QED BY <1>2, <1>3 DEF StartSeeding

LEMMA SeedKeeps ==
  ASSUME BucketsListed, ConfigInv, NEW w \in Starters, Seed(w)
  PROVE  ConfigInv'
<1> USE DEF ConfigInv
<1>1. CASE StartSeeding(w)
  BY <1>1, StartKeeps
<1>2. CASE FindEntry(w)
  <2>1. CASE Entry(w) \in configured /\ NextEntry(w) /\ UNCHANGED <<configured, spoiled>>
    BY <1>2, <2>1, NextEntryTypes, NextEntryKeeps DEF FindEntry
  <2>2. CASE Await(w, "create", "none")
    BY <1>2, <2>2, AwaitKeeps DEF FindEntry
  <2>3. CASE BucketOf[Entry(w)] # NoBucket /\ Await(w, "bucket", "none")
    BY <1>2, <2>3, AwaitKeeps DEF FindEntry
  <2> QED BY <1>2, <2>1, <2>2, <2>3 DEF FindEntry
<1>3. CASE FindBucket(w)
  <2>1. CASE Await(w, "create", "live")
    BY <1>3, <2>1, AwaitKeeps DEF FindBucket
  <2>2. CASE BucketOf[Entry(w)] \notin configured /\ NextEntry(w) /\ UNCHANGED <<configured, spoiled>>
    <3>1. w \in spoiled
      <4> SUFFICES ASSUME w \notin spoiled PROVE FALSE
        OBVIOUS
      <4>1. /\ step[w] = "bucket" /\ BucketOf[Entry(w)] # NoBucket
            /\ \A i \in 1..Passed(w) : SeedOrder[i] \in configured
        BY <1>3 DEF FindBucket, SeedInv
      <4>2. /\ Entry(w) = SeedOrder[Passed(w) + 1] /\ Entry(w) \in Entries
            /\ Passed(w) + 1 \in 1..Len(SeedOrder)
        BY <4>1, AtEntry
      <4>3. PICK i \in 1..Len(Accounts \o Buckets) : BucketOf[Entry(w)] = SeedOrder[i]
        BY <4>1, <4>2 DEF BucketsListed
      <4>4. Passed(w) + 1 \notin 1..Len(Accounts \o Buckets)
        BY <4>1, <4>2 DEF BucketsListed
      <4> DEFINE k == Len(Accounts \o Buckets)
                 p == Passed(w)
                 n == Len(SeedOrder)
      <4>5. k \in Nat /\ n \in Nat /\ p + 1 \in 1..n /\ p + 1 \notin 1..k /\ i \in 1..k
        BY <4>2, <4>3, <4>4, SeedOrderSeq
      <4>6. p + 1 \in Nat /\ p = (p + 1) - 1
        BY <4>5, SeedOrderSeq, AtEntry, <4>1 DEF Passed
      <4> HIDE DEF k, p, n
      <4>7. i \in 1..p
        BY <4>5, <4>6
      <4> QED BY <2>2, <4>1, <4>3, <4>7 DEF p
    <3> QED BY <1>3, <2>2, <3>1, NextEntryTypes, NextEntryKeeps DEF FindBucket
  <2> QED BY <1>3, <2>1, <2>2 DEF FindBucket
<1>4. CASE CreateEntry(w)
  <2>1. /\ step[w] = "create" /\ NextEntry(w) /\ spoiled' = spoiled
        /\ configured \subseteq configured'
        /\ held[w] # "deleted" => Entry(w) \in configured'
    BY <1>4 DEF CreateEntry
  <2>2. w \notin spoiled => held[w] # "deleted"
    BY DEF SeedInv
  <2> QED BY <2>1, <2>2, NextEntryTypes, NextEntryKeeps
<1>5. CASE SkipEntry(w)
  BY <1>5, NextEntryTypes, NextEntryKeeps DEF SkipEntry
<1>6. CASE StopWorker(w)
  <2>1. /\ step' = [step EXCEPT ![w] = "off"] /\ todo' = [todo EXCEPT ![w] = <<>>]
        /\ held' = [held EXCEPT ![w] = "none"] /\ UNCHANGED <<configured, spoiled>>
        /\ <<>> \in Seq(Entries)
    BY <1>6 DEF StopWorker
  <2>2. ConfigTypeOK'
    BY <2>1 DEF ConfigTypeOK, Passed
  <2>3. SeedInv'
    BY <2>1 DEF ConfigTypeOK, SeedInv, Passed, Entry
  <2> QED BY <2>2, <2>3
<1> QED BY <1>1, <1>2, <1>3, <1>4, <1>5, <1>6 DEF Seed

LEMMA ConfiguringKeeps ==
  ASSUME BucketsListed, ConfigInv, Configuring
  PROVE  ConfigInv'
<1> USE DEF ConfigInv
<1>1. ASSUME NEW w \in Starters, Seed(w)
      PROVE  ConfigInv'
  BY <1>1, SeedKeeps
<1>2. ASSUME UNCHANGED <<step, todo, held, spoiled>>, configured \subseteq configured'
      PROVE  ConfigInv'
  BY <1>2 DEF ConfigTypeOK, SeedInv, Passed, Entry
<1>3. ASSUME UNCHANGED <<step, todo>>, spoiled' = Starters,
             \A w \in Starters : held'[w] = held[w] \/ (held[w] = "live" /\ held'[w] = "deleted"),
             held' \in [Starters -> {"none", "live", "deleted"}]
      PROVE  ConfigInv'
  <2>1. ConfigTypeOK'
    BY <1>3 DEF ConfigTypeOK, Passed
  <2>2. SeedInv'
    BY <1>3 DEF SeedInv
  <2> QED BY <2>1, <2>2
<1>4. CASE PostAccount \/ PostBucket
  BY <1>2, <1>4 DEF PostAccount, PostBucket, Post
<1>5. ASSUME NEW u \in Operators, DeleteAccount(u) \/ DeleteBucket(u) \/ DeleteFails(u)
      PROVE  ConfigInv'
  <2>1. ASSUME NEW e, FindForDelete(u, e)
        PROVE  ConfigInv'
    BY <1>2, <2>1 DEF FindForDelete
  <2>2. CASE DeleteAccount(u)
    <3>1. CASE \E i \in 1..Len(Accounts) : FindForDelete(u, Accounts[i])
      BY <2>1, <3>1
    <3>2. CASE \E i \in 1..Len(Accounts) : DeleteEntry(u, Accounts[i]) /\ UNCHANGED held
      BY <1>3, <3>2 DEF DeleteEntry, ConfigTypeOK
    <3> QED BY <2>2, <3>1, <3>2 DEF DeleteAccount
  <2>3. CASE DeleteBucket(u)
    <3>1. CASE \E i \in 1..Len(Buckets) : FindForDelete(u, Buckets[i])
      BY <2>1, <3>1
    <3>2. ASSUME NEW i \in 1..Len(Buckets), DeleteEntry(u, Buckets[i]),
                 held' = [w \in Starters |->
                   IF held[w] = "live" /\ BucketOf[Entry(w)] = Buckets[i] THEN "deleted" ELSE held[w]]
          PROVE  ConfigInv'
      <4>1. /\ held' \in [Starters -> {"none", "live", "deleted"}]
            /\ \A w \in Starters : held'[w] = held[w] \/ (held[w] = "live" /\ held'[w] = "deleted")
        BY <3>2 DEF ConfigTypeOK
      <4> QED BY <1>3, <3>2, <4>1 DEF DeleteEntry
    <3> QED BY <2>3, <3>1, <3>2 DEF DeleteBucket
  <2>4. CASE DeleteFails(u)
    BY <1>2, <2>4 DEF DeleteFails
  <2> QED BY <1>5, <2>2, <2>3, <2>4
<1> QED BY <1>1, <1>4, <1>5 DEF Configuring

\* With its bucket listed, an entry of config.yaml that a started worker has passed is in the
\* database, for every number of workers, operators and entries.
LEMMA ConfigStep == BucketsListed /\ ConfigInv /\ [Next]_vars => ConfigInv'
<1> SUFFICES ASSUME BucketsListed, ConfigInv, [Next]_vars PROVE ConfigInv'
  OBVIOUS
<1>1. CASE Configure
  BY <1>1, ConfiguringKeeps DEF Configure
<1>2. CASE UNCHANGED config
  BY <1>2 DEF config, ConfigInv, ConfigTypeOK, SeedInv, Passed, Entry
<1>3. Next => Configure \/ UNCHANGED config
  BY DEF Next, Routes, Editor, Following, Follow, Listing, List, ChangeNet
<1> QED BY <1>1, <1>2, <1>3 DEF vars

LEMMA ConfigStart == Init => ConfigInv
<1>1. <<>> \in Seq(Entries)
  OBVIOUS
<1> QED BY <1>1 DEF Init, ConfigInit, ConfigInv, ConfigTypeOK, SeedInv

\* A worker that has started finds every entry of config.yaml in the database, whatever the
\* other workers and the operators do meanwhile, for every config.yaml whose templates name
\* buckets of the same file.
THEOREM Seeded == BucketsListed /\ Spec => []StartedIsSeeded
<1>1. ConfigInv => StartedIsSeeded
  BY DEF ConfigInv, SeedInv, StartedIsSeeded
<1>2. CASE BucketsListed
  <2>1. ConfigInv /\ [Next]_vars => ConfigInv'
    BY <1>2, ConfigStep
  <2> QED BY <1>1, <2>1, ConfigStart, PTL DEF Spec
<1> QED BY <1>2

-----------------------------------------------------------------------------
(* The routes of the templates.                                              *)

PcType == {"idle", "store", "row", "rollback", "erase", "delete", "find", "write", "update"}
OpType == CreateOp \union PatchOp \union DeleteOp \union {None}

\* A step of c takes it to p, with the request o and the filename f.
Moves(c, p, o, f) ==
  /\ pc' = [pc EXCEPT ![c] = p]
  /\ op' = [op EXCEPT ![c] = o]
  /\ seen' = [seen EXCEPT ![c] = f]

\* What the request and the filename are where the code goes on with them.
Fits(p, o, f) ==
  /\ p \in PcType /\ o \in OpType /\ f \in Files \union {None}
  /\ p \in {"store", "row", "rollback"} => o \in CreateOp /\ f \in Files
  /\ p \in {"find", "write", "update"} => o \in PatchOp
  /\ p \in {"write", "update", "erase"} => f \in Files
  /\ p \in {"delete", "erase"} => o \in DeleteOp

LEMMA MovesTypes ==
  ASSUME StoreTypeOK, UNCHANGED <<area, storage>>, NEW c \in Clients,
         NEW p, NEW o, NEW f, Fits(p, o, f), Moves(c, p, o, f),
         rows' \in [Ids -> Row \union {None}], objects' \in [Files -> Ids \union {None}],
         issued' \subseteq Ids, calls' \subseteq Files \X (Ids \union {None})
  PROVE  StoreTypeOK'
<1>1. /\ pc' \in [Clients -> PcType] /\ op' \in [Clients -> OpType]
      /\ seen' \in [Clients -> Files \union {None}]
      /\ pc'[c] = p /\ op'[c] = o /\ seen'[c] = f
      /\ \A d \in Clients \ {c} : pc'[d] = pc[d] /\ op'[d] = op[d] /\ seen'[d] = seen[d]
  BY DEF StoreTypeOK, Fits, Moves, PcType, OpType
<1>2. \A d \in Clients : Fits(pc'[d], op'[d], seen'[d])
  BY <1>1 DEF StoreTypeOK, Fits, PcType, OpType, Creating, Patching
<1> QED BY <1>1, <1>2 DEF StoreTypeOK, Fits, PcType, OpType, Creating, Patching

LEMMA Here ==
  ASSUME StoreTypeOK, NEW c \in Clients
  PROVE  /\ Fits(pc[c], op[c], seen[c])
         /\ pc = [pc EXCEPT ![c] = pc[c]] /\ op = [op EXCEPT ![c] = op[c]]
         /\ seen = [seen EXCEPT ![c] = seen[c]]
BY DEF StoreTypeOK, Fits, PcType, OpType, Creating, Patching

LEMMA RespondMoves ==
  ASSUME NEW c \in Clients, Respond(c)
  PROVE  Moves(c, "idle", None, None) /\ Fits("idle", None, None)
BY DEF Respond, Goto, Moves, Fits, PcType, OpType

LEMMA GotoMoves ==
  ASSUME StoreTypeOK, NEW c \in Clients, NEW p, Goto(c, p), UNCHANGED <<op, seen>>
  PROVE  Moves(c, p, op[c], seen[c])
BY Here DEF Goto, Moves

LEMMA WriteTypes ==
  ASSUME StoreTypeOK, NEW f \in Files, NEW v \in Ids \union {None},
         Write(f, v) \/ Outlive(f, v) \/ Fails, calls' = calls \/ Outlive(f, v) \/ Fails,
         objects' = objects \/ Write(f, v)
  PROVE  /\ objects' \in [Files -> Ids \union {None}]
         /\ calls' \subseteq Files \X (Ids \union {None})
BY DEF StoreTypeOK, Write, Outlive, Fails

LEMMA Moved ==
  ASSUME StoreTypeOK, NEW c \in Clients, NEW p, NEW o, NEW f, Moves(c, p, o, f)
  PROVE  /\ pc'[c] = p /\ op'[c] = o /\ seen'[c] = f
         /\ \A d \in Clients \ {c} : pc'[d] = pc[d] /\ op'[d] = op[d] /\ seen'[d] = seen[d]
BY DEF StoreTypeOK, Moves

LEMMA RequestKeeps ==
  ASSUME ContentInv, UNCHANGED <<area, storage>>, NEW c \in Clients, Request(c)
  PROVE  StoreTypeOK' /\ TemplatesInv'
<1> USE DEF ContentInv
<1>1. /\ UNCHANGED <<rows, objects, calls, clash>> /\ pc[c] = "idle" /\ area = "templates"
  BY DEF Request
<1>2. ASSUME NEW n \in Names, NEW i \in Ids \ issued,
             Moves(c, "store", [kind |-> "create", id |-> i, name |-> n], Slug[n]),
             issued' = issued \union {i}
      PROVE  StoreTypeOK' /\ TemplatesInv'
  <2> DEFINE o == [kind |-> "create", id |-> i, name |-> n]
  <2>1. Fits("store", o, Slug[n]) /\ o.id = i
    BY DashboardAssumption DEF Fits, PcType, OpType, CreateOp
  <2>2. StoreTypeOK'
    BY <1>1, <1>2, <2>1, MovesTypes DEF StoreTypeOK
  <2>3. /\ pc'[c] = "store" /\ op'[c].id = i
        /\ \A d \in Clients \ {c} : pc'[d] = pc[d] /\ op'[d] = op[d] /\ seen'[d] = seen[d]
    BY <1>2, <2>1, Moved
  <2>4. rows[i] = None /\ \A d \in Clients : pc[d] # "idle" => op[d].id # i
    BY <1>1 DEF TemplatesInv
  <2>5. TemplatesInv'
    BY <1>1, <1>2, <2>3, <2>4 DEF TemplatesInv, RowsKeepContent, Creating, Patching, Using
  <2> QED BY <2>2, <2>5
<1>3. ASSUME NEW i \in issued, NEW o \in PatchOp, o.id = i, o.content = i,
             Moves(c, "find", o, seen[c]), issued' = issued
      PROVE  StoreTypeOK' /\ TemplatesInv'
  <2>1. Fits("find", o, seen[c])
    BY Here DEF Fits, PcType, OpType
  <2>2. StoreTypeOK'
    BY <1>1, <1>3, <2>1, MovesTypes DEF StoreTypeOK
  <2>3. /\ pc'[c] = "find" /\ op'[c] = o
        /\ \A d \in Clients \ {c} : pc'[d] = pc[d] /\ op'[d] = op[d] /\ seen'[d] = seen[d]
    BY <1>3, Moved
  <2>4. TemplatesInv'
    BY <1>1, <1>3, <2>3 DEF TemplatesInv, RowsKeepContent, Creating, Patching, Using
  <2> QED BY <2>2, <2>4
<1>4. ASSUME NEW i \in issued, NEW o \in DeleteOp, o.id = i,
             Moves(c, "delete", o, seen[c]), issued' = issued
      PROVE  StoreTypeOK' /\ TemplatesInv'
  <2>1. Fits("delete", o, seen[c])
    BY Here DEF Fits, PcType, OpType
  <2>2. StoreTypeOK'
    BY <1>1, <1>4, <2>1, MovesTypes DEF StoreTypeOK
  <2>3. /\ pc'[c] = "delete" /\ op'[c] = o
        /\ \A d \in Clients \ {c} : pc'[d] = pc[d] /\ op'[d] = op[d] /\ seen'[d] = seen[d]
    BY <1>4, Moved
  <2>4. TemplatesInv'
    BY <1>1, <1>4, <2>3 DEF TemplatesInv, RowsKeepContent, Creating, Patching, Using
  <2> QED BY <2>2, <2>4
<1>5. CASE \E n \in Names, i \in Ids \ issued :
             /\ op' = [op EXCEPT ![c] = [kind |-> "create", id |-> i, name |-> n]]
             /\ seen' = [seen EXCEPT ![c] = Slug[n]]
             /\ issued' = issued \union {i}
             /\ Goto(c, "store")
  BY <1>2, <1>5 DEF Goto, Moves
<1>6. ASSUME NEW i \in issued, NEW n \in Names \union {None},
             op' = [op EXCEPT ![c] = [kind |-> "patch", id |-> i, name |-> n, content |-> i]],
             Goto(c, "find"), UNCHANGED <<issued, seen>>
      PROVE  StoreTypeOK' /\ TemplatesInv'
  <2> DEFINE o == [kind |-> "patch", id |-> i, name |-> n, content |-> i]
  <2>1. o \in PatchOp /\ o.id = i /\ o.content = i
    BY <1>6 DEF PatchOp, StoreTypeOK
  <2>2. Moves(c, "find", o, seen[c])
    BY <1>6, Here DEF Goto, Moves
  <2> HIDE DEF o
  <2> QED BY <1>3, <1>6, <2>1, <2>2
<1>7. ASSUME NEW i \in issued,
             op' = [op EXCEPT ![c] = [kind |-> "delete", id |-> i]],
             Goto(c, "delete"), UNCHANGED <<issued, seen>>
      PROVE  StoreTypeOK' /\ TemplatesInv'
  <2> DEFINE o == [kind |-> "delete", id |-> i]
  <2>1. o \in DeleteOp /\ o.id = i
    BY <1>7 DEF DeleteOp, StoreTypeOK
  <2>2. Moves(c, "delete", o, seen[c])
    BY <1>7, Here DEF Goto, Moves
  <2> HIDE DEF o
  <2> QED BY <1>4, <1>7, <2>1, <2>2
<1> QED BY <1>5, <1>6, <1>7 DEF Request

\* A request that ends, and perhaps leaves a file as it is, disturbs nothing.
LEMMA RespondKeeps ==
  ASSUME ContentInv, UNCHANGED <<area, storage>>, NEW c \in Clients, Respond(c),
         UNCHANGED <<rows, objects, issued>>, clash \subseteq clash',
         calls' \subseteq Files \X (Ids \union {None})
  PROVE  StoreTypeOK' /\ TemplatesInv'
<1> USE DEF ContentInv
<1>1. Moves(c, "idle", None, None) /\ Fits("idle", None, None)
  BY RespondMoves
<1>2. StoreTypeOK'
  BY <1>1, MovesTypes DEF StoreTypeOK
<1>3. /\ pc'[c] = "idle"
      /\ \A d \in Clients \ {c} : pc'[d] = pc[d] /\ op'[d] = op[d] /\ seen'[d] = seen[d]
  BY <1>1, Moved
<1>4. TemplatesInv'
  BY <1>3 DEF TemplatesInv, RowsKeepContent, Creating, Patching, Using
<1> QED BY <1>2, <1>4

LEMMA StoreContentKeeps ==
  ASSUME ContentInv, UNCHANGED <<area, storage>>, area = "templates",
         NEW c \in Clients, StoreContent(c)
  PROVE  StoreTypeOK' /\ TemplatesInv'
<1> DEFINE f == seen[c]
           i == op[c].id
<1> USE DEF ContentInv
<1>1. /\ UNCHANGED <<rows, issued>> /\ pc[c] = "store"
      /\ f \in Files /\ i \in Ids /\ op[c] \in CreateOp /\ rows[i] = None
  BY DEF StoreContent, StoreTypeOK, TemplatesInv, CreateOp, Creating
<1>2. CASE /\ storage = "LOCAL" => FileIsFree(f)
           /\ Write(f, i) /\ Goto(c, "row")
           /\ clash' = IF storage = "S3" /\ objects[f] # None THEN clash \union {f} ELSE clash
           /\ UNCHANGED <<op, seen, calls>>
  <2>1. Moves(c, "row", op[c], f) /\ Fits("row", op[c], f)
    BY <1>1, <1>2, GotoMoves DEF Fits, PcType, OpType
  <2>2. objects' \in [Files -> Ids \union {None}] /\ objects'[f] = i
        /\ \A g \in Files \ {f} : objects'[g] = objects[g]
    BY <1>1, <1>2 DEF Write, StoreTypeOK
  <2>3. StoreTypeOK'
    BY <1>1, <1>2, <2>1, <2>2, MovesTypes DEF StoreTypeOK
  <2>4. /\ pc'[c] = "row" /\ op'[c] = op[c] /\ seen'[c] = f
        /\ \A d \in Clients \ {c} : pc'[d] = pc[d] /\ op'[d] = op[d] /\ seen'[d] = seen[d]
    BY <2>1, Moved
  <2>5. clash \subseteq clash' /\ (f \notin clash' => objects[f] = None)
    BY <1>2 DEF StoreTypeOK, FileIsFree
  <2>6. \A j \in Ids : rows[j] # None /\ rows[j].file = f => f \in clash'
    BY <2>5, DashboardAssumption DEF TemplatesInv, RowsKeepContent, Ids
  <2>7. \A d \in Clients : Using(d) /\ seen[d] = f => f \in clash'
    <3>1. \A d \in Clients : Using(d) => op[d].id \in Ids
      BY DEF StoreTypeOK, Using, Creating, CreateOp, DeleteOp
    <3> QED BY <2>5, <3>1, DashboardAssumption DEF TemplatesInv, Ids
  <2>8. \A j \in Ids : rows[j] # None => rows[j].file \in Files
    BY DashboardAssumption DEF StoreTypeOK, Row
  <2>9. RowsKeepContent'
    BY <1>1, <2>2, <2>5, <2>6, <2>8 DEF TemplatesInv, RowsKeepContent
  <2>10. \A d \in Clients : Using(d)' => seen'[d] \in Files
    BY <2>3 DEF StoreTypeOK, Using, Creating
  <2>11. \A d \in Clients : Using(d)' /\ seen'[d] \notin clash' =>
           objects'[seen'[d]] = op'[d].id /\ rows'[op'[d].id] = None
    <3> SUFFICES ASSUME NEW d \in Clients, Using(d)', seen'[d] \notin clash'
                 PROVE  objects'[seen'[d]] = op'[d].id /\ rows'[op'[d].id] = None
      OBVIOUS
    <3>1. CASE d = c
      BY <1>1, <2>2, <2>4, <3>1
    <3>2. CASE d # c
      <4>1. Using(d) /\ seen[d] \notin clash' /\ seen[d] # f /\ seen[d] \in Files
        BY <2>4, <2>7, <2>10, <3>2 DEF Using
      <4> QED BY <1>1, <2>2, <2>4, <2>5, <3>2, <4>1 DEF TemplatesInv
    <3> QED BY <3>1, <3>2
  <2>12. \A d \in Clients : d # c /\ Using(d) => op[d].id # i
    BY <1>1 DEF TemplatesInv, Using, Creating
  <2>13. \A d, e \in Clients : d # e /\ Using(d)' /\ Using(e)' /\ op'[d].id = op'[e].id =>
           seen'[d] = seen'[e] /\ seen'[d] \in clash'
    BY <2>4, <2>5, <2>12 DEF TemplatesInv, Using
  <2>14. TemplatesInv'
    BY <1>1, <2>4, <2>9, <2>11, <2>13 DEF TemplatesInv, Creating, Patching
  <2> QED BY <2>3, <2>14
<1>3. CASE Respond(c) /\ UNCHANGED <<objects, calls, clash>>
  BY <1>1, <1>3, RespondKeeps DEF StoreTypeOK
<1>4. CASE Respond(c) /\ (Fails \/ Outlive(f, i)) /\ UNCHANGED clash
  <2>1. objects' = objects /\ calls' \subseteq Files \X (Ids \union {None})
    BY <1>1, <1>4 DEF Fails, Outlive, StoreTypeOK
  <2> QED BY <1>1, <1>4, <2>1, RespondKeeps
<1> QED BY <1>2, <1>3, <1>4 DEF StoreContent

LEMMA InsertRowKeeps ==
  ASSUME ContentInv, UNCHANGED <<area, storage>>, area = "templates",
         NEW c \in Clients, InsertRow(c)
  PROVE  StoreTypeOK' /\ TemplatesInv'
<1> DEFINE f == seen[c]
           i == op[c].id
           r == [name |-> op[c].name, file |-> f]
<1> USE DEF ContentInv
<1>1. /\ UNCHANGED <<objects, issued, calls>> /\ pc[c] = "row" /\ f \in Files /\ i \in Ids
      /\ op[c] \in CreateOp /\ rows[i] = None /\ i \in issued
      /\ r \in Row /\ r # None /\ r.file = f
      /\ f \notin clash => objects[f] = i
  BY DashboardAssumption DEF InsertRow, StoreTypeOK, TemplatesInv, CreateOp, Creating, Using, Row
<1>2. CASE UNCHANGED <<rows, op, seen, clash>> /\ Goto(c, "rollback")
  <2>1. Moves(c, "rollback", op[c], f) /\ Fits("rollback", op[c], f)
    BY <1>1, <1>2, GotoMoves DEF Fits, PcType, OpType
  <2>2. StoreTypeOK'
    BY <1>1, <1>2, <2>1, MovesTypes DEF StoreTypeOK
  <2>3. /\ pc'[c] = "rollback" /\ op' = op /\ seen' = seen
        /\ \A d \in Clients \ {c} : pc'[d] = pc[d]
    BY <1>2, <2>1, Moved
  <2>4. TemplatesInv'
    BY <1>1, <1>2, <2>3 DEF TemplatesInv, RowsKeepContent, Creating, Patching, Using
  <2> QED BY <2>2, <2>4
<1>3. CASE /\ rows' = [rows EXCEPT ![i] = r]
           /\ \/ Respond(c) /\ UNCHANGED clash
              \/ /\ Goto(c, "rollback") /\ clash' = clash \union {f} /\ UNCHANGED <<op, seen>>
  <2>1. PICK p \in {"idle", "rollback"}, o \in {None, op[c]}, g \in {None, f} :
          /\ Moves(c, p, o, g) /\ Fits(p, o, g)
          /\ p = "rollback" => o = op[c] /\ g = f /\ f \in clash'
    <3>1. CASE Respond(c)
      BY <3>1, RespondMoves
    <3>2. CASE Goto(c, "rollback") /\ clash' = clash \union {f} /\ UNCHANGED <<op, seen>>
      <4>1. Moves(c, "rollback", op[c], f) /\ Fits("rollback", op[c], f)
        BY <1>1, <3>2, GotoMoves DEF Fits, PcType, OpType
      <4> QED BY <3>2, <4>1
    <3> QED BY <1>3, <3>1, <3>2
  <2>2. rows' \in [Ids -> Row \union {None}] /\ rows'[i] = r
        /\ \A j \in Ids \ {i} : rows'[j] = rows[j]
    BY <1>1, <1>3 DEF StoreTypeOK
  <2>3. StoreTypeOK'
    BY <1>1, <2>1, <2>2, MovesTypes DEF StoreTypeOK
  <2>4. /\ pc'[c] = p /\ op'[c] = o /\ seen'[c] = g
        /\ \A d \in Clients \ {c} : pc'[d] = pc[d] /\ op'[d] = op[d] /\ seen'[d] = seen[d]
    BY <2>1, Moved
  <2>5. clash \subseteq clash'
    BY <1>3
  <2>6. RowsKeepContent'
    BY <1>1, <2>2, <2>5 DEF TemplatesInv, RowsKeepContent
  <2>7. \A d \in Clients \ {c} : (Creating(d) \/ pc[d] \in {"write", "update", "erase"}) => op[d].id # i
    BY <1>1 DEF TemplatesInv, Creating
  <2>8. \A d \in Clients : pc[d] # "idle" => op[d].id \in Ids
    BY DEF TemplatesInv, StoreTypeOK
  <2>9. \A d \in Clients : pc'[d] \in {"write", "update", "rollback", "erase"} =>
          rows'[op'[d].id] = None \/ rows'[op'[d].id].file = seen'[d]
    <3>1. \A d \in Clients \ {c} : pc[d] \in {"write", "update", "rollback", "erase"} => op[d].id # i
      BY <2>7 DEF Creating
    <3>2. \A d \in Clients \ {c} : pc[d] \in {"write", "update", "rollback", "erase"} =>
            rows[op[d].id] = None \/ rows[op[d].id].file = seen[d]
      BY DEF TemplatesInv
    <3>3. pc'[c] \in {"write", "update", "rollback", "erase"} => rows'[op'[c].id].file = seen'[c]
      BY <1>1, <2>1, <2>2, <2>4
    <3> QED BY <2>2, <2>4, <2>8, <3>1, <3>2, <3>3
  <2>10. \A d \in Clients : Using(d)' /\ seen'[d] \notin clash' =>
           objects'[seen'[d]] = op'[d].id /\ rows'[op'[d].id] = None
    BY <1>1, <2>1, <2>2, <2>4, <2>5, <2>7, <2>8 DEF TemplatesInv, Using, Creating
  <2>11. \A d, e \in Clients : d # e /\ Using(d)' /\ Using(e)' /\ op'[d].id = op'[e].id =>
           seen'[d] = seen'[e] /\ seen'[d] \in clash'
    BY <1>1, <2>1, <2>4, <2>5, <2>7 DEF TemplatesInv, Using, Creating
  <2>12. /\ \A j \in Ids : rows'[j] # None => j \in issued'
         /\ \A d \in Clients : pc'[d] # "idle" => op'[d].id \in issued'
         /\ \A d \in Clients : pc'[d] \in {"store", "row"} => rows'[op'[d].id] = None
    BY <1>1, <2>1, <2>2, <2>4, <2>7, <2>8 DEF TemplatesInv, Creating
  <2>13. /\ \A d, e \in Clients : d # e /\ Creating(d)' /\ Creating(e)' => op'[d].id # op'[e].id
         /\ \A d, e \in Clients : pc'[d] \in {"store", "row"} /\ pc'[e] \in {"write", "update", "erase"} =>
              op'[d].id # op'[e].id
         /\ \A d \in Clients : Patching(d)' => op'[d].content = op'[d].id
    BY <1>1, <2>1, <2>4 DEF TemplatesInv, Creating, Patching
  <2>14. TemplatesInv'
    BY <2>6, <2>9, <2>10, <2>11, <2>12, <2>13 DEF TemplatesInv
  <2> QED BY <2>3, <2>14
<1> QED BY <1>1, <1>2, <1>3 DEF InsertRow

LEMMA RemoveKeeps ==
  ASSUME ContentInv, UNCHANGED <<area, storage>>, area = "templates",
         NEW c \in Clients, Remove(c)
  PROVE  StoreTypeOK' /\ TemplatesInv'
<1> DEFINE f == seen[c]
           i == op[c].id
<1> USE DEF ContentInv
<1>1. /\ UNCHANGED <<rows, issued, clash>> /\ Respond(c) /\ Using(c) /\ f \in Files
      /\ f \notin clash => objects[f] = i /\ rows[i] = None
  BY DEF Remove, StoreTypeOK, TemplatesInv, Using, Creating
<1>2. CASE Fails \/ Outlive(f, None)
  <2>1. objects' = objects /\ calls' \subseteq Files \X (Ids \union {None})
    BY <1>1, <1>2 DEF Fails, Outlive, StoreTypeOK
  <2> QED BY <1>1, <2>1, RespondKeeps
<1>3. CASE Write(f, None) /\ UNCHANGED calls
  <2>1. Moves(c, "idle", None, None) /\ Fits("idle", None, None)
    BY <1>1, RespondMoves
  <2>2. objects' \in [Files -> Ids \union {None}]
        /\ \A g \in Files \ {f} : objects'[g] = objects[g]
    BY <1>1, <1>3 DEF Write, StoreTypeOK
  <2>3. StoreTypeOK'
    BY <1>1, <1>3, <2>1, <2>2, MovesTypes DEF StoreTypeOK
  <2>4. /\ pc'[c] = "idle"
        /\ \A d \in Clients \ {c} : pc'[d] = pc[d] /\ op'[d] = op[d] /\ seen'[d] = seen[d]
    BY <2>1, Moved
  <2>5. \A j \in Ids : rows[j] # None /\ rows[j].file = f => f \in clash
    BY <1>1 DEF TemplatesInv, RowsKeepContent
  <2>6. \A j \in Ids : rows[j] # None => rows[j].file \in Files
    BY DashboardAssumption DEF StoreTypeOK, Row
  <2>7. RowsKeepContent'
    BY <1>1, <2>2, <2>5, <2>6 DEF TemplatesInv, RowsKeepContent
  <2>8. \A d \in Clients \ {c} : Using(d) /\ seen[d] = f => f \in clash
    BY <1>1 DEF TemplatesInv
  <2>9. \A d \in Clients : Using(d) => seen[d] \in Files
    BY DEF StoreTypeOK, Using, Creating
  <2>10. \A d \in Clients : Using(d)' /\ seen'[d] \notin clash' =>
           objects'[seen'[d]] = op'[d].id /\ rows'[op'[d].id] = None
    BY <1>1, <2>2, <2>4, <2>8, <2>9 DEF TemplatesInv, Using
  <2>11. TemplatesInv'
    BY <1>1, <2>4, <2>7, <2>10 DEF TemplatesInv, Using, Creating, Patching
  <2> QED BY <2>3, <2>11
<1> QED BY <1>2, <1>3 DEF Remove

LEMMA DeleteRowKeeps ==
  ASSUME ContentInv, UNCHANGED <<area, storage>>, area = "templates",
         NEW c \in Clients, DeleteRow(c)
  PROVE  StoreTypeOK' /\ TemplatesInv'
<1> DEFINE i == op[c].id
           f == rows[i].file
<1> USE DEF ContentInv
<1>1. /\ UNCHANGED <<objects, issued, calls, clash>> /\ pc[c] = "delete"
      /\ op[c] \in DeleteOp /\ i \in Ids /\ i \in issued
  BY DEF DeleteRow, StoreTypeOK, TemplatesInv, DeleteOp
<1>2. CASE Respond(c) /\ UNCHANGED rows
  BY <1>1, <1>2, RespondKeeps DEF StoreTypeOK
<1>3. CASE /\ rows[i] # None /\ seen' = [seen EXCEPT ![c] = f]
           /\ rows' = [rows EXCEPT ![i] = None] /\ Goto(c, "erase") /\ UNCHANGED op
  <2>1. f \in Files
    BY <1>1, <1>3 DEF StoreTypeOK, Row
  <2>2. Moves(c, "erase", op[c], f) /\ Fits("erase", op[c], f)
    BY <1>1, <1>3, <2>1, Here DEF Goto, Moves, Fits, PcType, OpType
  <2>3. rows' \in [Ids -> Row \union {None}] /\ rows'[i] = None
        /\ \A j \in Ids \ {i} : rows'[j] = rows[j]
    BY <1>1, <1>3 DEF StoreTypeOK
  <2>4. StoreTypeOK'
    BY <1>1, <2>2, <2>3, MovesTypes DEF StoreTypeOK
  <2>5. /\ pc'[c] = "erase" /\ op' = op /\ seen'[c] = f
        /\ \A d \in Clients \ {c} : pc'[d] = pc[d] /\ seen'[d] = seen[d]
    BY <1>3, <2>2, Moved
  <2>6. \A d \in Clients : pc[d] # "idle" => op[d].id \in Ids
    BY DEF TemplatesInv, StoreTypeOK
  <2>7. f \notin clash => objects[f] = i
    BY <1>1, <1>3 DEF TemplatesInv, RowsKeepContent
  <2>8. \A d \in Clients \ {c} : Using(d) /\ op[d].id = i => seen[d] = f /\ f \in clash
    BY <1>1, <1>3 DEF TemplatesInv, Using
  <2>9. RowsKeepContent'
    BY <1>1, <2>3 DEF TemplatesInv, RowsKeepContent
  <2>10. /\ \A j \in Ids : rows'[j] # None => j \in issued'
         /\ \A d \in Clients : pc'[d] # "idle" => op'[d].id \in issued'
         /\ \A d \in Clients : pc'[d] \in {"store", "row"} => rows'[op'[d].id] = None
    BY <1>1, <2>3, <2>5, <2>6 DEF TemplatesInv
  <2>11. /\ \A d, e \in Clients : d # e /\ Creating(d)' /\ Creating(e)' => op'[d].id # op'[e].id
         /\ \A d \in Clients : Patching(d)' => op'[d].content = op'[d].id
    BY <2>5 DEF TemplatesInv, Creating, Patching
  <2>12. \A d, e \in Clients : pc'[d] \in {"store", "row"} /\ pc'[e] \in {"write", "update", "erase"} =>
           op'[d].id # op'[e].id
    BY <1>1, <1>3, <2>5 DEF TemplatesInv
  <2>13. \A d \in Clients : pc'[d] \in {"write", "update", "rollback", "erase"} =>
           rows'[op'[d].id] = None \/ rows'[op'[d].id].file = seen'[d]
    BY <2>3, <2>5, <2>6 DEF TemplatesInv
  <2>14. \A d \in Clients : Using(d)' /\ seen'[d] \notin clash' =>
           objects'[seen'[d]] = op'[d].id /\ rows'[op'[d].id] = None
    BY <1>1, <2>3, <2>5, <2>6, <2>7 DEF TemplatesInv, Using
  <2>15. \A d, e \in Clients : d # e /\ Using(d)' /\ Using(e)' /\ op'[d].id = op'[e].id =>
           seen'[d] = seen'[e] /\ seen'[d] \in clash'
    BY <1>1, <2>5, <2>8 DEF TemplatesInv, Using
  <2>16. TemplatesInv'
    BY <2>9, <2>10, <2>11, <2>12, <2>13, <2>14, <2>15 DEF TemplatesInv
  <2> QED BY <2>4, <2>16
<1> QED BY <1>2, <1>3 DEF DeleteRow

\* The same for the dialog.
LEMMA RespondKeepsEditor ==
  ASSUME ContentInv, UNCHANGED <<area, storage>>, NEW c \in Clients, Respond(c),
         UNCHANGED <<rows, objects, issued, calls, dialog>>
  PROVE  EditorInv'
<1>1. /\ pc'[c] = "idle"
      /\ \A d \in Clients \ {c} : pc'[d] = pc[d] /\ op'[d] = op[d] /\ seen'[d] = seen[d]
  BY RespondMoves, Moved DEF ContentInv
<1> QED BY <1>1 DEF ContentInv, EditorInv, ContentStays, Patching, dialog

LEMMA FindRowKeeps ==
  ASSUME ContentInv, UNCHANGED <<area, storage, dialog>>, NEW c \in Clients, FindRow(c)
  PROVE  StoreTypeOK' /\ TemplatesInv' /\ EditorInv'
<1> DEFINE i == op[c].id
           f == rows[i].file
<1> USE DEF ContentInv
<1>1. /\ UNCHANGED <<rows, objects, issued, calls, clash>> /\ pc[c] = "find"
      /\ op[c] \in PatchOp /\ i \in Ids
  BY DEF FindRow, StoreTypeOK, Patching, PatchOp
<1>2. CASE Respond(c)
  BY <1>1, <1>2, RespondKeeps, RespondKeepsEditor DEF StoreTypeOK
<1>3. CASE rows[i] # None /\ seen' = [seen EXCEPT ![c] = f] /\ Goto(c, "write") /\ UNCHANGED op
  <2>1. f \in Files
    BY <1>1, <1>3 DEF StoreTypeOK, Row
  <2>2. Moves(c, "write", op[c], f) /\ Fits("write", op[c], f)
    BY <1>1, <1>3, <2>1, Here DEF Goto, Moves, Fits, PcType, OpType
  <2>3. StoreTypeOK'
    BY <1>1, <2>2, MovesTypes DEF StoreTypeOK
  <2>4. /\ pc'[c] = "write" /\ op' = op /\ seen'[c] = f
        /\ \A d \in Clients \ {c} : pc'[d] = pc[d] /\ seen'[d] = seen[d]
    BY <1>3, <2>2, Moved
  <2>5. ASSUME area = "templates"
        PROVE  \A d, e \in Clients : pc'[d] \in {"store", "row"} /\ pc'[e] \in {"write", "update", "erase"} =>
                 op'[d].id # op'[e].id
    BY <1>1, <1>3, <2>4, <2>5 DEF TemplatesInv
  <2>6. TemplatesInv'
    BY <1>1, <2>4, <2>5 DEF TemplatesInv, RowsKeepContent, Creating, Patching, Using
  <2>7. EditorInv'
    BY <1>1, <2>4 DEF EditorInv, ContentStays, Patching, dialog
  <2> QED BY <2>3, <2>6, <2>7
<1> QED BY <1>2, <1>3, <1>1 DEF FindRow

LEMMA WriteContentKeeps ==
  ASSUME ContentInv, UNCHANGED <<area, storage, dialog>>, NEW c \in Clients, WriteContent(c)
  PROVE  StoreTypeOK' /\ TemplatesInv' /\ EditorInv'
<1> DEFINE i == op[c].id
           f == seen[c]
           v == op[c].content
<1> USE DEF ContentInv
<1>1. /\ UNCHANGED <<rows, issued>> /\ pc[c] = "write" /\ f \in Files
      /\ op[c] \in PatchOp /\ i \in Ids /\ v \in Ids \union {None}
      /\ clash' = IF rows[i] = None THEN clash \union {f} ELSE clash
  BY DEF WriteContent, StoreTypeOK, Patching, PatchOp
<1>2. CASE Respond(c) /\ (Fails \/ Outlive(f, v))
  <2>1. objects' = objects /\ calls' \subseteq Files \X (Ids \union {None})
    BY <1>1, <1>2 DEF Fails, Outlive, StoreTypeOK
  <2>2. StoreTypeOK' /\ TemplatesInv'
    BY <1>1, <1>2, <2>1, RespondKeeps
  <2>3. area = "editor" => calls' = calls
    BY <1>2 DEF EditorInv, Outlive, Fails
  <2>4. EditorInv'
    BY <1>1, <1>2, <2>1, <2>3, RespondKeepsEditor DEF EditorInv
  <2> QED BY <2>2, <2>4
<1>3. CASE Write(f, v) /\ Goto(c, "update") /\ UNCHANGED <<op, seen, calls>>
  <2>1. Moves(c, "update", op[c], f) /\ Fits("update", op[c], f)
    BY <1>1, <1>3, GotoMoves DEF Fits, PcType, OpType
  <2>2. objects' \in [Files -> Ids \union {None}] /\ objects'[f] = v
        /\ \A g \in Files \ {f} : objects'[g] = objects[g]
    BY <1>1, <1>3 DEF Write, StoreTypeOK
  <2>3. StoreTypeOK'
    BY <1>1, <1>3, <2>1, <2>2, MovesTypes DEF StoreTypeOK
  <2>4. /\ pc'[c] = "update" /\ op' = op /\ seen' = seen
        /\ \A d \in Clients \ {c} : pc'[d] = pc[d]
    BY <1>3, <2>1, Moved
  <2>5. \A j \in Ids : rows[j] # None => rows[j].file \in Files
    BY DashboardAssumption DEF StoreTypeOK, Row
  <2>6. ASSUME area = "templates"
        PROVE  TemplatesInv'
    <3>1. v = i /\ (rows[i] = None \/ rows[i].file = f)
      BY <1>1, <2>6 DEF TemplatesInv, Patching
    <3>2. clash \subseteq clash' /\ (f \notin clash' => rows[i] # None /\ f \notin clash)
      BY <1>1
    <3>3. f \notin clash' => objects[f] = i
      BY <1>1, <2>6, <3>1, <3>2 DEF TemplatesInv, RowsKeepContent
    <3>4. RowsKeepContent'
      BY <1>1, <2>2, <2>5, <2>6, <3>1, <3>2, <3>3 DEF TemplatesInv, RowsKeepContent
    <3>5. \A d \in Clients : Using(d) => seen[d] \in Files
      BY DEF StoreTypeOK, Using, Creating
    <3>6. \A d \in Clients : Using(d) /\ seen[d] = f => f \in clash'
      BY <2>6, <3>2, <3>3 DEF TemplatesInv
    <3>7. \A d \in Clients : Using(d)' <=> Using(d)
      BY <1>1, <2>4 DEF Using
    <3>8. \A d \in Clients : Using(d)' /\ seen'[d] \notin clash' =>
            objects'[seen'[d]] = op'[d].id /\ rows'[op'[d].id] = None
      BY <1>1, <2>2, <2>4, <2>6, <3>2, <3>5, <3>6, <3>7 DEF TemplatesInv
    <3>9. \A d \in Clients : Creating(d)' <=> Creating(d)
      BY <1>1, <2>4 DEF Creating
    <3>10. \A d \in Clients : Patching(d)' <=> Patching(d)
      BY <1>1, <2>4 DEF Patching
    <3> QED BY <1>1, <2>4, <2>6, <3>2, <3>4, <3>7, <3>8, <3>9, <3>10 DEF TemplatesInv
  <2>7. ASSUME area = "editor"
        PROVE  EditorInv'
    <3>1. f = rows[i].file /\ rows[i] # None
      BY <1>1, <2>7 DEF EditorInv
    <3>2. ~slip => v = i /\ objects[f] = i
      BY <1>1, <2>7, <3>1 DEF EditorInv, ContentStays, Patching
    <3>3. ~slip => ContentStays'
      BY <1>1, <2>2, <2>5, <2>7, <3>2 DEF EditorInv, ContentStays
    <3>4. \A d \in Clients : (Patching(d)' <=> Patching(d)) /\ (pc'[d] = "idle" <=> pc[d] = "idle")
      BY <1>1, <2>4 DEF Patching
    <3> QED BY <1>1, <1>3, <2>4, <2>7, <3>3, <3>4 DEF EditorInv, dialog
  <2>8. TemplatesInv' /\ EditorInv'
    BY <2>6, <2>7 DEF TemplatesInv, EditorInv
  <2> QED BY <2>3, <2>8
<1> QED BY <1>2, <1>3 DEF WriteContent

LEMMA UpdateRowKeeps ==
  ASSUME ContentInv, UNCHANGED <<area, storage, dialog>>, NEW c \in Clients, UpdateRow(c)
  PROVE  StoreTypeOK' /\ TemplatesInv' /\ EditorInv'
<1> DEFINE i == op[c].id
           n == op[c].name
<1> USE DEF ContentInv
<1>1. /\ UNCHANGED <<objects, issued, calls, clash>> /\ pc[c] = "update" /\ Respond(c)
      /\ op[c] \in PatchOp /\ i \in Ids
  BY DEF UpdateRow, StoreTypeOK, Patching, PatchOp
<1>2. CASE UNCHANGED rows
  BY <1>1, <1>2, RespondKeeps, RespondKeepsEditor DEF StoreTypeOK
<1>3. CASE rows[i] # None /\ n \in Names /\ rows' = [rows EXCEPT ![i].name = n]
  <2>1. rows[i] \in Row /\ rows'[i] = [rows[i] EXCEPT !.name = n] /\ \A j \in Ids \ {i} : rows'[j] = rows[j]
    BY <1>1, <1>3 DEF StoreTypeOK
  <2>2. rows'[i] \in Row /\ rows'[i].file = rows[i].file /\ rows'[i] # None
    BY <1>3, <2>1, DashboardAssumption DEF Row
  <2>3. rows' \in [Ids -> Row \union {None}]
    BY <1>1, <1>3, <2>1, <2>2 DEF StoreTypeOK
  <2>4. Moves(c, "idle", None, None) /\ Fits("idle", None, None)
    BY <1>1, RespondMoves
  <2>5. StoreTypeOK'
    BY <1>1, <2>3, <2>4, MovesTypes DEF StoreTypeOK
  <2>6. /\ pc'[c] = "idle"
        /\ \A d \in Clients \ {c} : pc'[d] = pc[d] /\ op'[d] = op[d] /\ seen'[d] = seen[d]
    BY <2>4, Moved
  <2>7. \A j \in Ids : (rows'[j] = None <=> rows[j] = None) /\ (rows[j] # None => rows'[j].file = rows[j].file)
    BY <1>3, <2>1, <2>2
  <2>8. ASSUME area = "templates"
        PROVE  TemplatesInv'
    <3>1. \A d \in Clients : pc'[d] # "idle" => d # c /\ op'[d].id \in Ids
      BY <2>6, <2>8 DEF TemplatesInv, StoreTypeOK
    <3>2. RowsKeepContent'
      BY <1>1, <2>7, <2>8 DEF TemplatesInv, RowsKeepContent
    <3>3. \A d \in Clients : Using(d)' => Using(d) /\ d # c /\ op'[d].id \in Ids
      BY <2>6, <3>1 DEF Using
    <3>4. /\ \A d \in Clients : pc'[d] \in {"write", "update", "rollback", "erase"} =>
               rows'[op'[d].id] = None \/ rows'[op'[d].id].file = seen'[d]
          /\ \A d \in Clients : pc'[d] \in {"store", "row"} => rows'[op'[d].id] = None
      BY <2>6, <2>7, <2>8, <3>1 DEF TemplatesInv
    <3>5. \A d \in Clients : Using(d)' /\ seen'[d] \notin clash' =>
            objects'[seen'[d]] = op'[d].id /\ rows'[op'[d].id] = None
      BY <1>1, <2>6, <2>7, <2>8, <3>3 DEF TemplatesInv
    <3>6. \A d \in Clients : (Creating(d)' => Creating(d) /\ d # c) /\ (Patching(d)' => Patching(d) /\ d # c)
      BY <2>6 DEF Creating, Patching
    <3> QED BY <1>1, <2>6, <2>7, <2>8, <3>2, <3>3, <3>4, <3>5, <3>6 DEF TemplatesInv
  <2>9. EditorInv'
    BY <1>1, <1>3, DashboardAssumption DEF EditorInv
  <2>10. TemplatesInv'
    BY <2>8 DEF TemplatesInv
  <2> QED BY <2>5, <2>9, <2>10
<1> QED BY <1>2, <1>3 DEF UpdateRow

LEMMA LandKeeps ==
  ASSUME ContentInv, UNCHANGED <<area, storage, dialog>>, Land
  PROVE  StoreTypeOK' /\ TemplatesInv' /\ EditorInv'
<1> USE DEF ContentInv
<1>1. PICK k \in calls : calls' = calls \ {k} /\ Write(k[1], k[2]) /\ clash' = clash \union {k[1]}
  BY DEF Land
<1>2. UNCHANGED <<rows, issued, op, pc, seen>> /\ k[1] \in Files /\ k[2] \in Ids \union {None}
  BY DEF Land, StoreTypeOK
<1>3. objects' \in [Files -> Ids \union {None}] /\ \A g \in Files \ {k[1]} : objects'[g] = objects[g]
  BY <1>1, <1>2 DEF Write, StoreTypeOK
<1>4. StoreTypeOK'
  BY <1>1, <1>2, <1>3 DEF StoreTypeOK, Creating, Patching
<1>5. \A j \in Ids : rows[j] # None => rows[j].file \in Files
  BY DashboardAssumption DEF StoreTypeOK, Row
<1>6. RowsKeepContent' \/ area # "templates"
  BY <1>1, <1>2, <1>3, <1>5 DEF TemplatesInv, RowsKeepContent
<1>7. \A d \in Clients : Using(d) => seen[d] \in Files
  BY DEF StoreTypeOK, Using, Creating
<1>8. area = "templates" => \A d \in Clients : Using(d)' /\ seen'[d] \notin clash' =>
        objects'[seen'[d]] = op'[d].id /\ rows'[op'[d].id] = None
  BY <1>1, <1>2, <1>3, <1>7 DEF TemplatesInv, Using
<1>9. TemplatesInv'
  BY <1>1, <1>2, <1>6, <1>8 DEF TemplatesInv, Creating, Patching, Using
<1>10. EditorInv'
  BY <1>1 DEF EditorInv
<1> QED BY <1>4, <1>9, <1>10

LEMMA RoutesKeep == ContentInv /\ Routes => ContentInv'
<1> SUFFICES ASSUME ContentInv, Routes PROVE ContentInv'
  OBVIOUS
<1> USE DEF ContentInv
<1>1. UNCHANGED <<area, storage, dialog>>
  BY DEF Routes
<1>2. ASSUME NEW c \in Clients, Request(c)
      PROVE  ContentInv'
  <2>1. StoreTypeOK' /\ TemplatesInv'
    BY <1>1, <1>2, RequestKeeps
  <2>2. area = "templates"
    BY <1>2 DEF Request
  <2> QED BY <1>1, <2>1, <2>2 DEF EditorInv, OnlyThere
<1>3. ASSUME NEW c \in Clients, Serve(c)
      PROVE  ContentInv'
  <2>1. pc[c] # "idle"
    BY <1>3 DEF Serve, StoreContent, InsertRow, Remove, DeleteRow, FindRow, WriteContent, UpdateRow
  <2>2. OnlyThere'
    BY <1>1, <2>1 DEF OnlyThere
  <2>3. CASE area = "templates"
    <3>1. StoreTypeOK' /\ TemplatesInv'
      BY <1>1, <1>3, <2>3, StoreContentKeeps, InsertRowKeeps, RemoveKeeps, DeleteRowKeeps,
         FindRowKeeps, WriteContentKeeps, UpdateRowKeeps DEF Serve
    <3> QED BY <1>1, <2>2, <2>3, <3>1 DEF EditorInv
  <2>4. CASE area = "editor"
    <3>1. Patching(c)
      BY <2>1, <2>4 DEF EditorInv
    <3>2. FindRow(c) \/ WriteContent(c) \/ UpdateRow(c)
      BY <1>3, <3>1 DEF Serve, Patching, StoreContent, InsertRow, Remove, DeleteRow
    <3> QED BY <1>1, <2>2, <3>2, FindRowKeeps, WriteContentKeeps, UpdateRowKeeps
  <2> QED BY <2>1, <2>3, <2>4 DEF OnlyThere
<1>4. CASE Land
  BY <1>1, <1>4, LandKeeps DEF OnlyThere, Land
<1> QED BY <1>2, <1>3, <1>4 DEF Routes

LEMMA SaveKeeps ==
  ASSUME ContentInv, UNCHANGED <<area, storage>>, area = "editor", NEW c \in Clients, Save(c)
  PROVE  ContentInv'
<1> DEFINE o == [kind |-> "patch", id |-> target, name |-> None, content |-> text]
<1> USE DEF ContentInv
<1>1. /\ UNCHANGED <<rows, objects, issued, seen, calls, clash, dialog>> /\ pc[c] = "idle"
      /\ target \in Ids /\ text \in Ids \union {None} /\ (~slip => text = target)
  BY DEF Save, SaveEnabled, EditorInv
<1>2. o \in PatchOp /\ o.id = target /\ o.content = text /\ o.name = None
  BY <1>1 DEF PatchOp
<1>3. Moves(c, "find", o, seen[c])
  BY Here DEF Save, Goto, Moves
<1> HIDE DEF o
<1>4. Fits("find", o, seen[c])
  BY <1>2, Here DEF Fits, PcType, OpType
<1>5. StoreTypeOK'
  BY <1>1, <1>3, <1>4, MovesTypes DEF StoreTypeOK
<1>6. /\ pc'[c] = "find" /\ op'[c] = o
      /\ \A d \in Clients \ {c} : pc'[d] = pc[d] /\ op'[d] = op[d] /\ seen'[d] = seen[d]
  BY <1>3, Moved
<1>7. EditorInv'
  BY <1>1, <1>2, <1>6 DEF EditorInv, ContentStays, Patching, dialog
<1> QED BY <1>5, <1>7 DEF TemplatesInv, OnlyThere

LEMMA EditorKeeps == ContentInv /\ Editor => ContentInv'
<1> SUFFICES ASSUME ContentInv, Editor PROVE ContentInv'
  OBVIOUS
<1> USE DEF ContentInv
<1>1. UNCHANGED <<area, storage>>
  BY DEF Editor
<1>2. ASSUME UNCHANGED store, EditorInv'
      PROVE  ContentInv'
  BY <1>1, <1>2 DEF store, StoreTypeOK, TemplatesInv, RowsKeepContent, Creating, Patching, Using, OnlyThere
<1>3. ASSUME NEW i \in issued, Open(i)
      PROVE  ContentInv'
  BY <1>1, <1>2, <1>3 DEF Open, store, EditorInv, ContentStays, Patching
<1>4. ASSUME NEW i \in issued, Loaded(i)
      PROVE  ContentInv'
  <2>1. /\ UNCHANGED store /\ target' = target /\ loads' = loads \ {i} /\ i \in Ids
        /\ text' \in {objects[rows[i].file], None}
        /\ slip' = (slip \/ (target # None /\ target # i) \/ text' = None)
    BY <1>4 DEF Loaded, StoreTypeOK
  <2>2. area = "editor" => objects[rows[i].file] \in Ids \union {None} /\ rows[i] # None
    BY <2>1, DashboardAssumption DEF EditorInv, StoreTypeOK, Row
  <2>3. area = "editor" /\ ~slip => objects[rows[i].file] = i
    BY <2>1, <2>2 DEF EditorInv, ContentStays
  <2>4. EditorInv'
    BY <1>1, <2>1, <2>2, <2>3 DEF store, EditorInv, ContentStays, Patching
  <2> QED BY <1>2, <2>1, <2>4
<1>5. CASE Close
  BY <1>1, <1>2, <1>5 DEF Close, store, EditorInv, ContentStays, Patching
<1> QED BY <1>1, <1>3, <1>4, <1>5, SaveKeeps DEF Editor

LEMMA ContentStart == Init => ContentInv
<1> SUFFICES ASSUME Init PROVE ContentInv
  OBVIOUS
<1>1. StoreTypeOK
  BY DEF Init, StoreTypeOK, Row, Creating, Patching
<1>2. TemplatesInv
  BY DEF Init, TemplatesInv, RowsKeepContent, Creating, Patching, Using
<1>3. EditorInv
  <2>1. area = "editor" => \A i \in Ids : rows[i] \in Row /\ rows[i] # None
    BY DashboardAssumption DEF Init, Row
  <2>2. area = "editor" => ContentStays /\ storage = "LOCAL" /\ issued = Ids
    BY DEF Init, ContentStays
  <2>3. /\ \A c \in Clients : pc[c] = "idle"
        /\ calls = {} /\ target = None /\ text = None /\ loads = {}
    BY DEF Init
  <2> QED BY <2>1, <2>2, <2>3 DEF EditorInv, Patching
<1> QED BY <1>1, <1>2, <1>3 DEF Init, ContentInv, OnlyThere

LEMMA ContentStep == ContentInv /\ [Next]_vars => ContentInv'
<1> SUFFICES ASSUME ContentInv, [Next]_vars PROVE ContentInv'
  OBVIOUS
<1>1. Next => Routes \/ Editor \/ UNCHANGED <<area, storage, store, dialog>>
  BY DEF Next, Following, Follow, Listing, List, Configure, ChangeNet
<1>2. CASE UNCHANGED <<area, storage, store, dialog>>
  BY <1>2 DEF store, dialog, ContentInv, StoreTypeOK, TemplatesInv, RowsKeepContent, EditorInv,
       ContentStays, Creating, Patching, Using, OnlyThere
<1> QED BY <1>1, <1>2, RoutesKeep, EditorKeeps DEF vars

\* While the requests that used its file did not overlap, a template keeps its own content: for
\* every number of clients, ids and files, and whichever calls fail or outlive their timeout.
THEOREM TemplatesKeepContent == Spec => []RowsKeepContent
<1>1. ContentInv => RowsKeepContent
  BY DEF ContentInv, TemplatesInv, RowsKeepContent
<1> QED BY <1>1, ContentStart, ContentStep, PTL DEF Spec

\* The edit dialog saves into a template what it loaded from it, until a load fails or answers
\* for another template than the one open.
THEOREM SavesKeepContent == Spec => []EditorKeepsContent
<1>1. ContentInv => EditorKeepsContent
  BY DEF ContentInv, EditorInv, EditorKeepsContent
<1> QED BY <1>1, ContentStart, ContentStep, PTL DEF Spec

=============================================================================
