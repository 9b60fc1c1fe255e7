----------------------------- MODULE Dashboard -----------------------------
(***************************************************************************)
(* The dashboard's mutable templates, whose content is an object in S3 or a   *)
(* file while the rest is a row, and three of its pages: the editor of a       *)
(* template, the progress of a bulk send, and the delivery logs.               *)
(*                                                                          *)
(* A page's state is React state: what a handler captured when it was created  *)
(* may be old when its answer comes, and answers come in any order. The areas   *)
(* share nothing but the templates, so a behaviour is about one of them.        *)
(*                                                                          *)
(* Content is abstracted to the template it was written for.                   *)
(***************************************************************************)
EXTENDS Configuration, FiniteSets

CONSTANTS
  Areas,    \* the areas looked at
  Clients,  \* callers of the template routes
  MaxIds,   \* rows ever created (bound)
  Names, Files,
  Slug,     \* the filename POST derives from a name
  Statuses, Recipients, \* filters of the logs page
  AnyStatus, NoRecipient, \* and their first values
  Slots,    \* answers a page waits for at the same time (bound)
  Faults,   \* "db", "storage" (a call fails), "late" (a call outlives its timeout)
  None

ASSUME DashboardAssumption ==
  /\ Areas \subseteq {"templates", "editor", "batch", "logs", "configuration"}
  /\ Slug \in [Names -> Files]
  /\ AnyStatus \in Statuses /\ NoRecipient \in Recipients
  /\ MaxIds \in Nat
  /\ None \notin 1..MaxIds /\ None \notin Names /\ None \notin [name : Names, file : Files]

Ids == 1..MaxIds

VARIABLES
  area, storage,  \* of this behaviour
  rows,           \* Template: name and filename of each id
  objects,        \* content of each file or object
  issued,         \* ids given to rows
  op, pc, seen,   \* a request: what it asks, what it awaits, the filename it read
  calls,          \* storage calls that have timed out and are not cancelled
  clash,          \* history: files that two requests have used at the same time
  target, text, loading, loads, slip, \* the edit dialog, see below
  net,            \* the dashboard answers the pages
  batch, page,    \* the batch has completed; the page that follows it
  polls,          \* its requests in flight
  query, debounce, shown, auto, fetches \* the logs page

store == <<rows, objects, issued, op, pc, seen, calls, clash>>
dialog == <<target, text, loading, loads, slip>>
following == <<batch, page, polls>>
listing == <<query, debounce, shown, auto, fetches>>
vars == <<area, storage, config, store, dialog, net, following, listing>>

Init ==
  /\ area \in Areas
  /\ ConfigInit
  /\ storage \in IF area = "templates" THEN {"LOCAL", "S3"} ELSE {"LOCAL"}
  /\ objects \in [Files -> Ids \union {None}]
  /\ \/ /\ area # "editor" /\ issued = {}
        /\ rows = [i \in Ids |-> None]
        /\ objects = [f \in Files |-> None]
     \/ /\ area = "editor"
        /\ issued = Ids
        /\ rows \in [Ids -> [name : Names, file : Files]]
        /\ \A i \in Ids : rows[i].file = Slug[rows[i].name] /\ objects[rows[i].file] = i
  /\ op = [c \in Clients |-> None]
  /\ pc = [c \in Clients |-> "idle"]
  /\ seen = [c \in Clients |-> None]
  /\ calls = {} /\ clash = {}
  /\ target = None /\ text = None /\ loading = FALSE /\ loads = {} /\ slip = FALSE
  /\ net = TRUE
  /\ batch = FALSE
  /\ page = [open |-> FALSE, shown |-> "none", items |-> 0, timer |-> None]
  /\ polls = [s \in Slots |-> None]
  /\ query = [page |-> 0, status |-> AnyStatus, recipient |-> NoRecipient]
  /\ debounce = None /\ shown = None /\ auto = FALSE
  /\ fetches = [s \in Slots |-> None]

-----------------------------------------------------------------------------
(* The template routes.                                                      *)

Goto(c, p) == pc' = [pc EXCEPT ![c] = p]

Respond(c) ==
  /\ Goto(c, "idle")
  /\ op' = [op EXCEPT ![c] = None]
  /\ seen' = [seen EXCEPT ![c] = None]

Write(f, v) == objects' = [objects EXCEPT ![f] = v]

\* withTimeout gives up waiting and leaves the call running.
Outlive(f, v) ==
  /\ storage = "S3" /\ "late" \in Faults
  /\ calls' = calls \union {<<f, v>>}
  /\ UNCHANGED objects

Fails == "storage" \in Faults /\ UNCHANGED <<objects, calls>>

Request(c) ==
  /\ area = "templates" /\ pc[c] = "idle"
  /\ \/ \E n \in Names, i \in Ids \ issued :
          /\ op' = [op EXCEPT ![c] = [kind |-> "create", id |-> i, name |-> n]]
          /\ seen' = [seen EXCEPT ![c] = Slug[n]]
          /\ issued' = issued \union {i}
          /\ Goto(c, "store")
     \/ \E i \in issued, n \in Names \union {None} :
          /\ op' = [op EXCEPT ![c] = [kind |-> "patch", id |-> i, name |-> n, content |-> i]]
          /\ Goto(c, "find")
          /\ UNCHANGED <<issued, seen>>
     \/ \E i \in issued :
          /\ op' = [op EXCEPT ![c] = [kind |-> "delete", id |-> i]]
          /\ Goto(c, "delete")
          /\ UNCHANGED <<issued, seen>>
  /\ UNCHANGED <<rows, objects, calls, clash>>

\* Mutant: a file that exists is written all the same.
FileIsFree_Always(f) == TRUE

FileIsFree(f) == objects[f] = None

\* POST: the content first. A local file that exists is refused; an object is replaced.
StoreContent(c) ==
  LET f == seen[c] IN
  /\ pc[c] = "store"
  /\ \/ /\ storage = "LOCAL" => FileIsFree(f)
        /\ Write(f, op[c].id)
        /\ Goto(c, "row")
        /\ clash' = IF storage = "S3" /\ objects[f] # None THEN clash \union {f} ELSE clash
        /\ UNCHANGED <<op, seen, calls>>
     \/ storage = "LOCAL" /\ ~FileIsFree(f) /\ Respond(c) /\ UNCHANGED <<objects, calls, clash>>
     \/ Respond(c) /\ (Fails \/ Outlive(f, op[c].id)) /\ UNCHANGED clash
  /\ UNCHANGED <<rows, issued>>

Named(n) == \E i \in Ids : rows[i] # None /\ rows[i].name = n

\* POST: then the row. The answer of a commit may be lost.
InsertRow(c) ==
  /\ pc[c] = "row"
  /\ \/ /\ ~Named(op[c].name)
        /\ rows' = [rows EXCEPT ![op[c].id] = [name |-> op[c].name, file |-> seen[c]]]
        /\ \/ Respond(c) /\ UNCHANGED clash
           \/ /\ "db" \in Faults /\ Goto(c, "rollback")
              /\ clash' = clash \union {seen[c]}
              /\ UNCHANGED <<op, seen>>
     \/ Named(op[c].name) /\ Goto(c, "rollback") /\ UNCHANGED <<rows, op, seen, clash>>
     \/ "db" \in Faults /\ Goto(c, "rollback") /\ UNCHANGED <<rows, op, seen, clash>>
  /\ UNCHANGED <<objects, issued, calls>>

\* The content of a refused create, or of a deleted template, is removed.
Remove(c) ==
  /\ pc[c] \in {"rollback", "erase"}
  /\ \/ Write(seen[c], None) /\ UNCHANGED calls
     \/ Fails \/ Outlive(seen[c], None)
  /\ Respond(c)
  /\ UNCHANGED <<rows, issued, clash>>

\* DELETE. A row that logs refer to is not deleted.
DeleteRow(c) ==
  LET i == op[c].id IN
  /\ pc[c] = "delete"
  /\ \/ /\ rows[i] # None
        /\ seen' = [seen EXCEPT ![c] = rows[i].file]
        /\ rows' = [rows EXCEPT ![i] = None]
        /\ Goto(c, "erase")
        /\ UNCHANGED op
     \/ Respond(c) /\ UNCHANGED rows
  /\ UNCHANGED <<objects, issued, calls, clash>>

\* PATCH.
FindRow(c) ==
  LET i == op[c].id IN
  /\ pc[c] = "find"
  /\ \/ rows[i] = None /\ Respond(c)
     \/ /\ rows[i] # None
        /\ seen' = [seen EXCEPT ![c] = rows[i].file]
        /\ Goto(c, "write")
        /\ UNCHANGED op
  /\ UNCHANGED <<rows, objects, issued, calls, clash>>

WriteContent(c) ==
  LET f == seen[c] IN
  /\ pc[c] = "write"
  /\ \/ Write(f, op[c].content) /\ Goto(c, "update") /\ UNCHANGED <<op, seen, calls>>
     \/ Respond(c) /\ (Fails \/ Outlive(f, op[c].content))
  /\ clash' = IF rows[op[c].id] = None THEN clash \union {f} ELSE clash
  /\ UNCHANGED <<rows, issued>>

UpdateRow(c) ==
  LET i == op[c].id IN
  /\ pc[c] = "update"
  /\ \/ /\ rows[i] # None /\ op[c].name \in Names
        /\ Named(op[c].name) => rows[i].name = op[c].name
        /\ rows' = [rows EXCEPT ![i].name = op[c].name]
     \/ UNCHANGED rows
  /\ Respond(c)
  /\ UNCHANGED <<objects, issued, calls, clash>>

\* A call that has timed out is carried out.
Land ==
  /\ \E k \in calls :
       /\ calls' = calls \ {k}
       /\ Write(k[1], k[2])
       /\ clash' = clash \union {k[1]}
  /\ UNCHANGED <<rows, issued, op, pc, seen>>

Serve(c) ==
  \/ StoreContent(c) \/ InsertRow(c) \/ Remove(c)
  \/ DeleteRow(c) \/ FindRow(c) \/ WriteContent(c) \/ UpdateRow(c)

Routes ==
  /\ (\E c \in Clients : Request(c) \/ Serve(c)) \/ Land
  /\ UNCHANGED <<area, storage, config, dialog, net, following, listing>>

-----------------------------------------------------------------------------
(* The edit dialog of the templates page, for LOCAL templates. Text None is    *)
(* the empty string, which the route accepts as content.                       *)

\* Opening a template starts a load that neither closing nor opening another one stops.
Open(i) ==
  /\ area = "editor" /\ target = None
  /\ target' = i /\ text' = None /\ loading' = TRUE
  /\ loads' = loads \union {i}
  /\ UNCHANGED <<store, slip>>

Close ==
  /\ target # None /\ target' = None
  /\ UNCHANGED <<store, text, loading, loads, slip>>

\* An answer to getTemplateContent, or its failure.
Loaded(i) ==
  /\ i \in loads /\ loads' = loads \ {i}
  /\ text' \in {objects[rows[i].file], None}
  /\ loading' = FALSE
  /\ slip' = (slip \/ (target # None /\ target # i) \/ text' = None)
  /\ UNCHANGED <<store, target>>

\* Mutant: the button is enabled while the content is loading.
SaveEnabled_Loading == target # None

SaveEnabled == target # None /\ ~loading

Save(c) ==
  /\ SaveEnabled /\ pc[c] = "idle"
  /\ op' = [op EXCEPT ![c] = [kind |-> "patch", id |-> target, name |-> None, content |-> text]]
  /\ Goto(c, "find")
  /\ UNCHANGED <<rows, objects, issued, seen, calls, clash, dialog>>

Editor ==
  /\ \/ \E i \in issued : Open(i) \/ Loaded(i)
     \/ Close
     \/ \E c \in Clients : area = "editor" /\ Save(c)
  /\ UNCHANGED <<area, storage, config, net, following, listing>>

-----------------------------------------------------------------------------
(* The status of a bulk send. The effect sets an interval and polls at once;   *)
(* it runs again when the page of items or completedAt changes.                *)

Polled(ps, n) ==
  IF \E s \in Slots : ps[s] = None
  THEN [ps EXCEPT ![CHOOSE s \in Slots : ps[s] = None] = [items |-> n, answer |-> "asked"]]
  ELSE ps

\* The effect, for the state pg the page is in now.
Effect(pg, ps) ==
  IF pg.shown = "complete"
  THEN /\ page' = [pg EXCEPT !.timer = None]
       /\ polls' = ps
  ELSE /\ page' = [pg EXCEPT !.timer = pg.items]
       /\ polls' = Polled(ps, pg.items)

Submit ==
  /\ area = "batch" /\ ~page.open
  /\ Effect([page EXCEPT !.open = TRUE], polls)
  /\ UNCHANGED batch

ShowItems(n) ==
  /\ page.open /\ page.shown # "none" /\ n # page.items
  /\ Effect([page EXCEPT !.items = n], polls)
  /\ UNCHANGED batch

IntervalFires ==
  /\ page.timer # None
  /\ polls' = Polled(polls, page.timer)
  /\ UNCHANGED <<batch, page>>

\* GET /api/send/bulk/[id].
Answer(s) ==
  /\ polls[s] # None /\ polls[s].answer = "asked" /\ net
  /\ polls' = [polls EXCEPT ![s].answer = IF batch THEN "complete" ELSE "open"]
  /\ UNCHANGED <<batch, page>>

\* Mutant: completedAt is not among the effect's dependencies.
ShowStatus_Once(a, ps) ==
  /\ page' = [page EXCEPT !.shown = a, !.timer = IF a = "complete" THEN None ELSE page.timer]
  /\ polls' = ps

\* setBatchStatus, and the interval ends with the batch.
ShowStatus(a, ps) ==
  IF (a = "complete") # (page.shown = "complete")
  THEN Effect([page EXCEPT !.shown = a], ps)
  ELSE /\ page' = [page EXCEPT !.shown = a, !.timer = IF a = "complete" THEN None ELSE page.timer]
       /\ polls' = ps

Arrive(s) ==
  /\ polls[s] # None
  /\ LET rest == [polls EXCEPT ![s] = None] IN
     \/ polls[s].answer # "asked" /\ ShowStatus(polls[s].answer, rest)
     \/ ~net /\ polls' = rest /\ UNCHANGED page
  /\ UNCHANGED batch

\* The last item of the batch is settled.
CompleteBatch ==
  /\ area = "batch" /\ ~batch /\ batch' = TRUE
  /\ UNCHANGED <<page, polls>>

Follow(A) == A /\ UNCHANGED <<area, storage, config, store, dialog, net, listing>>

Following ==
  \/ Follow(Submit) \/ Follow(IntervalFires) \/ Follow(CompleteBatch)
  \/ \E n \in 0..1 : Follow(ShowItems(n))
  \/ \E s \in Slots : Follow(Answer(s)) \/ Follow(Arrive(s))

-----------------------------------------------------------------------------
(* The delivery logs.                                                        *)

\* fetchLogs.
Fetch(q) ==
  \E s \in Slots : fetches[s] = None /\ fetches' = [fetches EXCEPT ![s] = q]

ChangeStatus(v) ==
  /\ query' = [query EXCEPT !.status = v, !.page = 0]
  /\ Fetch([query EXCEPT !.status = v, !.page = 0])
  /\ UNCHANGED <<debounce, shown, auto>>

\* The timeout keeps the status the filter had when the recipient was typed.
ChangeRecipient(v) ==
  /\ query' = [query EXCEPT !.recipient = v]
  /\ debounce' = [page |-> 0, status |-> query.status, recipient |-> v]
  /\ UNCHANGED <<shown, auto, fetches>>

Debounced ==
  /\ debounce # None /\ debounce' = None
  /\ query' = [query EXCEPT !.page = 0]
  /\ Fetch(debounce)
  /\ UNCHANGED <<shown, auto>>

ChangePage(n) ==
  /\ query' = [query EXCEPT !.page = n]
  /\ Fetch([query EXCEPT !.page = n])
  /\ UNCHANGED <<debounce, shown, auto>>

Toggle == auto' = ~auto /\ UNCHANGED <<query, debounce, shown, fetches>>

\* Mutant: useAutoRefresh keeps the callback it was given first.
Refreshed_First == [page |-> 0, status |-> AnyStatus, recipient |-> NoRecipient]

Refreshed == query

Refresh ==
  /\ auto
  /\ Fetch(Refreshed)
  /\ UNCHANGED <<query, debounce, shown, auto>>

Listed(s) ==
  /\ fetches[s] # None
  /\ shown' = IF net THEN fetches[s] ELSE None
  /\ fetches' = [fetches EXCEPT ![s] = None]
  /\ UNCHANGED <<query, debounce, auto>>

Choices ==
  \/ \E v \in Statuses : ChangeStatus(v)
  \/ \E v \in Recipients : ChangeRecipient(v)
  \/ \E n \in 0..1 : ChangePage(n)
  \/ Toggle

List(A) == area = "logs" /\ A /\ UNCHANGED <<area, storage, config, store, dialog, net, following>>

Listing ==
  \/ List(Choices) \/ List(Debounced) \/ List(Refresh)
  \/ \E s \in Slots : List(Listed(s))

-----------------------------------------------------------------------------
\* The connection to the dashboard fails, or is restored.
ChangeNet ==
  /\ area \in {"batch", "logs"} /\ net' = ~net
  /\ UNCHANGED <<area, storage, config, store, dialog, following, listing>>

Configure ==
  /\ area = "configuration" /\ Configuring
  /\ UNCHANGED <<area, storage, store, dialog, net, following, listing>>

Next == Routes \/ Editor \/ Following \/ Listing \/ Configure \/ ChangeNet

Spec == Init /\ [][Next]_vars

\* Timers fire and requests are answered; what the user does is up to the user.
Fairness ==
  /\ WF_vars(Follow(IntervalFires)) /\ WF_vars(Follow(CompleteBatch))
  /\ WF_vars(List(Debounced)) /\ WF_vars(List(Refresh))
  /\ \A s \in Slots :
       /\ WF_vars(Follow(Answer(s))) /\ WF_vars(Follow(Arrive(s)))
       /\ WF_vars(List(Listed(s)))

FairSpec == Spec /\ Fairness

-----------------------------------------------------------------------------
(* Properties.                                                               *)

\* What is stored under the filename of a template was written for that template.
ContentStays == \A i \in Ids : rows[i] # None => objects[rows[i].file] = i

\* The same while the requests that used the file did not overlap: a create of another
\* template with its filename, a patch of one that is gone, a late call, a lost commit.
RowsKeepContent ==
  area = "templates" =>
    \A i \in Ids : rows[i] # None /\ rows[i].file \notin clash => objects[rows[i].file] = i

\* The dialog saves into a template only what it loaded from it, as long as no load fails
\* and none answers when another template is open.
EditorKeepsContent == area = "editor" /\ ~slip => ContentStays

\* The page of a bulk send that stays connected shows its completion in the end, although
\* an older answer may arrive after the completed one.
CompletionShown == (area = "batch" /\ <>[]net /\ <>page.open) => <>[](page.shown = "complete")

\* With auto-refresh on, the logs that are shown are those the filters ask for, once the
\* user leaves the filters alone.
LogsConverge ==
  (area = "logs" /\ <>[]net /\ <>[]auto /\ <>[][~Choices]_listing) => <>[](shown = query)

-----------------------------------------------------------------------------
(* Why the content stays: the parts of the inductive invariant.              *)

Row == [name : Names, file : Files]
CreateOp == [kind : {"create"}, id : Ids, name : Names]
PatchOp == [kind : {"patch"}, id : Ids, name : Names \union {None}, content : Ids \union {None}]
DeleteOp == [kind : {"delete"}, id : Ids]

\* The requests by what they may still do to a file.
Creating(c) == pc[c] \in {"store", "row", "rollback"}
Patching(c) == pc[c] \in {"find", "write", "update"}
Using(c) == pc[c] \in {"row", "rollback", "erase"}

StoreTypeOK ==
  /\ area \in Areas /\ storage \in {"LOCAL", "S3"}
  /\ rows \in [Ids -> Row \union {None}]
  /\ objects \in [Files -> Ids \union {None}]
  /\ issued \subseteq Ids
  /\ op \in [Clients -> CreateOp \union PatchOp \union DeleteOp \union {None}]
  /\ pc \in [Clients -> {"idle", "store", "row", "rollback", "erase", "delete", "find", "write", "update"}]
  /\ seen \in [Clients -> Files \union {None}]
  /\ calls \subseteq Files \X (Ids \union {None})
  /\ \A c \in Clients :
       /\ Creating(c) => op[c] \in CreateOp /\ seen[c] \in Files
       /\ Patching(c) => op[c] \in PatchOp
       /\ pc[c] \in {"write", "update", "erase"} => seen[c] \in Files
       /\ pc[c] \in {"delete", "erase"} => op[c] \in DeleteOp

\* A row and a request that may still write or erase a file are its only user, unless the
\* file has clashed; an id is created once.
TemplatesInv ==
  area = "templates" =>
    /\ RowsKeepContent
    /\ \A i \in Ids : rows[i] # None => i \in issued
    /\ \A c \in Clients : pc[c] # "idle" => op[c].id \in issued
    /\ \A c \in Clients : pc[c] \in {"store", "row"} => rows[op[c].id] = None
    /\ \A c, d \in Clients : c # d /\ Creating(c) /\ Creating(d) => op[c].id # op[d].id
    /\ \A c, d \in Clients : pc[c] \in {"store", "row"} /\ pc[d] \in {"write", "update", "erase"} =>
         op[c].id # op[d].id
    /\ \A c \in Clients : Patching(c) => op[c].content = op[c].id
    /\ \A c \in Clients : pc[c] \in {"write", "update", "rollback", "erase"} =>
         rows[op[c].id] = None \/ rows[op[c].id].file = seen[c]
    /\ \A c \in Clients : Using(c) /\ seen[c] \notin clash =>
         objects[seen[c]] = op[c].id /\ rows[op[c].id] = None
    /\ \A c, d \in Clients : c # d /\ Using(c) /\ Using(d) /\ op[c].id = op[d].id =>
         seen[c] = seen[d] /\ seen[c] \in clash

\* The dialog holds the content of its template, and so do the saves on their way.
EditorInv ==
  area = "editor" =>
    /\ storage = "LOCAL" /\ issued = Ids /\ calls = {}
    /\ \A i \in Ids : rows[i] # None
    /\ \A c \in Clients : pc[c] # "idle" => Patching(c) /\ op[c].name = None
    /\ \A c \in Clients : pc[c] \in {"write", "update"} => seen[c] = rows[op[c].id].file
    /\ target \in Ids \union {None} /\ text \in Ids \union {None} /\ loads \subseteq Ids
    /\ ~slip => /\ ContentStays
                /\ target # None /\ ~loading => text = target
                /\ \A c \in Clients : Patching(c) => op[c].content = op[c].id

\* Elsewhere no request is made.
OnlyThere == \A c \in Clients : pc[c] # "idle" => area \in {"templates", "editor"}

ContentInv == StoreTypeOK /\ TemplatesInv /\ EditorInv /\ OnlyThere

=============================================================================
