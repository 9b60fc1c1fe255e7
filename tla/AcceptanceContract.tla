------------------------- MODULE AcceptanceContract -------------------------
(***************************************************************************)
(* What a caller of an accepting endpoint may rely on: a key names at most    *)
(* one row and for good, an acceptance names the row of the key with the      *)
(* caller's own body, a conflict is a row with another one, and a request     *)
(* that is not accepted may still have stored its row.                       *)
(***************************************************************************)
CONSTANTS Requests, Keys, Bodies, None, Old

VARIABLES
  ask,    \* what a request asks for: a key or None, and a body
  rows,   \* requests that have stored a row, and Old for one of an earlier version
  entry,  \* the row a key names
  reply   \* a code: "none", "accepted", "conflict" or "failed"; and the row accepted

Asked(r) == ask[r] # None
Open(r) == Asked(r) /\ reply[r].code = "none"
Answer(c, t) == [code |-> c, row |-> t]

Init ==
  /\ ask = [r \in Requests |-> None]
  /\ entry \in [Keys -> {None, Old}]
  /\ rows = {}
  /\ reply = [r \in Requests |-> Answer("none", None)]

Ask(r) ==
  /\ ~Asked(r)
  /\ \E k \in Keys \union {None}, b \in Bodies :
       ask' = [ask EXCEPT ![r] = [key |-> k, body |-> b]]
  /\ UNCHANGED <<rows, entry, reply>>

Store(r) ==
  /\ Open(r) /\ r \notin rows
  /\ rows' = rows \union {r}
  /\ \/ ask[r].key = None /\ UNCHANGED entry
     \/ /\ ask[r].key # None /\ entry[ask[r].key] = None
        /\ entry' = [entry EXCEPT ![ask[r].key] = r]
  /\ UNCHANGED <<ask, reply>>

Accept(r, t) ==
  /\ Open(r)
  /\ \/ ask[r].key = None /\ t = r /\ r \in rows
     \/ /\ ask[r].key # None /\ entry[ask[r].key] = t
        /\ t = Old \/ (t \in rows /\ ask[t].body = ask[r].body)
  /\ reply' = [reply EXCEPT ![r] = Answer("accepted", t)]
  /\ UNCHANGED <<ask, rows, entry>>

Conflict(r) ==
  /\ Open(r) /\ ask[r].key # None
  /\ \E t \in rows : entry[ask[r].key] = t /\ ask[t].body # ask[r].body
  /\ reply' = [reply EXCEPT ![r] = Answer("conflict", None)]
  /\ UNCHANGED <<ask, rows, entry>>

Fail(r) ==
  /\ Open(r)
  /\ reply' = [reply EXCEPT ![r] = Answer("failed", None)]
  /\ UNCHANGED <<ask, rows, entry>>

Next ==
  \E r \in Requests :
    Ask(r) \/ Store(r) \/ Conflict(r) \/ Fail(r) \/ \E t \in rows \union {Old} : Accept(r, t)

Spec == Init /\ [][Next]_<<ask, rows, entry, reply>>

=============================================================================
