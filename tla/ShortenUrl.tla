------------------------------ MODULE ShortenUrl ------------------------------
(***************************************************************************)
(* POST /api/urls, statement by statement: requests of several replicas of *)
(* url-service run against one PostgreSQL, each with the SELECT outside of *)
(* the transaction that inserts the row and gives it its code.             *)
(*                                                                         *)
(* The code is base62 of the row's url_id, which is one-to-one, so that a  *)
(* row's code is its id here.  Only committed rows are in `rows': those of *)
(* an open transaction are seen by nobody, but hold their key.  url_id is  *)
(* a sequence: an id that is rolled back is not used again.                *)
(***************************************************************************)
EXTENDS Naturals, FiniteSets

CONSTANTS
    Keys,     \* a URL and the user who shortens it: UNIQUE in urls
    Requests, \* under way at once
    MaxId     \* where the sequence ends: bounds a run

ASSUME MaxIdAssumption == MaxId \in Nat

Expiries == {"never", "future", "past"}

VARIABLES
    rows,   \* the committed row of each key, or none
    nextId, \* urls_url_id_seq
    pc,     \* the statement that a request is at, or its answer
    wants,  \* its key and its expiry
    id,     \* url_id in its transaction
    issued  \* history: the ids of rows that were ever committed

urlVars == <<rows, nextId, pc, wants, id, issued>>

NoRow == [code |-> 0, expiry |-> "none"]

Statements == {"select", "reactivate", "insert", "set code", "commit"}
Answers    == {"created", "renewed", "conflict", "error"}

UrlInit ==
    /\ rows = [k \in Keys |-> NoRow] /\ nextId = 1 /\ issued = {}
    /\ pc = [r \in Requests |-> "idle"]
    /\ wants \in [Requests -> [key: Keys, expiry: Expiries]]
    /\ id = [r \in Requests |-> 0]

Row(r) == rows[wants[r].key]
SetRow(r, row) == rows' = [rows EXCEPT ![wants[r].key] = row]
Goto(r, at) == pc' = [pc EXCEPT ![r] = at]

\* A request; its expiry is whatever the client sends.
Begin(r) ==
    /\ pc[r] \in Answers \cup {"idle"}
    /\ \E k \in Keys, e \in Expiries :
        wants' = [wants EXCEPT ![r] = [key |-> k, expiry |-> e]]
    /\ Goto(r, "select")
    /\ UNCHANGED <<rows, nextId, id, issued>>

\* Only a row with an expiry is decided upon; one without is left to the
\* constraint.
AfterSelect(row) ==
    CASE row.expiry = "past"              -> "reactivate"
      [] row.expiry = "future"            -> "conflict"
      [] row.expiry \in {"none", "never"} -> "insert"

\* SELECT: the row's expiry and url_id are kept for the next statement.
Select(r) ==
    /\ pc[r] = "select"
    /\ Goto(r, AfterSelect(Row(r)))
    /\ id' = [id EXCEPT ![r] = Row(r).code]
    /\ UNCHANGED <<rows, nextId, wants, issued>>

\* UPDATE ... WHERE url_id, which commits on its own: another request may have
\* reactivated the row by now (it is then set again), or a deletion removed it,
\* with a new one in its place or not: then no row comes back, which is an error.
\* The answer may be lost, or the handler gone, when the row has been renewed.
Reactivate(r) ==
    /\ pc[r] = "reactivate"
    /\ \/ /\ Row(r) # NoRow /\ Row(r).code = id[r]
          /\ SetRow(r, [Row(r) EXCEPT !.expiry = wants[r].expiry])
          /\ Goto(r, "renewed") \/ Goto(r, "error")
       \/ /\ Row(r).code # id[r]
          /\ Goto(r, "error")
          /\ UNCHANGED rows
    /\ UNCHANGED <<nextId, wants, id, issued>>

\* A transaction is open: it has inserted its row, which nobody else sees.
InTransaction(r) == pc[r] \in {"set code", "commit"}

\* Mutant: no constraint.
InsertUnchecked(r) ==
    /\ pc[r] = "insert" /\ nextId <= MaxId
    /\ nextId' = nextId + 1 /\ id' = [id EXCEPT ![r] = nextId]
    /\ Goto(r, "set code")
    /\ UNCHANGED <<rows, wants, issued>>

\* Mutant: the INSERT is outside of the transaction.
InsertCommitted(r) ==
    /\ pc[r] = "insert" /\ Row(r) = NoRow /\ nextId <= MaxId
    /\ nextId' = nextId + 1 /\ id' = [id EXCEPT ![r] = nextId]
    /\ SetRow(r, [code |-> 0, expiry |-> wants[r].expiry])
    /\ Goto(r, "set code")
    /\ UNCHANGED <<wants, issued>>

\* Another transaction has inserted the key, and has not ended.
KeyIsHeld(r) ==
    \E q \in Requests \ {r} : InTransaction(q) /\ wants[q].key = wants[r].key

\* BEGIN and INSERT: it waits for a transaction that has inserted the same key,
\* and fails (23505) if there is a row by then, or if the sequence is used up.
Insert(r) ==
    /\ pc[r] = "insert" /\ ~KeyIsHeld(r)
    /\ \/ /\ nextId <= MaxId /\ nextId' = nextId + 1
          /\ Row(r) = NoRow
          /\ id' = [id EXCEPT ![r] = nextId]
          /\ Goto(r, "set code")
       \/ /\ nextId <= MaxId /\ nextId' = nextId + 1
          /\ Row(r) # NoRow
          /\ Goto(r, "conflict")
          /\ UNCHANGED id
       \/ /\ nextId > MaxId
          /\ Goto(r, "error")
          /\ UNCHANGED <<nextId, id>>
    /\ UNCHANGED <<rows, wants, issued>>

\* UPDATE ... SET short_code, of the transaction's own row.
SetCode(r) ==
    /\ pc[r] = "set code" /\ Goto(r, "commit")
    /\ UNCHANGED <<rows, nextId, wants, id, issued>>

\* The commit's answer may be lost, and the handler then answers with an error.
Commit(r) ==
    /\ pc[r] = "commit"
    /\ SetRow(r, [code |-> id[r], expiry |-> wants[r].expiry])
    /\ issued' = issued \cup {id[r]}
    /\ Goto(r, "created") \/ Goto(r, "error")
    /\ UNCHANGED <<nextId, wants, id>>

\* A statement fails, or the process dies: PostgreSQL rolls back.
Abort(r) ==
    /\ pc[r] \in Statements
    /\ Goto(r, "error")
    /\ UNCHANGED <<rows, nextId, wants, id, issued>>

\* delete_url, and the consumer's deletion of a user's rows.
DeleteUrl(k) ==
    /\ rows[k] # NoRow
    /\ rows' = [rows EXCEPT ![k] = NoRow]
    /\ UNCHANGED <<nextId, pc, wants, id, issued>>

Expire(k) ==
    /\ rows[k].expiry = "future"
    /\ rows' = [rows EXCEPT ![k].expiry = "past"]
    /\ UNCHANGED <<nextId, pc, wants, id, issued>>

\* add_shorten_url goes on.
Step(r) == Select(r) \/ Reactivate(r) \/ Insert(r) \/ SetCode(r) \/ Commit(r)

UrlNext == \/ \E r \in Requests : Begin(r) \/ Step(r) \/ Abort(r)
           \/ \E k \in Keys : DeleteUrl(k) \/ Expire(k)

\* PostgreSQL executes each statement in the end, and wakes an INSERT that waits
\* whenever the transaction that holds its key ends.  Nothing has to fail.
UrlSpec == /\ UrlInit /\ [][UrlNext]_urlVars
           /\ \A r \in Requests : WF_urlVars(Step(r)) /\ SF_urlVars(Insert(r))

----------------------------------------------------------------------------
(* Properties.                                                             *)

\* Every variable keeps its type; a committed row has its code.
UrlTypeOK ==
    /\ rows \in [Keys -> {NoRow} \cup [code: 1..MaxId, expiry: Expiries]]
    /\ nextId \in 1..(MaxId + 1) /\ issued \subseteq 1..MaxId
    /\ pc \in [Requests -> {"idle"} \cup Statements \cup Answers]
    /\ wants \in [Requests -> [key: Keys, expiry: Expiries]]
    /\ id \in [Requests -> 0..MaxId]

Progress(at) == IF at \in {"idle"} \cup Answers THEN at
                ELSE IF at = "reactivate" THEN "noticed" ELSE "asked"

Store == INSTANCE UrlStore WITH
    Codes <- 1..MaxId,
    links <- rows,
    ask   <- [r \in Requests |-> [key |-> wants[r].key, expiry |-> wants[r].expiry,
                                 status |-> Progress(pc[r])]]

\* The statements of concurrent requests, their waiting for each other's
\* transactions, rollbacks and deletions in between, come to one link for a key,
\* codes that are never used twice, and conflicts only with a link that is there.
ImplementsStore == Store!StoreSafety

\* The same, and every request is answered: no statement waits for ever for the
\* transaction of another request, though none is ever made to fail.
ImplementsLiveStore == Store!StoreSpec
=============================================================================
