--------------------------- MODULE ShortenUrlProofs ---------------------------
(***************************************************************************)
(* Proofs about ShortenUrl, for any keys, requests and bound: the type     *)
(* invariant, and that the statements of concurrent requests implement the *)
(* atomic store of UrlStore (its safety; that every request is answered is *)
(* left to TLC).                                                           *)
(***************************************************************************)
EXTENDS ShortenUrl, TLAPS

\* An id is issued once: what an open transaction drew from the sequence is
\* neither issued nor drawn by another.
IdsAreFresh ==
    /\ \A i \in issued : i < nextId
    /\ \A r \in Requests : InTransaction(r) =>
        /\ id[r] \in 1..MaxId /\ id[r] < nextId /\ id[r] \notin issued
        /\ \A q \in Requests \ {r} : InTransaction(q) => id[q] # id[r]

\* The unique constraint: the key of an open transaction has no row, and no
\* other transaction.
KeysAreHeld ==
    \A r \in Requests : InTransaction(r) =>
        /\ rows[wants[r].key] = NoRow
        /\ \A q \in Requests \ {r} :
            InTransaction(q) => wants[q].key # wants[r].key

IInv == UrlTypeOK /\ IdsAreFresh /\ KeysAreHeld

----------------------------------------------------------------------------
(* The invariant.                                                          *)

LEMMA InitHolds == UrlInit => IInv
BY MaxIdAssumption
   DEF UrlInit, IInv, UrlTypeOK, IdsAreFresh, KeysAreHeld, InTransaction,
       NoRow, Expiries, Statements, Answers

\* The row a request asks for is a row or none, and so is its expiry one.
LEMMA RowType ==
    ASSUME UrlTypeOK, NEW r \in Requests
    PROVE  /\ Row(r) \in {NoRow} \cup [code: 1..MaxId, expiry: Expiries]
           /\ wants[r].key \in Keys /\ wants[r].expiry \in Expiries
BY DEF UrlTypeOK, Row

\* The SELECT opens no transaction.
LEMMA AfterSelectType ==
    ASSUME UrlTypeOK, NEW r \in Requests
    PROVE  AfterSelect(Row(r)) \in {"reactivate", "conflict", "insert"}
<1>1. Row(r).expiry \in {"none", "never", "future", "past"}
    BY RowType DEF NoRow, Expiries
<1> QED BY <1>1 DEF AfterSelect

\* An INSERT opens a transaction, finds a row, or finds the sequence used up.
LEMMA InsertCases ==
    ASSUME UrlTypeOK, NEW r \in Requests, Insert(r)
    PROVE  /\ pc[r] = "insert" /\ UNCHANGED <<rows, wants, issued>>
           /\ \/ /\ nextId \in 1..MaxId /\ nextId' = nextId + 1
                 /\ Row(r) = NoRow /\ ~KeyIsHeld(r)
                 /\ id' = [id EXCEPT ![r] = nextId]
                 /\ pc' = [pc EXCEPT ![r] = "set code"]
              \/ /\ nextId \in 1..MaxId /\ nextId' = nextId + 1
                 /\ Row(r) # NoRow
                 /\ pc' = [pc EXCEPT ![r] = "conflict"] /\ UNCHANGED id
              \/ pc' = [pc EXCEPT ![r] = "error"] /\ UNCHANGED <<nextId, id>>
<1>1. nextId <= MaxId => nextId \in 1..MaxId
    BY MaxIdAssumption DEF UrlTypeOK
<1> QED BY <1>1 DEF Insert, Goto

\* Every variable keeps its type in a step.
LEMMA TypeStep ==
    ASSUME UrlTypeOK, IdsAreFresh, [UrlNext]_urlVars
    PROVE  UrlTypeOK'
<1> DEFINE Rows  == {NoRow} \cup [code: 1..MaxId, expiry: Expiries]
            Asked == [key: Keys, expiry: Expiries]
            At    == {"idle"} \cup Statements \cup Answers
<1>1. ASSUME NEW r \in Requests, Begin(r) PROVE UrlTypeOK'
    <2>1. wants' \in [Requests -> Asked]
        BY <1>1 DEF Begin, UrlTypeOK
    <2> QED BY <1>1, <2>1 DEF Begin, Goto, UrlTypeOK, Statements
<1>2. ASSUME NEW r \in Requests, Select(r) PROVE UrlTypeOK'
    <2>1. AfterSelect(Row(r)) \in Statements \cup Answers
        BY AfterSelectType DEF Statements, Answers
    <2>2. Row(r).code \in 0..MaxId
        BY RowType, MaxIdAssumption DEF NoRow
    <2> QED BY <1>2, <2>1, <2>2 DEF Select, Goto, UrlTypeOK
<1>3. ASSUME NEW r \in Requests, Reactivate(r) PROVE UrlTypeOK'
    <2>1. rows' \in [Keys -> Rows]
        <3>1. ASSUME Row(r) # NoRow
              PROVE  [Row(r) EXCEPT !.expiry = wants[r].expiry] \in Rows
            BY <3>1, RowType
        <3> QED BY <1>3, <3>1, RowType DEF Reactivate, SetRow, UrlTypeOK
    <2> QED BY <1>3, <2>1 DEF Reactivate, Goto, UrlTypeOK, Answers
<1>4. ASSUME NEW r \in Requests, Insert(r) PROVE UrlTypeOK'
    <2>1. CASE UNCHANGED <<nextId, id>>
        BY <1>4, <2>1, InsertCases DEF UrlTypeOK, Statements, Answers
    <2>2. CASE nextId \in 1..MaxId /\ nextId' = nextId + 1
        <3>1. nextId' \in 1..(MaxId + 1) /\ nextId \in 0..MaxId
            BY <2>2, MaxIdAssumption
        <3>2. id' \in [Requests -> 0..MaxId]
            <4>1. id' = id \/ id' = [id EXCEPT ![r] = nextId]
                BY <1>4, InsertCases
            <4>2. id \in [Requests -> 0..MaxId]
                BY DEF UrlTypeOK
            <4> QED BY <3>1, <4>1, <4>2
        <3>3. pc' \in [Requests -> At]
            BY <1>4, InsertCases DEF UrlTypeOK, Statements, Answers
        <3> QED BY <1>4, <3>1, <3>2, <3>3, InsertCases DEF UrlTypeOK
    <2> QED BY <1>4, <2>1, <2>2, InsertCases
<1>5. ASSUME NEW r \in Requests, SetCode(r) PROVE UrlTypeOK'
    BY <1>5 DEF SetCode, Goto, UrlTypeOK, Statements
<1>6. ASSUME NEW r \in Requests, Commit(r) PROVE UrlTypeOK'
    <2>1. id[r] \in 1..MaxId
        BY <1>6 DEF Commit, IdsAreFresh, InTransaction
    <2>2. rows' \in [Keys -> Rows]
        BY <1>6, <2>1, RowType DEF Commit, SetRow, UrlTypeOK
    <2> QED BY <1>6, <2>1, <2>2 DEF Commit, Goto, UrlTypeOK, Answers
<1>7. ASSUME NEW r \in Requests, Abort(r) PROVE UrlTypeOK'
    BY <1>7 DEF Abort, Goto, UrlTypeOK, Answers
<1>8. ASSUME NEW k \in Keys, DeleteUrl(k) PROVE UrlTypeOK'
    BY <1>8 DEF DeleteUrl, UrlTypeOK
<1>9. ASSUME NEW k \in Keys, Expire(k) PROVE UrlTypeOK'
    <2>1. rows[k] \in [code: 1..MaxId, expiry: Expiries]
        BY <1>9 DEF Expire, NoRow, UrlTypeOK
    <2>2. rows' \in [Keys -> Rows]
        BY <1>9, <2>1 DEF Expire, UrlTypeOK, Expiries
    <2> QED BY <1>9, <2>2 DEF Expire, UrlTypeOK
<1>10. CASE UNCHANGED urlVars
    BY <1>10 DEF urlVars, UrlTypeOK
<1> QED
    BY <1>1, <1>2, <1>3, <1>4, <1>5, <1>6, <1>7, <1>8, <1>9, <1>10
       DEF UrlNext, Step

\* An id that is drawn is higher than those before, and one that is issued was
\* drawn by one transaction only.
LEMMA IdsStep ==
    ASSUME UrlTypeOK, IdsAreFresh, [UrlNext]_urlVars
    PROVE  IdsAreFresh'
<1>1. ASSUME NEW r \in Requests, Begin(r) PROVE IdsAreFresh'
    BY <1>1 DEF Begin, IdsAreFresh, InTransaction, Goto, UrlTypeOK
<1>2. ASSUME NEW r \in Requests, Select(r) PROVE IdsAreFresh'
    <2>1. AfterSelect(Row(r)) \in {"reactivate", "conflict", "insert"}
        BY AfterSelectType
    <2> QED BY <1>2, <2>1 DEF Select, IdsAreFresh, InTransaction, Goto, UrlTypeOK
<1>3. ASSUME NEW r \in Requests, Reactivate(r) PROVE IdsAreFresh'
    BY <1>3 DEF Reactivate, IdsAreFresh, InTransaction, Goto, UrlTypeOK
<1>4. ASSUME NEW r \in Requests, Insert(r) PROVE IdsAreFresh'
    <2>0. CASE UNCHANGED <<nextId, id>>
        <3>1. \A q \in Requests : InTransaction(q)' => InTransaction(q)
            <4>1. nextId \in 1..MaxId => nextId + 1 # nextId
                OBVIOUS
            <4>2. \/ pc' = [pc EXCEPT ![r] = "conflict"]
                  \/ pc' = [pc EXCEPT ![r] = "error"]
                BY <1>4, <2>0, <4>1, InsertCases
            <4> QED BY <4>2 DEF InTransaction, UrlTypeOK
        <3>2. UNCHANGED <<nextId, id, issued>>
            BY <1>4, <2>0, InsertCases
        <3> QED BY <3>1, <3>2 DEF IdsAreFresh
    <2> SUFFICES ASSUME nextId \in 1..MaxId, nextId' = nextId + 1
                 PROVE  IdsAreFresh'
        BY <1>4, <2>0, InsertCases
    <2>1. nextId \in 1..MaxId /\ nextId' = nextId + 1 /\ issued' = issued
        BY <1>4, InsertCases
    <2>2. /\ \A i \in issued : i < nextId' /\ i # nextId
          /\ \A q \in Requests : InTransaction(q) =>
                id[q] \in 1..MaxId /\ id[q] < nextId' /\ id[q] # nextId
        <3>1. issued \subseteq 1..MaxId
            BY DEF UrlTypeOK
        <3> QED BY <2>1, <3>1, MaxIdAssumption DEF IdsAreFresh
    <2>3. \A q \in Requests \ {r} :
            id'[q] = id[q] /\ (InTransaction(q)' => InTransaction(q))
        <3>1. \E p : pc' = [pc EXCEPT ![r] = p]
            BY <1>4, InsertCases
        <3>2. \E i : id' = [id EXCEPT ![r] = i]
            <4>1. id = [id EXCEPT ![r] = id[r]]
                BY DEF UrlTypeOK
            <4>2. id' = id \/ id' = [id EXCEPT ![r] = nextId]
                BY <1>4, InsertCases
            <4> QED BY <4>1, <4>2
        <3>3. DOMAIN pc = Requests /\ DOMAIN id = Requests
            BY DEF UrlTypeOK
        <3> QED BY <3>1, <3>2, <3>3 DEF InTransaction
    <2>4. InTransaction(r)' => id'[r] = nextId
        <3>1. InTransaction(r)' => pc' = [pc EXCEPT ![r] = "set code"]
            BY <1>4, InsertCases DEF InTransaction, UrlTypeOK
        <3>2. pc' = [pc EXCEPT ![r] = "set code"] => id' = [id EXCEPT ![r] = nextId]
            <4>1. DOMAIN pc = Requests
                BY DEF UrlTypeOK
            <4>2. pc' = [pc EXCEPT ![r] = "set code"] =>
                    /\ pc' # [pc EXCEPT ![r] = "conflict"]
                    /\ pc' # [pc EXCEPT ![r] = "error"]
                BY <4>1
            <4> QED BY <1>4, <4>2, InsertCases
        <3> QED BY <3>1, <3>2 DEF UrlTypeOK
    <2>5. ASSUME NEW p \in Requests, InTransaction(p)'
          PROVE  /\ id'[p] \in 1..MaxId /\ id'[p] < nextId' /\ id'[p] \notin issued'
                 /\ \A q \in Requests \ {p} : InTransaction(q)' => id'[q] # id'[p]
        <3>1. CASE p = r
            BY <2>1, <2>2, <2>3, <2>4, <2>5, <3>1
        <3>2. CASE p # r
            BY <2>1, <2>2, <2>3, <2>4, <2>5, <3>2 DEF IdsAreFresh
        <3> QED BY <3>1, <3>2
    <2> QED BY <2>1, <2>2, <2>5 DEF IdsAreFresh
<1>5. ASSUME NEW r \in Requests, SetCode(r) PROVE IdsAreFresh'
    BY <1>5 DEF SetCode, IdsAreFresh, InTransaction, Goto, UrlTypeOK
<1>6. ASSUME NEW r \in Requests, Commit(r) PROVE IdsAreFresh'
    BY <1>6 DEF Commit, IdsAreFresh, InTransaction, Goto, UrlTypeOK
<1>7. ASSUME NEW r \in Requests, Abort(r) PROVE IdsAreFresh'
    BY <1>7 DEF Abort, IdsAreFresh, InTransaction, Goto, UrlTypeOK
<1>8. ASSUME NEW k \in Keys, DeleteUrl(k) PROVE IdsAreFresh'
    BY <1>8 DEF DeleteUrl, IdsAreFresh, InTransaction, Goto, UrlTypeOK
<1>9. ASSUME NEW k \in Keys, Expire(k) PROVE IdsAreFresh'
    BY <1>9 DEF Expire, IdsAreFresh, InTransaction
<1>10. CASE UNCHANGED urlVars
    BY <1>10 DEF urlVars, IdsAreFresh, InTransaction
<1> QED
    BY <1>1, <1>2, <1>3, <1>4, <1>5, <1>6, <1>7, <1>8, <1>9, <1>10
       DEF UrlNext, Step

\* Nobody gives a row to a key that a transaction holds: another INSERT waits,
\* and an UPDATE finds no row to change.
LEMMA KeysStep ==
    ASSUME UrlTypeOK, KeysAreHeld, [UrlNext]_urlVars
    PROVE  KeysAreHeld'
<1>1. ASSUME NEW r \in Requests, Begin(r) PROVE KeysAreHeld'
    <2>1. \A q \in Requests : InTransaction(q)' => q # r /\ InTransaction(q)
        BY <1>1 DEF Begin, Goto, InTransaction, UrlTypeOK
    <2>2. rows' = rows /\ \A q \in Requests \ {r} : wants'[q] = wants[q]
        BY <1>1 DEF Begin, UrlTypeOK
    <2> QED BY <2>1, <2>2 DEF KeysAreHeld
<1>2. ASSUME NEW r \in Requests, Select(r) PROVE KeysAreHeld'
    <2>1. AfterSelect(Row(r)) \in {"reactivate", "conflict", "insert"}
        BY AfterSelectType
    <2>2. \A q \in Requests : InTransaction(q)' => InTransaction(q)
        BY <1>2, <2>1 DEF Select, Goto, InTransaction, UrlTypeOK
    <2>3. rows' = rows /\ wants' = wants
        BY <1>2 DEF Select
    <2> QED BY <2>2, <2>3 DEF KeysAreHeld
<1>3. ASSUME NEW r \in Requests, Reactivate(r) PROVE KeysAreHeld'
    <2>1. \A q \in Requests : InTransaction(q)' => InTransaction(q)
        BY <1>3 DEF Reactivate, Goto, InTransaction, UrlTypeOK
    <2>2. /\ wants' = wants
          /\ \/ UNCHANGED rows
             \/ Row(r) # NoRow /\ SetRow(r, [Row(r) EXCEPT !.expiry = wants[r].expiry])
        BY <1>3 DEF Reactivate
    <2>3. \A q \in Requests : rows[wants[q].key] = NoRow => rows'[wants[q].key] = NoRow
        BY <2>2 DEF SetRow, Row, UrlTypeOK
    <2> QED BY <2>1, <2>2, <2>3 DEF KeysAreHeld
<1>4. ASSUME NEW r \in Requests, Insert(r) PROVE KeysAreHeld'
    <2>1. /\ rows' = rows /\ wants' = wants
          /\ \A q \in Requests \ {r} : InTransaction(q)' => InTransaction(q)
          /\ InTransaction(r)' => Row(r) = NoRow /\ ~KeyIsHeld(r)
        BY <1>4, InsertCases DEF InTransaction, UrlTypeOK
    <2>2. ~KeyIsHeld(r) => \A q \in Requests \ {r} :
                InTransaction(q) => wants[q].key # wants[r].key
        BY DEF KeyIsHeld
    <2> QED BY <2>1, <2>2 DEF Row, KeysAreHeld
<1>5. ASSUME NEW r \in Requests, SetCode(r) PROVE KeysAreHeld'
    BY <1>5 DEF SetCode, Goto, KeysAreHeld, InTransaction,
          UrlTypeOK
<1>6. ASSUME NEW r \in Requests, Commit(r) PROVE KeysAreHeld'
    BY <1>6 DEF Commit, Goto, KeysAreHeld, InTransaction,
          UrlTypeOK, SetRow
<1>7. ASSUME NEW r \in Requests, Abort(r) PROVE KeysAreHeld'
    BY <1>7 DEF Abort, Goto, KeysAreHeld, InTransaction,
          UrlTypeOK
<1>8. ASSUME NEW k \in Keys, DeleteUrl(k) PROVE KeysAreHeld'
    BY <1>8 DEF DeleteUrl, Goto, KeysAreHeld, InTransaction,
          UrlTypeOK
<1>9. ASSUME NEW k \in Keys, Expire(k) PROVE KeysAreHeld'
    <2>1. rows[k] # NoRow
        <3>1. rows[k].expiry = "future"
            BY <1>9 DEF Expire
        <3> QED BY <3>1 DEF NoRow
    <2>2. \A q \in Requests : InTransaction(q) => wants[q].key # k
        BY <2>1 DEF KeysAreHeld
    <2>3. /\ \A j \in Keys \ {k} : rows'[j] = rows[j]
          /\ wants' = wants /\ pc' = pc
        BY <1>9 DEF Expire, UrlTypeOK
    <2> QED BY <2>2, <2>3, RowType DEF KeysAreHeld, InTransaction
<1>10. CASE UNCHANGED urlVars
    BY <1>10 DEF urlVars, KeysAreHeld, InTransaction
<1> QED
    BY <1>1, <1>2, <1>3, <1>4, <1>5, <1>6, <1>7, <1>8, <1>9, <1>10
       DEF UrlNext, Step

\* The statements of any number of requests keep the sequence's ids fresh and
\* the keys of open transactions held.
LEMMA Invariant == UrlSpec => []IInv
<1>1. IInv /\ [UrlNext]_urlVars => IInv'
    BY TypeStep, IdsStep, KeysStep DEF IInv
<1> QED BY InitHolds, <1>1, PTL DEF UrlSpec

\* Rows, requests and ids keep their types: a request only goes from statement
\* to statement, and a committed row has an id of the sequence.
THEOREM TypeCorrect == UrlSpec => []UrlTypeOK
<1>1. IInv => UrlTypeOK
    BY DEF IInv
<1> QED BY Invariant, <1>1, PTL

----------------------------------------------------------------------------
(* The refinement.                                                         *)

Asks == [r \in Requests |-> [key |-> wants[r].key, expiry |-> wants[r].expiry,
                             status |-> Progress(pc[r])]]

\* The initial states are those of the store.
LEMMA InitMaps == UrlInit => Store!StoreInit
BY DEF UrlInit, Store!StoreInit, Store!NoLink, NoRow, Progress, Answers,
       Expiries, Store!Expiries

\* What the store sees of a request.
LEMMA AskOf ==
    ASSUME UrlTypeOK, NEW r \in Requests
    PROVE  /\ Asks[r].key = wants[r].key /\ Asks[r].expiry = wants[r].expiry
           /\ Asks[r].status = Progress(pc[r])
BY DEF Asks

\* A statement of one request changes nothing but its status in what the store
\* sees of the requests.
LEMMA AskStep ==
    ASSUME UrlTypeOK, NEW r \in Requests, NEW at,
           wants' = wants, pc' = [pc EXCEPT ![r] = at]
    PROVE  Asks' = [Asks EXCEPT ![r].status = Progress(at)]
<1>1. pc \in [Requests -> {"idle"} \cup Statements \cup Answers]
    BY DEF UrlTypeOK
<1>2. \A q \in Requests : pc'[q] = IF q = r THEN at ELSE pc[q]
    BY <1>1
<1> QED BY <1>2 DEF Asks

\* And nothing at all while it stays as it is.
LEMMA AskStays ==
    ASSUME UrlTypeOK, NEW r \in Requests, NEW at,
           wants' = wants, pc' = [pc EXCEPT ![r] = at],
           Progress(at) = Progress(pc[r])
    PROVE  Asks' = Asks
<1>1. pc \in [Requests -> {"idle"} \cup Statements \cup Answers]
    BY DEF UrlTypeOK
<1>2. \A q \in Requests : pc'[q] = IF q = r THEN at ELSE pc[q]
    BY <1>1
<1> QED BY <1>2 DEF Asks

\* Each statement is a step of the store, or none.
LEMMA StepMaps ==
    ASSUME IInv, [UrlNext]_urlVars
    PROVE  [Store!StoreNext]_(Store!storeVars)
<1> SUFFICES ASSUME ~(UNCHANGED <<rows, issued, Asks>>)
             PROVE  Store!StoreNext
    BY DEF Store!storeVars, Asks
<1> USE DEF IInv
<1>0. \A r \in Requests :
        /\ Asks[r].key = wants[r].key /\ Asks[r].expiry = wants[r].expiry
        /\ Asks[r].status = Progress(pc[r])
    BY AskOf
<1>1. ASSUME NEW r \in Requests, Begin(r) PROVE Store!StoreNext
    <2>1. PICK k \in Keys, e \in Expiries :
            wants' = [wants EXCEPT ![r] = [key |-> k, expiry |-> e]]
        BY <1>1 DEF Begin
    <2>2. Asks' = [Asks EXCEPT ![r] = [key |-> k, expiry |-> e,
                                      status |-> "asked"]]
        BY <1>1, <2>1 DEF Begin, Goto, Asks, Progress, Answers, UrlTypeOK
    <2>3. Progress(pc[r]) \notin {"asked", "noticed"}
        BY <1>1 DEF Begin, Progress, Answers
    <2>4. Store!Ask(r)
        BY <1>0, <1>1, <2>2, <2>3
           DEF Begin, Store!Ask, Store!Wants, Asks, Expiries, Store!Expiries
    <2> QED BY <2>4 DEF Store!StoreNext
<1>2. ASSUME NEW r \in Requests, Select(r) PROVE Store!StoreNext
    <2>1. Row(r) = Store!Link(r) /\ Progress(pc[r]) = "asked"
        BY <1>0, <1>2 DEF Select, Row, Store!Link, Asks, Progress, Answers
    <2>2. CASE Row(r).expiry = "past"
        <3>1. pc' = [pc EXCEPT ![r] = "reactivate"] /\ wants' = wants
            BY <1>2, <2>2 DEF Select, AfterSelect, Goto
        <3>2. Asks' = [Asks EXCEPT ![r].status = "noticed"]
            BY <3>1, AskStep DEF Progress, Answers
        <3>3. Store!Notice(r)
            BY <1>0, <1>2, <2>1, <2>2, <3>2
               DEF Store!Notice, Store!Becomes, Asks, Select
        <3> QED BY <3>3 DEF Store!StoreNext
    <2>3. CASE Row(r).expiry = "future"
        <3>1. pc' = [pc EXCEPT ![r] = "conflict"] /\ wants' = wants
            BY <1>2, <2>3 DEF Select, AfterSelect, Goto
        <3>2. Asks' = [Asks EXCEPT ![r].status = "conflict"]
            BY <3>1, AskStep DEF Progress, Answers
        <3>3. Store!Conflict(r)
            BY <1>0, <1>2, <2>1, <2>3, <3>2
               DEF Store!Conflict, Store!Wants, Store!Becomes, Store!NoLink,
                   Asks, Select
        <3> QED BY <3>3 DEF Store!StoreNext, Store!Answered
    <2>4. CASE Row(r).expiry \in {"none", "never"}
        <3>1. pc' = [pc EXCEPT ![r] = "insert"] /\ wants' = wants
            BY <1>2, <2>4 DEF Select, AfterSelect, Goto
        <3>2. Asks' = Asks
            BY <2>1, <3>1, AskStays DEF Progress, Answers
        <3> QED BY <1>2, <3>2 DEF Select
    <2> QED BY <2>2, <2>3, <2>4 DEF UrlTypeOK, Row, NoRow, Expiries
<1>3. ASSUME NEW r \in Requests, Reactivate(r) PROVE Store!StoreNext
    <2>1. Row(r) = Store!Link(r) /\ Progress(pc[r]) = "noticed"
        BY <1>0, <1>3 DEF Reactivate, Row, Store!Link, Asks, Progress, Answers
    <2>2. CASE pc' = [pc EXCEPT ![r] = "renewed"]
        <3>1. /\ Row(r) # NoRow
              /\ SetRow(r, [Row(r) EXCEPT !.expiry = wants[r].expiry])
            BY <1>3, <2>2 DEF Reactivate, Goto, UrlTypeOK
        <3>2. Asks' = [Asks EXCEPT ![r].status = "renewed"]
            BY <1>3, <2>2, AskStep DEF Reactivate, Progress, Answers
        <3>3. Store!Renew(r)
            BY <1>0, <1>3, <2>1, <3>1, <3>2
               DEF Store!Renew, Store!SetLink, Store!Becomes, Store!NoLink,
                   NoRow, SetRow, Asks, Reactivate
        <3> QED BY <3>3 DEF Store!StoreNext, Store!Answered
    <2>3. CASE pc' = [pc EXCEPT ![r] = "error"] /\ Row(r) # NoRow
               /\ SetRow(r, [Row(r) EXCEPT !.expiry = wants[r].expiry])
        <3>1. Asks' = [Asks EXCEPT ![r].status = "error"]
            BY <1>3, <2>3, AskStep DEF Reactivate, Progress, Answers
        <3>2. Store!Renew(r)
            BY <1>0, <1>3, <2>1, <2>3, <3>1
               DEF Store!Renew, Store!SetLink, Store!Becomes, Store!NoLink,
                   NoRow, SetRow, Asks, Reactivate
        <3> QED BY <3>2 DEF Store!StoreNext, Store!Answered
    <2>4. CASE pc' = [pc EXCEPT ![r] = "error"] /\ UNCHANGED rows
        <3>1. Asks' = [Asks EXCEPT ![r].status = "error"]
            BY <1>3, <2>4, AskStep DEF Reactivate, Progress, Answers
        <3>2. Store!Fail(r)
            BY <1>0, <1>3, <2>1, <2>4, <3>1
               DEF Store!Fail, Store!Wants, Store!Becomes, Asks, Reactivate
        <3> QED BY <3>2 DEF Store!StoreNext, Store!Answered
    <2> QED BY <1>3, <2>2, <2>3, <2>4 DEF Reactivate, Goto
<1>4. ASSUME NEW r \in Requests, Insert(r) PROVE Store!StoreNext
    <2>0. /\ pc[r] = "insert" /\ UNCHANGED <<rows, wants, issued>>
          /\ \/ pc' = [pc EXCEPT ![r] = "set code"]
             \/ pc' = [pc EXCEPT ![r] = "conflict"] /\ Row(r) # NoRow
             \/ pc' = [pc EXCEPT ![r] = "error"]
        BY <1>4, InsertCases
    <2>1. Row(r) = Store!Link(r) /\ Progress(pc[r]) = "asked"
        BY <1>0, <2>0 DEF Row, Store!Link, Asks, Progress, Answers
    <2>2. CASE pc' = [pc EXCEPT ![r] = "set code"]
        <3>1. Asks' = Asks
            BY <2>0, <2>1, <2>2, AskStays DEF Progress, Answers
        <3> QED BY <2>0, <3>1
    <2>3. CASE pc' = [pc EXCEPT ![r] = "conflict"] /\ Row(r) # NoRow
        <3>1. Asks' = [Asks EXCEPT ![r].status = "conflict"]
            BY <2>0, <2>3, AskStep DEF Progress, Answers
        <3>2. Store!Conflict(r)
            BY <1>0, <2>0, <2>1, <2>3, <3>1
               DEF Store!Conflict, Store!Wants, Store!Becomes, Store!NoLink,
                   NoRow, Asks
        <3> QED BY <3>2 DEF Store!StoreNext, Store!Answered
    <2>4. CASE pc' = [pc EXCEPT ![r] = "error"]
        <3>1. Asks' = [Asks EXCEPT ![r].status = "error"]
            BY <2>0, <2>4, AskStep DEF Progress, Answers
        <3>2. Store!Fail(r)
            BY <1>0, <2>0, <2>1, <3>1
               DEF Store!Fail, Store!Wants, Store!Becomes, Asks
        <3> QED BY <3>2 DEF Store!StoreNext, Store!Answered
    <2> QED BY <2>0, <2>2, <2>3, <2>4
<1>5. ASSUME NEW r \in Requests, SetCode(r) PROVE Store!StoreNext
    <2>1. Asks' = Asks
        BY <1>5, AskStays DEF SetCode, Goto, Progress, Answers
    <2> QED BY <1>5, <2>1 DEF SetCode
<1>6. ASSUME NEW r \in Requests, Commit(r) PROVE Store!StoreNext
    <2>1. Progress(pc[r]) = "asked" /\ Row(r) = Store!Link(r)
        BY <1>0, <1>6 DEF Commit, Row, Store!Link, Asks, Progress, Answers
    <2>2. Row(r) = NoRow /\ id[r] \in (1..MaxId) \ issued
        BY <1>6 DEF Commit, KeysAreHeld, IdsAreFresh, InTransaction, Row
    <2>3. \/ Asks' = [Asks EXCEPT ![r].status = "created"]
          \/ Asks' = [Asks EXCEPT ![r].status = "error"]
        <3>1. CASE Goto(r, "created")
            BY <1>6, <3>1, AskStep DEF Commit, Goto, Progress, Answers
        <3>2. CASE Goto(r, "error")
            BY <1>6, <3>2, AskStep DEF Commit, Goto, Progress, Answers
        <3> QED BY <1>6, <3>1, <3>2 DEF Commit
    <2>4. Store!SetLink(r, [code |-> id[r], expiry |-> Asks[r].expiry])
        BY <1>0, <1>6 DEF Commit, SetRow, Store!SetLink, Asks
    <2>5. Store!Create(r)
        BY <1>0, <1>6, <2>1, <2>2, <2>3, <2>4
           DEF Commit, Store!Create, Store!Wants, Store!Becomes, Store!NoLink,
               NoRow, Asks
    <2> QED BY <2>5 DEF Store!StoreNext, Store!Answered
<1>7. ASSUME NEW r \in Requests, Abort(r) PROVE Store!StoreNext
    <2>1. Asks' = [Asks EXCEPT ![r].status = "error"]
        BY <1>7, AskStep DEF Abort, Goto, Progress, Answers
    <2>2. Progress(pc[r]) \in {"asked", "noticed"}
        BY <1>7 DEF Abort, Progress, Statements, Answers
    <2>3. Store!Fail(r)
        BY <1>0, <1>7, <2>1, <2>2
           DEF Abort, Store!Fail, Store!Wants, Store!Becomes, Asks
    <2> QED BY <2>3 DEF Store!StoreNext, Store!Answered
<1>8. ASSUME NEW k \in Keys, DeleteUrl(k) PROVE Store!StoreNext
    <2>1. Asks' = Asks
        BY <1>8 DEF DeleteUrl, Asks
    <2>2. Store!Remove
        BY <1>8, <2>1 DEF DeleteUrl, Store!Remove, Store!NoLink, NoRow, Asks
    <2> QED BY <2>2 DEF Store!StoreNext
<1>9. ASSUME NEW k \in Keys, Expire(k) PROVE Store!StoreNext
    <2>1. Asks' = Asks
        BY <1>9 DEF Expire, Asks
    <2>2. Store!TimePasses
        BY <1>9, <2>1 DEF Expire, Store!TimePasses, Asks
    <2> QED BY <2>2 DEF Store!StoreNext
<1>10. ~UNCHANGED urlVars
    BY DEF urlVars, Asks
<1> QED
    BY <1>1, <1>2, <1>3, <1>4, <1>5, <1>6, <1>7, <1>8, <1>9, <1>10
       DEF UrlNext, Step

\* The statements of concurrent requests, rolled back or not, come to a store
\* that answers each request in one step: a key has one link, whose code was
\* never another's, and a conflict or a renewal is about a link that is there.
THEOREM ImplementsAtomicStore == UrlSpec => ImplementsStore
<1>1. UrlInit => Store!StoreInit
    BY InitMaps
<1>2. IInv /\ [UrlNext]_urlVars => [Store!StoreNext]_(Store!storeVars)
    BY StepMaps
<1> QED BY <1>1, <1>2, Invariant, PTL
        DEF UrlSpec, ImplementsStore, Store!StoreSafety
=============================================================================
