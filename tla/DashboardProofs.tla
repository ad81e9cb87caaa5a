---------------------------- MODULE DashboardProofs ----------------------------
(***************************************************************************)
(* Proofs about Dashboard, for any searches, rows, page size and number of *)
(* requests: the type invariant, that the page is never busy without a     *)
(* request, that pages stay in order and skip nothing, and that the list   *)
(* answers the current search if requests neither overlap nor fail.        *)
(***************************************************************************)
EXTENDS Dashboard, TLAPS, SequenceTheorems

\* Each slot holds requests of its kind; a first page has no cursor, and a row
\* that was created has an id.
CallsMatch ==
    /\ call["more"].kind \in {"none", "more"}
    /\ call["create"].kind \in {"none", "create"}
    /\ call["create"].kind = "create" /\ call["create"].served =>
        call["create"].id \in Ids
    /\ \A l \in Loads : call[l].kind \in {"none", "first"}
    /\ \A d \in Deletes : call[d].kind \in {"none", "delete", "reload"}
    /\ \A k \in Calls : call[k].kind \in {"first", "reload"} =>
                            call[k].cursor = 0

\* url_ids only grow, so that a lagging replica lacks none of the rows that
\* were read from it and still exist.
LagIsHarmless ==
    /\ \A r \in rows \cup replica \cup base : r < nextId
    /\ \A k \in Calls : \A r \in call[k].snap : r < nextId
    /\ base \cap rows \subseteq replica
    /\ \A k \in Listing : call[k].served => call[k].snap \cap rows \subseteq replica

\* A load-more for the list on the screen continues at its cursor, with all that
\* is left of the rows the list was read from.
MoreContinues ==
    (call["more"].kind = "more" /\ call["more"].fresh) =>
        /\ call["more"].cursor = nextCursor /\ nextCursor # 0
        /\ call["more"].served => base \cap rows \subseteq call["more"].snap

\* What is below the cursor has not been shown by a page.
AboveCursor ==
    (~tangled /\ nextCursor # 0) =>
        \A i \in DOMAIN pages : \A a \in pages[i] : nextCursor <= a

PagesInv == PagesInOrder /\ AboveCursor /\ NothingSkipped

\* While list requests come one at a time and do not fail, the one under way is
\* for the current search, and a load-more for the list on the screen.
OneAtATime ==
    (~overlapped /\ ~failed) =>
        /\ \A j, k \in Listing : j = k
        /\ \A k \in Listing : /\ call[k].search = debouncedSearch
                              /\ call[k].kind # "reload"
        /\ call["more"].kind = "more" =>
            call["more"].fresh /\ listFor = debouncedSearch

OrderInv == OneAtATime /\ OrderlyListIsCurrent

IInv == /\ TypeOK /\ CallsMatch /\ BusyMeansRequest
        /\ LagIsHarmless /\ MoreContinues /\ PagesInv /\ OrderInv

----------------------------------------------------------------------------
(* Types.                                                                  *)

\* The constants' assumptions together.
Constants ==
    /\ NoSearch \in Searches
    /\ Matching \in [Searches -> SUBSET Ids] /\ Matching[NoSearch] = Ids
    /\ PageSize \in Nat \ {0} /\ MaxId \in Nat /\ InitialRows \in 0..MaxId
    /\ MaxChanges \in Nat /\ Loads \cap Deletes = {}
    /\ {"more", "create"} \cap (Loads \cup Deletes) = {}

LEMMA ConstantsHold == Constants
BY SearchAssumption, MatchAssumption, CountAssumption, SlotAssumption
   DEF Constants

\* What a call starts and ends as.
LEMMA NewCalls ==
    /\ NoCall \in CallType /\ Post \in CallType
    /\ \A kind \in ListKinds, s \in Searches, c \in 0..MaxId :
        Get(kind, s, c) \in CallType
    /\ \A i \in Ids : Delete(i) \in CallType
<1>1. NoSearch \in Searches /\ 0 \in 0..MaxId /\ Ids \subseteq 0..MaxId
    BY ConstantsHold DEF Constants, Ids
<1>2. NoCall \in CallType
    BY <1>1 DEF NoCall, CallType
<1>3. Post \in CallType
    BY <1>2 DEF Post, CallType
<1>4. ASSUME NEW kind \in ListKinds, NEW s \in Searches, NEW c \in 0..MaxId
      PROVE  Get(kind, s, c) \in CallType
    BY <1>2 DEF Get, CallType
<1>5. ASSUME NEW i \in Ids
      PROVE  Delete(i) \in CallType
    BY <1>1, <1>2 DEF Delete, CallType
<1> QED BY <1>2, <1>3, <1>4, <1>5

\* One call changes.
LEMMA CallsKeepType ==
    ASSUME TypeOK, NEW k \in Calls, NEW c \in CallType,
           call' = [call EXCEPT ![k] = c]
    PROVE  call' \in [Calls -> CallType]
BY DEF TypeOK

\* A page of candidates and its cursor.
LEMMA PagesAreIds ==
    ASSUME TypeOK, NEW k \in Calls, NEW page, NEW next,
           IsPage(page, next, Candidates(call[k]))
    PROVE  page \subseteq Ids /\ next \in 0..MaxId
<1>1. call[k].snap \subseteq Ids
    BY DEF TypeOK, CallType
<1> QED BY <1>1, ConstantsHold DEF IsPage, Candidates, Ids, Constants

\* A page replaces the list.
LEMMA ReplaceType ==
    ASSUME TypeOK, NEW k \in Calls, NEW page \in SUBSET Ids,
           NEW next \in 0..MaxId, Replace(k, page, next)
    PROVE  /\ made' \subseteq Ids /\ pages' \in Seq(SUBSET Ids)
           /\ nextCursor' \in 0..MaxId /\ listFor' \in Searches
           /\ base' \subseteq Ids /\ removed' \subseteq Ids
           /\ tangled' \in BOOLEAN /\ call' \in [Calls -> CallType]
<1>1. call[k] \in CallType /\ call["more"] \in CallType
    BY DEF TypeOK, Calls
<1>2. [call["more"] EXCEPT !.fresh = FALSE] \in CallType
      /\ [NoCall EXCEPT !.fresh = FALSE] \in CallType
    BY <1>1, NewCalls DEF CallType
<1>3. call' \in [Calls -> CallType]
    BY <1>1, <1>2, NewCalls DEF Replace, TypeOK, Calls
<1>4. call[k].search \in Searches /\ call[k].snap \subseteq Ids
    BY <1>1 DEF CallType
<1>5. <<page>> \in Seq(SUBSET Ids)
    OBVIOUS
<1> QED BY <1>3, <1>4, <1>5 DEF Replace

\* Every step keeps the types.
LEMMA TypeStep ==
    ASSUME TypeOK, CallsMatch, [Next]_vars
    PROVE  TypeOK'
<1> USE DEF server, search, list, loading, trace
<1>1. ASSUME NEW k \in Calls, ServeList(k) PROVE TypeOK'
    <2>1. [call[k] EXCEPT !.served = TRUE, !.snap = replica] \in CallType
        BY DEF TypeOK, CallType
    <2>2. call' \in [Calls -> CallType]
        BY <1>1, <2>1 DEF ServeList, TypeOK
    <2> QED BY <1>1, <2>2 DEF ServeList, TypeOK
<1>2. ASSUME NEW k \in Calls, ServeDelete(k) PROVE TypeOK'
    <2>1. [call[k] EXCEPT !.served = TRUE] \in CallType
        BY DEF TypeOK, CallType
    <2>2. call' \in [Calls -> CallType]
        BY <1>2, <2>1 DEF ServeDelete, TypeOK
    <2> QED BY <1>2, <2>2 DEF ServeDelete, TypeOK
<1>3. CASE ServeCreate
    <2>0. "create" \in Calls /\ call["create"] \in CallType
        BY DEF TypeOK, Calls
    <2>1. ASSUME NEW i \in Ids
          PROVE  [call["create"] EXCEPT !.served = TRUE, !.id = i] \in CallType
        <3>1. i \in 0..MaxId
            BY ConstantsHold DEF Ids, Constants
        <3>2. [call["create"] EXCEPT !.served = TRUE] \in CallType
            BY <2>0 DEF CallType
        <3> QED BY <3>1, <3>2 DEF CallType
    <2>2. PICK i \in Ids :
            /\ call' = [call EXCEPT !["create"].served = TRUE,
                                    !["create"].id = i]
            /\ \/ /\ nextId <= MaxId /\ i = nextId
                  /\ rows' = rows \cup {i} /\ nextId' = nextId + 1
               \/ UNCHANGED <<rows, nextId>>
        <3>1. nextId <= MaxId => nextId \in Ids
            BY ConstantsHold DEF TypeOK, Ids, Constants
        <3> QED BY <1>3, <3>1 DEF ServeCreate, TypeOK
    <2>3. call' \in [Calls -> CallType]
        <3>1. call' = [call EXCEPT !["create"] =
                        [call["create"] EXCEPT !.served = TRUE, !.id = i]]
            BY <2>2
        <3> QED BY <2>0, <2>1, <3>1, CallsKeepType
    <2>4. rows' \subseteq Ids /\ nextId' \in 1..(MaxId + 1)
        BY <2>2, ConstantsHold DEF TypeOK, Constants
    <2> QED BY <1>3, <2>3, <2>4 DEF ServeCreate, TypeOK
<1>4. CASE Elsewhere
    BY <1>4, ConstantsHold DEF Elsewhere, Change, TypeOK, Constants
<1>5. CASE Replicate
    BY <1>5 DEF Replicate, TypeOK
<1>6. ASSUME NEW s \in Searches, TypeSearch(s) PROVE TypeOK'
    BY <1>6, ConstantsHold DEF TypeSearch, Change, TypeOK, Constants
<1>7. CASE LoadMore
    <2>1. call' \in [Calls -> CallType]
        BY <1>7, NewCalls, CallsKeepType
           DEF LoadMore, TypeOK, Calls, ListKinds
    <2> QED BY <1>7, <2>1 DEF LoadMore, TypeOK
<1>8. CASE Shorten
    <2>1. call' \in [Calls -> CallType]
        BY <1>8, NewCalls, CallsKeepType DEF Shorten, Calls
    <2> QED BY <1>8, <2>1, ConstantsHold
            DEF Shorten, Change, TypeOK, Constants
<1>9. ASSUME NEW d \in Deletes, NEW id \in Ids, DeleteRow(d, id)
      PROVE  TypeOK'
    <2>1. call' \in [Calls -> CallType]
        BY <1>9, NewCalls, CallsKeepType DEF DeleteRow, Calls
    <2>2. pages' \in Seq(SUBSET Ids)
        <3>1. /\ Len(pages) \in Nat /\ DOMAIN pages = 1..Len(pages)
              /\ \A i \in DOMAIN pages : pages[i] \subseteq Ids
            BY LenProperties, ElementOfSeq DEF TypeOK
        <3>2. pages' \in [1..Len(pages) -> SUBSET Ids]
            BY <1>9, <3>1 DEF DeleteRow, Without
        <3> QED BY <3>1, <3>2, SeqDef
    <2>3. made' \subseteq Ids /\ removed' \subseteq Ids
        BY <1>9 DEF DeleteRow, Without, TypeOK
    <2> QED BY <1>9, <2>1, <2>2, <2>3, ConstantsHold
            DEF DeleteRow, Change, TypeOK, Constants
<1>10. ASSUME NEW l \in Loads, FirstOk(l) PROVE TypeOK'
    <2>1. PICK page, next : /\ IsPage(page, next, Candidates(call[l]))
                            /\ Replace(l, page, next)
        BY <1>10 DEF FirstOk
    <2>2. page \subseteq Ids /\ next \in 0..MaxId
        BY <2>1, PagesAreIds DEF Calls
    <2> QED BY <1>10, <2>1, <2>2, ReplaceType DEF FirstOk, TypeOK, Calls
<1>11. ASSUME NEW l \in Loads, FirstFails(l) PROVE TypeOK'
    <2>1. call' \in [Calls -> CallType]
        BY <1>11, NewCalls, CallsKeepType DEF FirstFails, Calls
    <2> QED BY <1>11, <2>1 DEF FirstFails, TypeOK
<1>12. CASE MoreOk
    <2>1. PICK page, next :
            /\ IsPage(page, next, Candidates(call["more"]))
            /\ pages' = Append(pages, page) /\ nextCursor' = next
        BY <1>12 DEF MoreOk
    <2>2. page \subseteq Ids /\ next \in 0..MaxId
        BY <2>1, PagesAreIds DEF Calls
    <2>3. pages' \in Seq(SUBSET Ids)
        BY <2>1, <2>2, AppendProperties DEF TypeOK
    <2>4. call' \in [Calls -> CallType]
        BY <1>12, NewCalls, CallsKeepType DEF MoreOk, Calls
    <2>5. tangled' \in BOOLEAN
        BY <1>12 DEF MoreOk
    <2> QED BY <1>12, <2>1, <2>2, <2>3, <2>4, <2>5 DEF MoreOk, TypeOK
<1>13. CASE MoreFails
    <2>1. call' \in [Calls -> CallType]
        BY <1>13, NewCalls, CallsKeepType DEF MoreFails, Calls
    <2> QED BY <1>13, <2>1 DEF MoreFails, TypeOK
<1>14. CASE ShortenOk
    <2>1. call' \in [Calls -> CallType]
        BY <1>14, NewCalls, CallsKeepType DEF ShortenOk, Calls
    <2>2. made' \subseteq Ids
        BY <1>14 DEF ShortenOk, TypeOK, CallsMatch, Arrives
    <2> QED BY <1>14, <2>1, <2>2 DEF ShortenOk, TypeOK
<1>more. CASE ShortenFails
    <2>1. call' \in [Calls -> CallType]
        BY <1>more, NewCalls, CallsKeepType DEF ShortenFails, Calls
    <2> QED BY <1>more, <2>1 DEF ShortenFails, TypeOK
<1>16. ASSUME NEW d \in Deletes, DeleteOk(d) PROVE TypeOK'
    <2>1. call' \in [Calls -> CallType]
        BY <1>16, NewCalls, CallsKeepType DEF DeleteOk, Calls
    <2> QED BY <1>16, <2>1 DEF DeleteOk, TypeOK
<1>17. ASSUME NEW d \in Deletes, DeleteFails(d) PROVE TypeOK'
    <2>1. Get("reload", NoSearch, 0) \in CallType
        BY NewCalls, ConstantsHold DEF Constants, ListKinds
    <2>2. call' \in [Calls -> CallType]
        BY <1>17, <2>1, CallsKeepType DEF DeleteFails, Calls
    <2> QED BY <1>17, <2>2 DEF DeleteFails, TypeOK
<1>18. ASSUME NEW d \in Deletes, ReloadOk(d) PROVE TypeOK'
    <2>1. PICK page, next : /\ IsPage(page, next, Candidates(call[d]))
                            /\ Replace(d, page, next)
        BY <1>18 DEF ReloadOk
    <2>2. page \subseteq Ids /\ next \in 0..MaxId
        BY <2>1, PagesAreIds DEF Calls
    <2> QED BY <1>18, <2>1, <2>2, ReplaceType DEF ReloadOk, TypeOK, Calls
<1>19. ASSUME NEW d \in Deletes, ReloadFails(d) PROVE TypeOK'
    <2>1. call' \in [Calls -> CallType]
        BY <1>19, NewCalls, CallsKeepType DEF ReloadFails, Calls
    <2> QED BY <1>19, <2>1 DEF ReloadFails, TypeOK
<1>20. ASSUME NEW l \in Loads, Debounce(l) PROVE TypeOK'
    <2>1. Get("first", searchQuery, 0) \in CallType
        BY NewCalls, ConstantsHold DEF Constants, ListKinds, TypeOK
    <2>2. call' \in [Calls -> CallType]
        BY <1>20, <2>1, CallsKeepType DEF Debounce, Calls
    <2> QED BY <1>20, <2>2 DEF Debounce, TypeOK
<1>21. CASE UNCHANGED vars
    BY <1>21 DEF vars, TypeOK
<1> QED
    BY <1>1, <1>2, <1>3, <1>4, <1>5, <1>6, <1>7, <1>8, <1>9, <1>10, <1>11,
       <1>12, <1>13, <1>14, <1>more, <1>16, <1>17, <1>18, <1>19, <1>20, <1>21
       DEF Next, Server, User, Answers, LoadEnds, MoreEnds, ShortenEnds,
           DeleteEnds
\* The fields that tell them apart.
LEMMA NewFields ==
    /\ \A kind, s, c :
        /\ Get(kind, s, c).kind = kind /\ Get(kind, s, c).search = s
        /\ Get(kind, s, c).cursor = c /\ Get(kind, s, c).fresh = TRUE
        /\ Get(kind, s, c).served = FALSE
        /\ Get(kind, s, c).snap = {}
    /\ \A i : Delete(i).kind = "delete" /\ Delete(i).snap = {}
    /\ Post.kind = "create" /\ Post.served = FALSE /\ Post.snap = {}
    /\ NoCall.kind = "none" /\ NoCall.snap = {}
BY DEF Get, Delete, Post, NoCall

----------------------------------------------------------------------------
(* The requests and what waits for them.                                   *)

\* A call that is replaced by another of the slot's kinds.
LEMMA SlotsDiffer ==
    /\ "more" \in Calls /\ "create" \in Calls
    /\ Loads \subseteq Calls /\ Deletes \subseteq Calls
    /\ \A l \in Loads : l # "more" /\ l # "create" /\ l \notin Deletes
    /\ \A d \in Deletes : d # "more" /\ d # "create" /\ d \notin Loads
BY ConstantsHold DEF Constants, Calls

\* Every step keeps the slots' kinds, and ends no request but its own.
LEMMA CallsStep ==
    ASSUME TypeOK, CallsMatch, BusyMeansRequest, [Next]_vars
    PROVE  CallsMatch' /\ BusyMeansRequest'
<1> DEFINE Goal == CallsMatch' /\ BusyMeansRequest'
<1> USE SlotsDiffer DEF server, search, list, loading, trace
<1>0. call \in [Calls -> CallType]
    BY DEF TypeOK
<1>1. ASSUME NEW k \in Calls, ServeList(k) PROVE Goal
    <2>1. /\ \A j \in Calls \ {k} : call'[j] = call[j]
          /\ call'[k].kind = call[k].kind /\ call'[k].cursor = call[k].cursor
          /\ call'[k].id = call[k].id
          /\ call[k].kind \in ListKinds
        BY <1>0, <1>1 DEF ServeList, CallType, Listing
    <2>2. CallsMatch'
        BY <2>1 DEF CallsMatch, ListKinds
    <2>3. BusyMeansRequest'
        BY <1>1, <2>1 DEF ServeList, BusyMeansRequest
    <2> QED BY <2>2, <2>3
<1>2. ASSUME NEW k \in Calls, ServeDelete(k) PROVE Goal
    <2>1. /\ \A j \in Calls \ {k} : call'[j] = call[j]
          /\ call'[k].kind = call[k].kind /\ call'[k].cursor = call[k].cursor
          /\ call'[k].id = call[k].id
          /\ call[k].kind = "delete"
        BY <1>0, <1>2 DEF ServeDelete, CallType
    <2>2. CallsMatch'
        BY <2>1 DEF CallsMatch
    <2>3. BusyMeansRequest'
        BY <1>2, <2>1 DEF ServeDelete, BusyMeansRequest
    <2> QED BY <2>2, <2>3
<1>3. CASE ServeCreate
    <2>1. /\ \A j \in Calls \ {"create"} : call'[j] = call[j]
          /\ call'["create"].kind = "create" /\ call["create"].kind = "create"
          /\ call'["create"].id \in Ids
        <3>1. nextId <= MaxId => nextId \in Ids
            BY ConstantsHold DEF TypeOK, Ids, Constants
        <3>2. rows \subseteq Ids
            BY DEF TypeOK
        <3> QED BY <1>0, <1>3, <3>1, <3>2 DEF ServeCreate, CallType
    <2>2. CallsMatch'
        BY <2>1 DEF CallsMatch
    <2>3. BusyMeansRequest'
        BY <1>3, <2>1 DEF ServeCreate, BusyMeansRequest
    <2> QED BY <2>2, <2>3
<1>4. CASE Elsewhere \/ Replicate \/ (\E s \in Searches : TypeSearch(s))
    BY <1>4 DEF Elsewhere, Replicate, TypeSearch, CallsMatch, BusyMeansRequest
<1>7. CASE LoadMore
    <2>1. /\ \A j \in Calls \ {"more"} : call'[j] = call[j]
          /\ call'["more"] = Get("more", debouncedSearch, nextCursor)
        BY <1>0, <1>7 DEF LoadMore
    <2>2. CallsMatch'
        BY <2>1, NewFields DEF CallsMatch
    <2>3. BusyMeansRequest'
        BY <1>7, <2>1, NewFields
           DEF LoadMore, BusyMeansRequest, CallsMatch
    <2> QED BY <2>2, <2>3
<1>8. CASE Shorten
    <2>1. /\ \A j \in Calls \ {"create"} : call'[j] = call[j]
          /\ call'["create"] = Post
        BY <1>0, <1>8 DEF Shorten
    <2>2. CallsMatch'
        BY <2>1, NewFields DEF CallsMatch
    <2>3. BusyMeansRequest'
        BY <1>8, <2>1, NewFields
           DEF Shorten, BusyMeansRequest, CallsMatch
    <2> QED BY <2>2, <2>3
<1>9. ASSUME NEW d \in Deletes, NEW id \in Ids, DeleteRow(d, id) PROVE Goal
    <2>1. /\ \A j \in Calls \ {d} : call'[j] = call[j]
          /\ call'[d] = Delete(id)
        BY <1>0, <1>9 DEF DeleteRow
    <2>2. CallsMatch'
        BY <2>1, NewFields DEF CallsMatch
    <2>3. BusyMeansRequest'
        BY <1>9, <2>1, NewFields
           DEF DeleteRow, BusyMeansRequest, CallsMatch
    <2> QED BY <2>2, <2>3
<1>11. ASSUME NEW l \in Loads, FirstFails(l) PROVE Goal
    <2>1. /\ \A j \in Calls \ {l} : call'[j] = call[j]
          /\ call'[l] = NoCall
        BY <1>0, <1>11 DEF FirstFails
    <2>2. CallsMatch'
        BY <2>1, NewFields DEF CallsMatch
    <2>3. BusyMeansRequest'
        BY <1>11, <2>1, NewFields
           DEF FirstFails, BusyMeansRequest, CallsMatch
    <2> QED BY <2>2, <2>3
<1>16. ASSUME NEW d \in Deletes, DeleteOk(d) PROVE Goal
    <2>1. /\ \A j \in Calls \ {d} : call'[j] = call[j]
          /\ call'[d] = NoCall
        BY <1>0, <1>16 DEF DeleteOk
    <2>2. CallsMatch'
        BY <2>1, NewFields DEF CallsMatch
    <2>3. BusyMeansRequest'
        BY <1>16, <2>1, NewFields
           DEF DeleteOk, BusyMeansRequest, CallsMatch
    <2> QED BY <2>2, <2>3
<1>19. ASSUME NEW d \in Deletes, ReloadFails(d) PROVE Goal
    <2>1. /\ \A j \in Calls \ {d} : call'[j] = call[j]
          /\ call'[d] = NoCall
        BY <1>0, <1>19 DEF ReloadFails
    <2>2. CallsMatch'
        BY <2>1, NewFields DEF CallsMatch
    <2>3. BusyMeansRequest'
        BY <1>19, <2>1, NewFields
           DEF ReloadFails, BusyMeansRequest, CallsMatch
    <2> QED BY <2>2, <2>3
<1>12. CASE MoreOk
    <2>1. /\ \A j \in Calls \ {"more"} : call'[j] = call[j]
          /\ call'["more"] = NoCall
        BY <1>0, <1>12 DEF MoreOk
    <2>2. CallsMatch'
        BY <2>1, NewFields DEF CallsMatch
    <2>3. BusyMeansRequest'
        BY <1>12, <2>1, NewFields
           DEF MoreOk, BusyMeansRequest, CallsMatch
    <2> QED BY <2>2, <2>3
<1>13. CASE MoreFails
    <2>1. /\ \A j \in Calls \ {"more"} : call'[j] = call[j]
          /\ call'["more"] = NoCall
        BY <1>0, <1>13 DEF MoreFails
    <2>2. CallsMatch'
        BY <2>1, NewFields DEF CallsMatch
    <2>3. BusyMeansRequest'
        BY <1>13, <2>1, NewFields
           DEF MoreFails, BusyMeansRequest, CallsMatch
    <2> QED BY <2>2, <2>3
<1>14. CASE ShortenOk
    <2>1. /\ \A j \in Calls \ {"create"} : call'[j] = call[j]
          /\ call'["create"] = NoCall
        BY <1>0, <1>14 DEF ShortenOk
    <2>2. CallsMatch'
        BY <2>1, NewFields DEF CallsMatch
    <2>3. BusyMeansRequest'
        BY <1>14, <2>1, NewFields
           DEF ShortenOk, BusyMeansRequest, CallsMatch
    <2> QED BY <2>2, <2>3
<1>more. CASE ShortenFails
    <2>1. /\ \A j \in Calls \ {"create"} : call'[j] = call[j]
          /\ call'["create"] = NoCall
        BY <1>0, <1>more DEF ShortenFails
    <2>2. CallsMatch'
        BY <2>1, NewFields DEF CallsMatch
    <2>3. BusyMeansRequest'
        BY <1>more, <2>1, NewFields
           DEF ShortenFails, BusyMeansRequest, CallsMatch
    <2> QED BY <2>2, <2>3
<1>17. ASSUME NEW d \in Deletes, DeleteFails(d) PROVE Goal
    <2>1. /\ \A j \in Calls \ {d} : call'[j] = call[j]
          /\ call'[d] = Get("reload", NoSearch, 0)
        BY <1>0, <1>17 DEF DeleteFails
    <2>2. CallsMatch'
        BY <2>1, NewFields DEF CallsMatch
    <2>3. BusyMeansRequest'
        BY <1>17, <2>1, NewFields
           DEF DeleteFails, BusyMeansRequest, CallsMatch
    <2> QED BY <2>2, <2>3
<1>20. ASSUME NEW l \in Loads, Debounce(l) PROVE Goal
    <2>1. /\ \A j \in Calls \ {l} : call'[j] = call[j]
          /\ call'[l] = Get("first", searchQuery, 0)
        BY <1>0, <1>20 DEF Debounce
    <2>2. CallsMatch'
        BY <2>1, NewFields DEF CallsMatch
    <2>3. BusyMeansRequest'
        BY <1>20, <2>1, NewFields
           DEF Debounce, BusyMeansRequest, CallsMatch
    <2> QED BY <2>2, <2>3
<1>10. ASSUME NEW l \in Loads, FirstOk(l) PROVE Goal
    <2>1. /\ \A j \in Calls \ {l} : /\ call'[j].kind = call[j].kind
                                     /\ call'[j].cursor = call[j].cursor
                                     /\ call'[j].id = call[j].id
                                     /\ call'[j].served = call[j].served
          /\ call'[l] = NoCall
        BY <1>0, <1>10 DEF FirstOk, Replace, CallType
    <2>2. CallsMatch'
        BY <2>1, NewFields DEF CallsMatch
    <2>3. BusyMeansRequest'
        BY <1>10, <2>1, NewFields
           DEF FirstOk, BusyMeansRequest, CallsMatch
    <2> QED BY <2>2, <2>3
<1>18. ASSUME NEW d \in Deletes, ReloadOk(d) PROVE Goal
    <2>1. /\ \A j \in Calls \ {d} : /\ call'[j].kind = call[j].kind
                                     /\ call'[j].cursor = call[j].cursor
                                     /\ call'[j].id = call[j].id
                                     /\ call'[j].served = call[j].served
          /\ call'[d] = NoCall
        BY <1>0, <1>18 DEF ReloadOk, Replace, CallType
    <2>2. CallsMatch'
        BY <2>1, NewFields DEF CallsMatch
    <2>3. BusyMeansRequest'
        BY <1>18, <2>1, NewFields
           DEF ReloadOk, BusyMeansRequest, CallsMatch
    <2> QED BY <2>2, <2>3
<1>21. CASE UNCHANGED vars
    BY <1>21 DEF vars, CallsMatch, BusyMeansRequest
<1> QED
    BY <1>1, <1>2, <1>3, <1>4, <1>7, <1>8, <1>9, <1>10, <1>11, <1>12, <1>13,
       <1>14, <1>more, <1>16, <1>17, <1>18, <1>19, <1>20, <1>21
       DEF Next, Server, User, Answers, LoadEnds, MoreEnds, ShortenEnds,
           DeleteEnds
----------------------------------------------------------------------------
(* The replica's lag.                                                      *)

\* A call that begins or ends, with nothing served.
LEMMA LagNewCall ==
    ASSUME TypeOK, LagIsHarmless, MoreContinues, NEW k \in Calls, NEW c,
           call' = [call EXCEPT ![k] = c],
           c.snap = {}, c.kind \in ListKinds => ~c.served,
           UNCHANGED <<rows, replica, nextId, base>>,
           IF k = "more" THEN c.kind = "more" => /\ c.cursor = nextCursor
                                                 /\ nextCursor # 0
                                                 /\ nextCursor' = nextCursor
           ELSE nextCursor' = nextCursor
    PROVE  LagIsHarmless' /\ MoreContinues'
<1>1. call \in [Calls -> CallType]
    BY DEF TypeOK
<1>2. call'[k] = c /\ \A j \in Calls \ {k} : call'[j] = call[j]
    BY <1>1
<1>3. LagIsHarmless'
    BY <1>2 DEF LagIsHarmless, Listing
<1>4. MoreContinues'
    BY <1>2, SlotsDiffer DEF MoreContinues, ListKinds
<1> QED BY <1>3, <1>4

\* A page that replaces the list: its rows become the base, and a load-more
\* under way is of the list before.
LEMMA LagReplace ==
    ASSUME TypeOK, CallsMatch, LagIsHarmless, NEW k \in Calls, k # "more",
           NEW page, NEW next,
           k \in Listing, call[k].served, Replace(k, page, next),
           UNCHANGED <<rows, replica, nextId>>
    PROVE  LagIsHarmless' /\ MoreContinues'
<1>1. call \in [Calls -> CallType]
    BY DEF TypeOK
<1>2. /\ call'[k] = NoCall /\ call'["more"].fresh = FALSE
      /\ \A j \in Calls \ {k} : /\ call'[j].kind = call[j].kind
                                /\ call'[j].served = call[j].served
                                /\ call'[j].snap = call[j].snap
    BY <1>1, SlotsDiffer DEF Replace, CallType
<1>3. base' = call[k].snap
    BY DEF Replace
<1>4. LagIsHarmless'
    BY <1>2, <1>3, NewFields DEF LagIsHarmless, Listing, ListKinds
<1>5. MoreContinues'
    BY <1>2 DEF MoreContinues
<1> QED BY <1>4, <1>5

\* Every step keeps what was read from the replica within it.
LEMMA LagStep ==
    ASSUME TypeOK, CallsMatch, LagIsHarmless, MoreContinues, [Next]_vars
    PROVE  LagIsHarmless' /\ MoreContinues'
<1> DEFINE Goal == LagIsHarmless' /\ MoreContinues'
<1> USE SlotsDiffer DEF server, search, list, loading, trace
<1>0. call \in [Calls -> CallType]
    BY DEF TypeOK
<1>1. ASSUME NEW k \in Calls, ServeList(k) PROVE Goal
    <2>1. /\ \A j \in Calls \ {k} : call'[j] = call[j]
          /\ call'[k].kind = call[k].kind /\ call'[k].cursor = call[k].cursor
          /\ call'[k].fresh = call[k].fresh /\ call'[k].snap = replica
        BY <1>0, <1>1 DEF ServeList, CallType
    <2>2. UNCHANGED <<rows, replica, nextId, base, nextCursor>>
        BY <1>1 DEF ServeList
    <2>3. LagIsHarmless'
        BY <2>1, <2>2 DEF LagIsHarmless, Listing
    <2>4. MoreContinues'
        BY <2>1, <2>2 DEF LagIsHarmless, MoreContinues
    <2> QED BY <2>3, <2>4
<1>2. ASSUME NEW k \in Calls, ServeDelete(k) PROVE Goal
    <2>1. /\ \A j \in Calls \ {k} : call'[j] = call[j]
          /\ call'[k].kind = "delete" /\ call[k].kind = "delete"
          /\ call'[k].snap = call[k].snap
        BY <1>0, <1>2 DEF ServeDelete, CallType
    <2>2. rows' \subseteq rows /\ UNCHANGED <<replica, nextId, base, nextCursor>>
        BY <1>2 DEF ServeDelete
    <2>3. LagIsHarmless'
        BY <2>1, <2>2 DEF LagIsHarmless, Listing, ListKinds
    <2>4. MoreContinues'
        BY <2>1, <2>2 DEF MoreContinues
    <2> QED BY <2>3, <2>4
<1>3. CASE ServeCreate
    <2>1. /\ \A j \in Calls \ {"create"} : call'[j] = call[j]
          /\ call'["create"].kind = "create"
          /\ call'["create"].snap = call["create"].snap
        BY <1>0, <1>3 DEF ServeCreate, CallType
    <2>2. /\ \/ UNCHANGED <<rows, nextId>>
             \/ rows' = rows \cup {nextId} /\ nextId' = nextId + 1
          /\ UNCHANGED <<replica, base, nextCursor>>
        BY <1>3 DEF ServeCreate
    <2>3. /\ nextId \in Nat /\ rows \subseteq Nat /\ replica \subseteq Nat
          /\ base \subseteq Nat /\ \A k \in Calls : call[k].snap \subseteq Nat
        BY <1>0, ConstantsHold DEF TypeOK, CallType, Ids, Constants
    <2>4. /\ \A r \in rows \cup replica \cup base : r < nextId'
          /\ \A k \in Calls : \A r \in call[k].snap : r < nextId'
          /\ \A r \in rows' : r < nextId'
        <3>1. nextId' = nextId \/ nextId' = nextId + 1
            BY <2>2
        <3>2. \A r \in Nat : r < nextId => r < nextId'
            BY <2>3, <3>1
        <3>3. \A r \in rows \cup replica \cup base : r < nextId'
            BY <2>3, <3>2 DEF LagIsHarmless
        <3>4. \A k \in Calls : \A r \in call[k].snap : r < nextId'
            BY <2>3, <3>2 DEF LagIsHarmless
        <3>5. \A r \in rows' : r < nextId'
            <4>1. \A r \in rows' :
                    r \in rows \/ (r = nextId /\ nextId' = nextId + 1)
                BY <2>2
            <4>2. nextId < nextId + 1
                BY <2>3
            <4> QED BY <3>3, <4>1, <4>2
        <3> QED BY <3>3, <3>4, <3>5
    <2>5. /\ \A r \in base \cap rows' : r \in rows
          /\ \A k \in Calls : \A r \in call[k].snap \cap rows' : r \in rows
        BY <2>2, <2>3 DEF LagIsHarmless
    <2>6. /\ \A k \in Calls : call'[k].snap = call[k].snap
          /\ \A k \in Listing' : k \in Listing /\ call'[k] = call[k]
        BY <2>1 DEF Listing, ListKinds
    <2>7. LagIsHarmless'
        <3>1. \A r \in (rows \cup replica \cup base)' : r < nextId'
            BY <2>2, <2>4
        <3>2. (base \cap rows)' \subseteq replica'
            BY <2>2, <2>5 DEF LagIsHarmless
        <3>3. \A k \in Listing' : call'[k].served =>
                call'[k].snap \cap rows' \subseteq replica'
            BY <2>2, <2>5, <2>6 DEF LagIsHarmless, Listing
        <3> QED BY <2>4, <2>6, <3>1, <3>2, <3>3 DEF LagIsHarmless
    <2>8. MoreContinues'
        BY <2>1, <2>2, <2>5 DEF MoreContinues
    <2> QED BY <2>7, <2>8
<1>4. CASE Elsewhere
    BY <1>4 DEF Elsewhere, LagIsHarmless, MoreContinues, Listing
<1>5. CASE Replicate
    BY <1>5 DEF Replicate, LagIsHarmless, MoreContinues, Listing
<1>6. CASE (\E s \in Searches : TypeSearch(s)) \/ UNCHANGED vars
    BY <1>6 DEF TypeSearch, vars, LagIsHarmless, MoreContinues, Listing
<1>7. CASE LoadMore
    <2> DEFINE c == Get("more", debouncedSearch, nextCursor)
    <2>1. c.snap = {} /\ ~c.served /\ c.cursor = nextCursor
        BY NewFields
    <2> HIDE DEF c
    <2>2. call' = [call EXCEPT !["more"] = c]
        BY <1>7 DEF LoadMore, c
    <2> QED BY <1>7, <2>1, <2>2, LagNewCall DEF LoadMore, OffersMore, HasMore
<1>8. CASE Shorten
    BY <1>8, LagNewCall, NewFields DEF Shorten, ListKinds
<1>9. ASSUME NEW d \in Deletes, NEW id \in Ids, DeleteRow(d, id) PROVE Goal
    BY <1>9, LagNewCall, NewFields DEF DeleteRow, ListKinds
<1>10. ASSUME NEW l \in Loads, FirstOk(l) PROVE Goal
    <2>1. PICK page, next : Replace(l, page, next)
        BY <1>10 DEF FirstOk
    <2>2. l \in Listing /\ call[l].served
        BY <1>10 DEF FirstOk, Arrives, Listing, ListKinds
    <2>3. UNCHANGED <<rows, replica, nextId>>
        BY <1>10 DEF FirstOk
    <2> QED BY <2>1, <2>2, <2>3, LagReplace
<1>18. ASSUME NEW d \in Deletes, ReloadOk(d) PROVE Goal
    <2>1. PICK page, next : Replace(d, page, next)
        BY <1>18 DEF ReloadOk
    <2>2. d \in Listing /\ call[d].served
        BY <1>18 DEF ReloadOk, Arrives, Listing, ListKinds
    <2>3. UNCHANGED <<rows, replica, nextId>>
        BY <1>18 DEF ReloadOk
    <2> QED BY <2>1, <2>2, <2>3, LagReplace
<1>11. ASSUME NEW l \in Loads, FirstFails(l) PROVE Goal
    BY <1>11, LagNewCall, NewFields DEF FirstFails, ListKinds
<1>16. ASSUME NEW d \in Deletes, DeleteOk(d) PROVE Goal
    BY <1>16, LagNewCall, NewFields DEF DeleteOk, ListKinds
<1>17. ASSUME NEW d \in Deletes, DeleteFails(d) PROVE Goal
    BY <1>17, LagNewCall, NewFields DEF DeleteFails, ListKinds
<1>19. ASSUME NEW d \in Deletes, ReloadFails(d) PROVE Goal
    BY <1>19, LagNewCall, NewFields DEF ReloadFails, ListKinds
<1>20. ASSUME NEW l \in Loads, Debounce(l) PROVE Goal
    BY <1>20, LagNewCall, NewFields DEF Debounce, ListKinds
<1>12. CASE MoreOk
    BY <1>12, LagNewCall, NewFields DEF MoreOk, ListKinds
<1>13. CASE MoreFails
    BY <1>13, LagNewCall, NewFields DEF MoreFails, ListKinds
<1>14. CASE ShortenOk
    BY <1>14, LagNewCall, NewFields DEF ShortenOk, ListKinds
<1>more. CASE ShortenFails
    BY <1>more, LagNewCall, NewFields DEF ShortenFails, ListKinds
<1> QED
    BY <1>1, <1>2, <1>3, <1>4, <1>5, <1>6, <1>7, <1>8, <1>9, <1>10, <1>11,
       <1>12, <1>13, <1>14, <1>more, <1>16, <1>17, <1>18, <1>19, <1>20
       DEF Next, Server, User, Answers, LoadEnds, MoreEnds, ShortenEnds,
           DeleteEnds
----------------------------------------------------------------------------
(* The pages.                                                              *)

\* A page and its cursor: the rows are numbers, the cursor is the last of them,
\* and what is left of the candidates is below it.
LEMMA PageFacts ==
    ASSUME TypeOK, NEW k \in Calls, NEW page, NEW next,
           IsPage(page, next, Candidates(call[k]))
    PROVE  /\ page \subseteq Nat /\ next \in Nat
           /\ page \subseteq Candidates(call[k])
           /\ next # 0 => next \in page /\ \A a \in page : next <= a
           /\ \A r \in Candidates(call[k]) : r \in page \/ r < next
<1>1. page \subseteq Nat /\ next \in Nat
    BY PagesAreIds, ConstantsHold DEF Ids, Constants
<1>2. Candidates(call[k]) \subseteq Nat
    BY ConstantsHold DEF Candidates, TypeOK, CallType, Ids, Constants
<1>3. ASSUME NEW r \in Candidates(call[k]), r \notin page
      PROVE  r < next
    BY <1>1, <1>2, <1>3 DEF IsPage
<1> QED BY <1>1, <1>3 DEF IsPage

\* The first page of a list.
LEMMA PagesReplace ==
    ASSUME TypeOK, CallsMatch, NEW k \in Calls, NEW page, NEW next,
           call[k].kind \in {"first", "reload"},
           IsPage(page, next, Candidates(call[k])), Replace(k, page, next)
    PROVE  PagesInv'
<1>1. /\ pages' = <<page>> /\ nextCursor' = next /\ base' = call[k].snap
      /\ listFor' = call[k].search
    BY DEF Replace
<1>2. DOMAIN pages' = {1} /\ pages'[1] = page
    BY <1>1
<1>3. PagesInOrder'
    BY <1>2 DEF PagesInOrder
<1>4. AboveCursor'
    BY <1>1, <1>2, PageFacts DEF AboveCursor
<1>5. NothingSkipped'
    <2>1. call[k].cursor = 0
        BY DEF CallsMatch
    <2>2. \A r \in base' \cap Matching[listFor'] : r \in page \/ r < next
        BY <1>1, <2>1, PageFacts DEF Candidates
    <2> QED BY <1>1, <1>2, <2>2 DEF NothingSkipped
<1> QED BY <1>3, <1>4, <1>5 DEF PagesInv

\* A page after those there are.
LEMMA PagesMore ==
    ASSUME TypeOK, CallsMatch, LagIsHarmless, MoreContinues, PagesInv, MoreOk
    PROVE  PagesInv'
<1> DEFINE c == call["more"]
<1>1. PICK page, next : /\ IsPage(page, next, Candidates(c))
                        /\ pages' = Append(pages, page) /\ nextCursor' = next
    BY DEF MoreOk
<1>2. /\ Len(pages) \in Nat /\ DOMAIN pages = 1..Len(pages)
      /\ \A i \in DOMAIN pages : pages[i] \subseteq Nat
    BY LenProperties, ElementOfSeq, ConstantsHold DEF TypeOK, Ids, Constants
<1>3. /\ DOMAIN pages' = 1..(Len(pages) + 1)
      /\ pages'[Len(pages) + 1] = page
      /\ \A i \in DOMAIN pages : pages'[i] = pages[i]
    <2>1. page \in SUBSET Ids
        BY <1>1, PagesAreIds, SlotsDiffer
    <2>2. pages \in Seq(SUBSET Ids)
        BY DEF TypeOK
    <2> QED BY <1>1, <1>2, <2>1, <2>2, AppendProperties, LenProperties
<1> SUFFICES ASSUME ~tangled' PROVE PagesInv'
    BY DEF PagesInv, PagesInOrder, AboveCursor, NothingSkipped
<1>4. ~tangled /\ c.fresh /\ c.search = listFor /\ c.kind = "more" /\ c.served
    BY DEF MoreOk, Arrives
<1>5. c.cursor = nextCursor /\ nextCursor # 0 /\ base \cap rows \subseteq c.snap
    BY <1>4 DEF MoreContinues
<1>6. nextCursor \in Nat
    BY ConstantsHold DEF TypeOK, Constants
<1>7. \A a \in page : a < nextCursor /\ a \in Nat
    BY <1>1, <1>5, PageFacts, SlotsDiffer DEF Candidates
<1>8. \A i \in DOMAIN pages : \A a \in pages[i] : nextCursor <= a
    BY <1>4, <1>5 DEF PagesInv, AboveCursor
<1>9. PagesInOrder'
    <2>1. ASSUME NEW i \in DOMAIN pages', NEW j \in DOMAIN pages', i < j,
                 NEW a \in pages'[i], NEW b \in pages'[j]
          PROVE  a > b
        <3>1. i \in DOMAIN pages
            BY <1>2, <1>3, <2>1
        <3>2. CASE j \in DOMAIN pages
            BY <1>3, <1>4, <2>1, <3>1, <3>2 DEF PagesInv, PagesInOrder
        <3>3. CASE j \notin DOMAIN pages
            <4>1. j = Len(pages) + 1
                BY <1>2, <1>3, <3>3
            <4>2. a \in pages[i] /\ b \in page
                BY <1>3, <3>1, <4>1
            <4>3. nextCursor <= a /\ b < nextCursor /\ a \in Nat /\ b \in Nat
                BY <1>2, <1>7, <1>8, <3>1, <4>2
            <4> QED BY <1>6, <4>3
        <3> QED BY <3>2, <3>3
    <2> QED BY <2>1 DEF PagesInOrder
<1>10. AboveCursor'
    <2>1. ASSUME next # 0, NEW i \in DOMAIN pages', NEW a \in pages'[i]
          PROVE  next <= a
        <3>1. next \in page /\ next \in Nat /\ \A b \in page : next <= b
            BY <1>1, <2>1, PageFacts, SlotsDiffer
        <3>2. CASE i \in DOMAIN pages
            <4>1. nextCursor <= a /\ next < nextCursor /\ a \in Nat
                BY <1>2, <1>3, <1>7, <1>8, <2>1, <3>1, <3>2
            <4> QED BY <1>6, <3>1, <4>1
        <3>3. CASE i \notin DOMAIN pages
            <4>1. i = Len(pages) + 1
                BY <1>2, <1>3, <3>3
            <4> QED BY <1>3, <2>1, <3>1, <4>1
        <3> QED BY <3>2, <3>3
    <2> QED BY <1>1, <2>1 DEF AboveCursor
<1>11. NothingSkipped'
    <2>1. UNCHANGED <<base, rows, listFor, removed>>
        BY DEF MoreOk, server
    <2>2. ASSUME NEW r \in base \cap rows \cap Matching[listFor]
          PROVE  \/ \E i \in DOMAIN pages' : r \in pages'[i]
                 \/ r < next \/ r \in removed
        <3>1. CASE \E i \in DOMAIN pages : r \in pages[i]
            BY <1>2, <1>3, <3>1
        <3>2. CASE r < nextCursor
            <4>1. r \in Candidates(c)
                BY <1>4, <1>5, <3>2 DEF Candidates
            <4>2. r \in page \/ r < next
                BY <1>1, <4>1, PageFacts, SlotsDiffer
            <4>3. Len(pages) + 1 \in DOMAIN pages'
                BY <1>2, <1>3
            <4> QED BY <1>3, <4>2, <4>3
        <3> QED BY <1>4, <3>1, <3>2 DEF PagesInv, NothingSkipped
    <2> QED BY <1>1, <2>1, <2>2 DEF NothingSkipped
<1> QED BY <1>9, <1>10, <1>11 DEF PagesInv

\* A row goes from the pages.
LEMMA PagesWithout ==
    ASSUME TypeOK, PagesInv, NEW id, Without(id),
           UNCHANGED <<rows, nextCursor, listFor, base, tangled>>
    PROVE  PagesInv'
<1>1. /\ DOMAIN pages' = DOMAIN pages
      /\ \A i \in DOMAIN pages : pages'[i] = pages[i] \ {id}
    BY DEF Without
<1>2. removed' = removed \cup (base \cap {id})
    BY DEF Without
<1>3. PagesInOrder'
    BY <1>1 DEF PagesInv, PagesInOrder
<1>4. AboveCursor'
    BY <1>1 DEF PagesInv, AboveCursor
<1>5. NothingSkipped'
    BY <1>1, <1>2 DEF PagesInv, NothingSkipped
<1> QED BY <1>3, <1>4, <1>5 DEF PagesInv

\* A row that is new was not in the base.
LEMMA PagesStay ==
    ASSUME TypeOK, LagIsHarmless, PagesInv, rows' \subseteq rows \cup {nextId},
           UNCHANGED <<pages, nextCursor, listFor, base, removed, tangled>>
    PROVE  PagesInv'
<1>1. nextId \notin base
    BY ConstantsHold DEF LagIsHarmless, TypeOK, Constants
<1> QED BY <1>1 DEF PagesInv, PagesInOrder, AboveCursor, NothingSkipped

\* Every step keeps the pages in order and complete.
LEMMA PagesStep ==
    ASSUME TypeOK, CallsMatch, LagIsHarmless, MoreContinues, PagesInv,
           [Next]_vars
    PROVE  PagesInv'
<1> USE SlotsDiffer DEF server, search, list, loading, trace
<1>1. ASSUME NEW l \in Loads, FirstOk(l) PROVE PagesInv'
    <2>1. PICK page, next : /\ IsPage(page, next, Candidates(call[l]))
                            /\ Replace(l, page, next)
        BY <1>1 DEF FirstOk
    <2>2. call[l].kind = "first"
        BY <1>1 DEF FirstOk, Arrives
    <2> QED BY <2>1, <2>2, PagesReplace
<1>2. ASSUME NEW d \in Deletes, ReloadOk(d) PROVE PagesInv'
    <2>1. PICK page, next : /\ IsPage(page, next, Candidates(call[d]))
                            /\ Replace(d, page, next)
        BY <1>2 DEF ReloadOk
    <2>2. call[d].kind = "reload"
        BY <1>2 DEF ReloadOk, Arrives
    <2> QED BY <2>1, <2>2, PagesReplace
<1>3. CASE MoreOk
    BY <1>3, PagesMore
<1>4. ASSUME NEW d \in Deletes, NEW id \in Ids, DeleteRow(d, id)
      PROVE  PagesInv'
    BY <1>4, PagesWithout DEF DeleteRow
<1>5. CASE ServeCreate
    BY <1>5, PagesStay DEF ServeCreate
<1>6. CASE \/ \E k \in Calls : ServeList(k) \/ ServeDelete(k)
           \/ Elsewhere \/ Replicate
    BY <1>6, PagesStay DEF ServeList, ServeDelete, Elsewhere, Replicate
<1>7. CASE \/ \E s \in Searches : TypeSearch(s)
           \/ \E l \in Loads : Debounce(l) \/ FirstFails(l)
           \/ LoadMore \/ MoreFails
    BY <1>7, PagesStay DEF TypeSearch, Debounce, FirstFails, LoadMore, MoreFails
<1>8. CASE \/ Shorten \/ ShortenOk \/ ShortenFails
           \/ \E d \in Deletes : DeleteOk(d) \/ DeleteFails(d) \/ ReloadFails(d)
    BY <1>8, PagesStay
       DEF Shorten, ShortenOk, ShortenFails, DeleteOk, DeleteFails, ReloadFails
<1>9. CASE UNCHANGED vars
    BY <1>9, PagesStay DEF vars
<1> QED
    BY <1>1, <1>2, <1>3, <1>4, <1>5, <1>6, <1>7, <1>8, <1>9
       DEF Next, Server, User, Answers, LoadEnds, MoreEnds, ShortenEnds,
           DeleteEnds
----------------------------------------------------------------------------
(* The search.                                                             *)

\* A step that neither begins nor ends a listing, nor changes the list's search.
LEMMA OrderStays ==
    ASSUME OrderInv, Listing' = Listing,
           \A k \in Listing : /\ call'[k].kind = call[k].kind
                              /\ call'[k].search = call[k].search
                              /\ call'[k].fresh = call[k].fresh,
           call'["more"].kind = "more" => "more" \in Listing,
           call'["more"].kind = "more" => call["more"].kind = "more",
           UNCHANGED <<debouncedSearch, listFor, tangled, overlapped>>,
           failed' = failed
    PROVE  OrderInv'
BY DEF OrderInv, OneAtATime, OrderlyListIsCurrent

\* Once something failed, nothing is claimed.
LEMMA OrderEnds == ASSUME failed' \/ overlapped' PROVE OrderInv'
BY DEF OrderInv, OneAtATime, OrderlyListIsCurrent

\* A call of another kind than the listings takes a slot, or leaves it.
LEMMA OrderOther ==
    ASSUME TypeOK, CallsMatch, OrderInv, NEW k \in Calls \ {"more"}, NEW c,
           k \notin Listing, c.kind \notin ListKinds,
           call' = [call EXCEPT ![k] = c],
           UNCHANGED <<debouncedSearch, listFor, tangled, overlapped, failed>>
    PROVE  OrderInv'
<1>1. call'[k] = c /\ \A j \in Calls \ {k} : call'[j] = call[j]
    BY DEF TypeOK
<1>2. Listing' = Listing /\ k \notin Listing
    BY <1>1 DEF Listing
<1>3. "more" \in Calls /\ (call["more"].kind = "more" => "more" \in Listing)
    BY SlotsDiffer DEF Listing, ListKinds
<1> QED BY <1>1, <1>2, <1>3, OrderStays DEF Listing

\* Every step keeps orderly requests to the current search.
LEMMA OrderStep ==
    ASSUME TypeOK, CallsMatch, OrderInv, [Next]_vars
    PROVE  OrderInv'
<1> USE SlotsDiffer DEF server, search, list, loading, trace
<1>0. call \in [Calls -> CallType]
    BY DEF TypeOK
<1>more. call["more"].kind = "more" => "more" \in Listing
    BY DEF Listing, ListKinds
<1>1. ASSUME NEW k \in Calls, ServeList(k) PROVE OrderInv'
    <2>1. \A j \in Calls : /\ call'[j].kind = call[j].kind
                           /\ call'[j].search = call[j].search
                           /\ call'[j].fresh = call[j].fresh
        BY <1>0, <1>1 DEF ServeList, CallType
    <2>2. Listing' = Listing
        BY <2>1 DEF Listing
    <2> QED BY <1>1, <1>more, <2>1, <2>2, OrderStays DEF ServeList, Listing
<1>2. ASSUME NEW k \in Calls, ServeDelete(k) PROVE OrderInv'
    <2>1. \A j \in Calls : /\ call'[j].kind = call[j].kind
                           /\ call'[j].search = call[j].search
                           /\ call'[j].fresh = call[j].fresh
        BY <1>0, <1>2 DEF ServeDelete, CallType
    <2>2. Listing' = Listing
        BY <2>1 DEF Listing
    <2> QED BY <1>2, <1>more, <2>1, <2>2, OrderStays DEF ServeDelete, Listing
<1>3. CASE ServeCreate
    <2>1. \A j \in Calls : /\ call'[j].kind = call[j].kind
                           /\ call'[j].search = call[j].search
                           /\ call'[j].fresh = call[j].fresh
        BY <1>0, <1>3 DEF ServeCreate, CallType
    <2>2. Listing' = Listing
        BY <2>1 DEF Listing
    <2> QED BY <1>3, <1>more, <2>1, <2>2, OrderStays DEF ServeCreate, Listing
<1>4. CASE Elsewhere \/ Replicate \/ (\E s \in Searches : TypeSearch(s))
           \/ UNCHANGED vars
    <2>1. UNCHANGED <<call, debouncedSearch, listFor, tangled, overlapped, failed>>
        BY <1>4 DEF Elsewhere, Replicate, TypeSearch, vars
    <2> QED BY <1>more, <2>1, OrderStays DEF Listing
<1>5. CASE LoadMore
    <2>1. CASE overlapped' \/ failed'
        BY <2>1, OrderEnds
    <2>2. CASE ~overlapped' /\ ~failed'
        <3>1. /\ ~overlapped /\ ~failed /\ Listing = {}
              /\ UNCHANGED <<debouncedSearch, listFor, tangled>>
            BY <1>5, <2>2 DEF LoadMore
        <3>2. /\ call'["more"] = Get("more", debouncedSearch, nextCursor)
              /\ \A j \in Calls \ {"more"} : call'[j] = call[j]
            BY <1>0, <1>5 DEF LoadMore
        <3>3. Listing' = {"more"}
            BY <3>1, <3>2, NewFields DEF Listing, ListKinds
        <3>4. ~tangled /\ listFor = debouncedSearch
            BY <3>1 DEF OrderInv, OrderlyListIsCurrent
        <3> QED BY <3>1, <3>2, <3>3, <3>4, NewFields
                DEF OrderInv, OneAtATime, OrderlyListIsCurrent
    <2> QED BY <2>1, <2>2
<1>6. CASE Shorten
    <2>1. "create" \notin Listing /\ Post.kind \notin ListKinds
        BY NewFields DEF CallsMatch, Listing, ListKinds
    <2> QED BY <1>6, <2>1, OrderOther DEF Shorten
<1>7. ASSUME NEW d \in Deletes, NEW id \in Ids, DeleteRow(d, id)
      PROVE  OrderInv'
    <2>1. d \notin Listing /\ Delete(id).kind \notin ListKinds
        BY <1>7, NewFields DEF DeleteRow, Listing, ListKinds
    <2> QED BY <1>7, <2>1, OrderOther DEF DeleteRow
<1>8. ASSUME NEW l \in Loads, FirstOk(l) PROVE OrderInv'
    <2>1. CASE overlapped' \/ failed'
        BY <2>1, OrderEnds
    <2>2. CASE ~overlapped' /\ ~failed'
        <3>1. /\ ~overlapped /\ ~failed /\ l \in Listing
              /\ debouncedSearch' = debouncedSearch
            BY <1>8, <2>2 DEF FirstOk, Arrives, Listing, ListKinds
        <3>2. PICK page, next : Replace(l, page, next)
            BY <1>8 DEF FirstOk
        <3>3. Listing = {l} /\ call[l].search = debouncedSearch
            BY <3>1 DEF OrderInv, OneAtATime
        <3>4. /\ call'[l] = NoCall
              /\ \A j \in Calls \ {l} : call'[j].kind = call[j].kind
            BY <1>0, <3>2 DEF Replace, CallType
        <3>5. Listing' = {}
            BY <3>3, <3>4, NewFields DEF Listing, ListKinds
        <3>6. call'["more"].kind # "more"
            BY <3>5 DEF Listing, ListKinds
        <3>7. ~tangled' /\ listFor' = debouncedSearch'
            BY <3>1, <3>2, <3>3 DEF Replace
        <3> QED BY <3>5, <3>6, <3>7 DEF OrderInv, OneAtATime, OrderlyListIsCurrent
    <2> QED BY <2>1, <2>2
<1>9. CASE \/ \E l \in Loads : FirstFails(l)
           \/ \E d \in Deletes : DeleteFails(d)
    BY <1>9, OrderEnds DEF FirstFails, DeleteFails
<1>10. CASE MoreEnds
    <2>1. CASE overlapped' \/ failed'
        BY <2>1, OrderEnds
    <2>2. CASE ~overlapped' /\ ~failed'
        <3>1. /\ ~overlapped /\ ~failed /\ call["more"].kind = "more"
              /\ call' = [call EXCEPT !["more"] = NoCall]
              /\ UNCHANGED <<debouncedSearch, listFor>>
              /\ \/ UNCHANGED tangled
                 \/ tangled' = (tangled \/ ~call["more"].fresh
                                 \/ call["more"].search # listFor)
            BY <1>10, <2>2 DEF MoreEnds, MoreOk, MoreFails, Arrives
        <3>2. /\ Listing = {"more"} /\ call["more"].search = debouncedSearch
              /\ call["more"].fresh /\ listFor = debouncedSearch /\ ~tangled
            BY <1>more, <3>1 DEF OrderInv, OneAtATime, OrderlyListIsCurrent
        <3>3. /\ call'["more"] = NoCall
              /\ \A j \in Calls \ {"more"} : call'[j] = call[j]
            BY <1>0, <3>1
        <3>4. Listing' = {} /\ call'["more"].kind # "more"
            BY <3>2, <3>3, NewFields DEF Listing, ListKinds
        <3>5. ~tangled'
            BY <3>1, <3>2
        <3>6. listFor' = debouncedSearch'
            BY <3>1, <3>2
        <3> QED BY <3>4, <3>5, <3>6
                DEF OrderInv, OneAtATime, OrderlyListIsCurrent
    <2> QED BY <2>1, <2>2
<1>11. CASE ShortenEnds
    <2>1. "create" \notin Listing /\ NoCall.kind \notin ListKinds
        BY NewFields DEF CallsMatch, Listing, ListKinds
    <2> QED BY <1>11, <2>1, OrderOther DEF ShortenEnds, ShortenOk, ShortenFails
<1>12. ASSUME NEW d \in Deletes, DeleteOk(d) PROVE OrderInv'
    <2>1. d \notin Listing /\ NoCall.kind \notin ListKinds
        BY <1>12, NewFields DEF DeleteOk, Arrives, Listing, ListKinds
    <2> QED BY <1>12, <2>1, OrderOther DEF DeleteOk
<1>13. ASSUME NEW d \in Deletes, ReloadOk(d) \/ ReloadFails(d) PROVE OrderInv'
    <2>1. d \in Listing /\ call[d].kind = "reload"
        BY <1>13 DEF ReloadOk, ReloadFails, Arrives, Listing, ListKinds
    <2>2. overlapped \/ failed
        BY <2>1 DEF OrderInv, OneAtATime
    <2> QED BY <1>13, <2>2, OrderEnds DEF ReloadOk, ReloadFails
<1>14. ASSUME NEW l \in Loads, Debounce(l) PROVE OrderInv'
    <2>1. CASE overlapped' \/ failed'
        BY <2>1, OrderEnds
    <2>2. CASE ~overlapped' /\ ~failed'
        <3>1. /\ ~overlapped /\ ~failed /\ Listing = {}
              /\ UNCHANGED tangled /\ debouncedSearch' = searchQuery
            BY <1>14, <2>2 DEF Debounce
        <3>2. /\ call'[l] = Get("first", searchQuery, 0)
              /\ \A j \in Calls \ {l} : call'[j] = call[j]
            BY <1>0, <1>14 DEF Debounce
        <3>3. Listing' = {l} /\ call'["more"].kind # "more"
            BY <3>1, <3>2, <1>more, NewFields DEF Listing, ListKinds
        <3>4. ~tangled
            BY <3>1 DEF OrderInv, OrderlyListIsCurrent
        <3> QED BY <3>1, <3>2, <3>3, <3>4, NewFields
                DEF OrderInv, OneAtATime, OrderlyListIsCurrent
    <2> QED BY <2>1, <2>2
<1> QED
    BY <1>1, <1>2, <1>3, <1>4, <1>5, <1>6, <1>7, <1>8, <1>9, <1>10, <1>11,
       <1>12, <1>13, <1>14
       DEF Next, Server, User, Answers, LoadEnds, DeleteEnds

----------------------------------------------------------------------------
(* The theorems.                                                           *)

LEMMA InitHolds == Init => IInv
<1> SUFFICES ASSUME Init PROVE IInv
    OBVIOUS
<1>1. PICK l \in Loads :
        call = [k \in Calls |->
                    IF k = l THEN Get("first", NoSearch, 0) ELSE NoCall]
    BY DEF Init
<1>2. /\ call[l] = Get("first", NoSearch, 0)
      /\ \A k \in Calls \ {l} : call[k] = NoCall
    BY <1>1, SlotsDiffer
<1>3. InitialRows \in Nat /\ InitialRows <= MaxId /\ MaxId \in Nat
    BY ConstantsHold DEF Constants
<1>4. TypeOK
    <2>1. call \in [Calls -> CallType]
        <3>1. Get("first", NoSearch, 0) \in CallType /\ NoCall \in CallType
            BY NewCalls, ConstantsHold DEF Constants, ListKinds
        <3> QED BY <1>1, <3>1
    <2>2. /\ rows \subseteq Ids /\ replica \subseteq Ids
          /\ nextId \in 1..(MaxId + 1) /\ changes \in 0..MaxChanges
          /\ nextCursor \in 0..MaxId
        BY <1>3, ConstantsHold DEF Init, Ids, Constants
    <2>3. pages \in Seq(SUBSET Ids)
        BY DEF Init
    <2> QED BY <2>1, <2>2, <2>3, ConstantsHold DEF Init, TypeOK, Constants
<1>5. CallsMatch /\ BusyMeansRequest
    <2>1. CallsMatch
        BY <1>2, NewFields, SlotsDiffer DEF CallsMatch
    <2>2. BusyMeansRequest
        BY <1>2, NewFields, SlotsDiffer DEF Init, BusyMeansRequest
    <2> QED BY <2>1, <2>2
<1>6. LagIsHarmless /\ MoreContinues
    <2>1. \A k \in Calls : call[k].snap = {}
        BY <1>2, NewFields
    <2>2. \A r \in rows \cup replica \cup base : r < nextId
        BY <1>3 DEF Init
    <2>3. LagIsHarmless
        BY <2>1, <2>2 DEF Init, LagIsHarmless, Listing
    <2>4. MoreContinues
        BY <1>2, NewFields, SlotsDiffer DEF MoreContinues
    <2> QED BY <2>3, <2>4
<1>7. PagesInv
    BY DEF Init, PagesInv, PagesInOrder, AboveCursor, NothingSkipped
<1>8. OrderInv
    BY <1>2, NewFields, SlotsDiffer
       DEF Init, OrderInv, OneAtATime, OrderlyListIsCurrent, Listing, ListKinds
<1> QED BY <1>4, <1>5, <1>6, <1>7, <1>8 DEF IInv

LEMMA Invariant == Spec => []IInv
<1>1. IInv /\ [Next]_vars => IInv'
    BY TypeStep, CallsStep, LagStep, PagesStep, OrderStep DEF IInv
<1> QED BY InitHolds, <1>1, PTL DEF Spec

\* Every variable of the page, its requests and the server keeps its type.
THEOREM TypeCorrect == Spec => []TypeOK
<1>1. IInv => TypeOK
    BY DEF IInv
<1> QED BY Invariant, <1>1, PTL

\* The page is never busy without a request that will end it, whatever requests
\* overlap, fail or arrive late.
THEOREM NeverBusyForNothing == Spec => []BusyMeansRequest
<1>1. IInv => BusyMeansRequest
    BY DEF IInv
<1> QED BY Invariant, <1>1, PTL

\* Paging shows no row twice, whatever is created and deleted meanwhile.
THEOREM PagingKeepsOrder == Spec => []PagesInOrder
<1>1. IInv => PagesInOrder
    BY DEF IInv, PagesInv
<1> QED BY Invariant, <1>1, PTL

\* Paging skips no row that stays, however far the replica lags.
THEOREM PagingSkipsNothing == Spec => []NothingSkipped
<1>1. IInv => NothingSkipped
    BY DEF IInv, PagesInv
<1> QED BY Invariant, <1>1, PTL

\* Requests that neither overlap nor fail leave the list of the search.
THEOREM OrderlyPageIsCurrent == Spec => []OrderlyListIsCurrent
<1>1. IInv => OrderlyListIsCurrent
    BY DEF IInv, OrderInv
<1> QED BY Invariant, <1>1, PTL
=============================================================================
