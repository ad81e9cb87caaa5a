------------------------------ MODULE Dashboard ------------------------------
(***************************************************************************)
(* The "My Links" page against the list that url-service keeps: a debounced*)
(* search, pages of a keyset cursor, rows created and deleted here and     *)
(* elsewhere, a read replica that lags, and answers that arrive in any     *)
(* order or not at all.  No request is ever cancelled, and no answer is    *)
(* compared with what was asked last.                                      *)
(*                                                                         *)
(* A row is its url_id.  The list on the screen is `made', the rows        *)
(* prepended after a POST (their order does not matter here), followed by  *)
(* `pages', each a set of rows that stands in descending order.  What is   *)
(* typed is only whether the form accepts it; the highlight of a new row   *)
(* and the toasts are left out.                                            *)
(***************************************************************************)
EXTENDS Naturals, Sequences, FiniteSets

CONSTANTS
    Searches, NoSearch, \* what may be searched for, and the empty search
    Matching,           \* the rows that a search finds
    PageSize,           \* 20 in the code
    InitialRows,        \* how many rows there are at first
    MaxId,              \* the last url_id: bounds the creations
    Loads, Deletes,     \* first-page loads and deletions under way at once
    MaxChanges          \* searches, deletions and creations: bounds a run

Ids == 1..MaxId

ASSUME SearchAssumption == NoSearch \in Searches
ASSUME MatchAssumption  == /\ Matching \in [Searches -> SUBSET Ids]
                           /\ Matching[NoSearch] = Ids
ASSUME CountAssumption  == /\ PageSize \in Nat \ {0}
                           /\ MaxId \in Nat /\ InitialRows \in 0..MaxId
ASSUME SlotAssumption   == /\ MaxChanges \in Nat
                           /\ Loads \cap Deletes = {}
                           /\ {"more", "create"} \cap (Loads \cup Deletes) = {}

Calls == Loads \cup Deletes \cup {"more", "create"}

VARIABLES
    rows, replica, nextId,  \* the user's rows, what the replica has, BIGSERIAL
    made, pages,            \* urls
    nextCursor,             \* 0 is null
    searchQuery, debouncedSearch,
    isLoadingUrls, isLoadingMore, isShortening,
    call,                   \* the requests under way
    listFor,  \* history: the search that the list answers
    base,     \* history: the rows its first page was read from
    removed,  \* history: the rows taken off it
    tangled,  \* history: a page of another list was appended to it
    overlapped, failed, \* history: list requests did, or one of the requests
                        \* that end in a list
    changes \* how many changes there were: bounds a run

server  == <<rows, replica, nextId>>
search  == <<searchQuery, debouncedSearch>>
list    == <<made, pages, nextCursor, listFor, base, removed, tangled>>
loading == <<isLoadingUrls, isLoadingMore>>
trace   == <<overlapped, failed>>
vars == <<server, isShortening, search, list, loading, call, trace, changes>>

NoCall == [kind |-> "none", search |-> NoSearch, cursor |-> 0, id |-> 0,
           served |-> FALSE, snap |-> {}, fresh |-> FALSE]

\* GET /api/urls with a search and a cursor (getUrlsPage, getUrls).
Get(kind, s, c) ==
    [NoCall EXCEPT !.kind = kind, !.search = s, !.cursor = c, !.fresh = TRUE]

\* DELETE and POST (deleteUrl, createUrl).
Delete(id) == [NoCall EXCEPT !.kind = "delete", !.id = id]
Post == [NoCall EXCEPT !.kind = "create"]

ListKinds == {"first", "more", "reload"}
Listing == {k \in Calls : call[k].kind \in ListKinds}

Shown == made \cup UNION {pages[i] : i \in DOMAIN pages}

Init ==
    /\ rows = 1..InitialRows /\ replica = rows /\ nextId = InitialRows + 1
    /\ made = {} /\ pages = <<>> /\ nextCursor = 0
    /\ searchQuery = NoSearch /\ debouncedSearch = NoSearch
    /\ isLoadingUrls = TRUE /\ isLoadingMore = FALSE /\ isShortening = FALSE
    /\ \E l \in Loads :
        call = [k \in Calls |->
                    IF k = l THEN Get("first", NoSearch, 0) ELSE NoCall]
    /\ listFor = NoSearch /\ base = {} /\ removed = {}
    /\ tangled = FALSE /\ overlapped = FALSE /\ failed = FALSE
    /\ changes = 0

Change == changes < MaxChanges /\ changes' = changes + 1

----------------------------------------------------------------------------
(* url-service: get_urls_page, shorten, delete_url.                        *)

\* Mutant: the cursor's row is found again.
CandidatesInclusive(c) ==
    {r \in c.snap \cap Matching[c.search] : c.cursor = 0 \/ r <= c.cursor}

\* The rows a listing chooses from, among those the replica had.
Candidates(c) ==
    {r \in c.snap \cap Matching[c.search] : c.cursor = 0 \/ r < c.cursor}

\* ORDER BY url_id DESC LIMIT n + 1: the page is the n highest rows, and its
\* cursor the last of them if there is one more.
IsPage(p, next, from) ==
    /\ p \subseteq from
    /\ \A a \in p, b \in from \ p : a > b
    /\ \/ Cardinality(p) <= PageSize /\ p = from /\ next = 0
       \/ /\ Cardinality(p) = PageSize /\ p # from
          /\ next \in p /\ \A a \in p : next <= a

\* A listing is read from the replica; the page follows from what it had.
ServeList(k) ==
    /\ k \in Listing /\ ~call[k].served
    /\ call' = [call EXCEPT ![k].served = TRUE, ![k].snap = replica]
    /\ UNCHANGED <<server, isShortening, search, list, loading, trace,
                   changes>>

\* DELETE ... RETURNING: a row that is gone is a 404.
ServeDelete(k) ==
    /\ call[k].kind = "delete" /\ ~call[k].served
    /\ call[k].id \in rows
    /\ rows' = rows \ {call[k].id}
    /\ call' = [call EXCEPT ![k].served = TRUE]
    /\ UNCHANGED <<replica, nextId, isShortening, search, list, loading,
                   trace, changes>>

\* A new row, or an expired one reactivated under its old id.
ServeCreate ==
    /\ call["create"].kind = "create" /\ ~call["create"].served
    /\ \/ /\ nextId <= MaxId
          /\ rows' = rows \cup {nextId} /\ nextId' = nextId + 1
          /\ call' = [call EXCEPT !["create"].served = TRUE,
                                  !["create"].id = nextId]
       \/ \E id \in rows :
            /\ call' = [call EXCEPT !["create"].served = TRUE,
                                    !["create"].id = id]
            /\ UNCHANGED <<rows, nextId>>
    /\ UNCHANGED <<replica, isShortening, search, list, loading, trace,
                   changes>>

\* Another tab, the user's deletion, or a request whose answer was given up.
Elsewhere ==
    /\ Change
    /\ \E id \in rows : rows' = rows \ {id}
    /\ UNCHANGED <<replica, nextId, isShortening, search, list, loading, call,
                   trace>>

Replicate ==
    /\ replica # rows
    /\ replica' = rows
    /\ UNCHANGED <<rows, nextId, isShortening, search, list, loading, call,
                   trace, changes>>

----------------------------------------------------------------------------
(* The first page, on mount and after a search.                            *)

TypeSearch(s) ==
    /\ Change
    /\ s # searchQuery
    /\ searchQuery' = s
    /\ UNCHANGED <<server, isShortening, debouncedSearch, list, loading, call,
                   trace>>

\* Mutant: the load is for the search of the rendering before.
DebounceStale(l) ==
    /\ debouncedSearch # searchQuery
    /\ call[l] = NoCall
    /\ debouncedSearch' = searchQuery
    /\ isLoadingUrls' = TRUE
    /\ call' = [call EXCEPT ![l] = Get("first", debouncedSearch, 0)]
    /\ overlapped' = (overlapped \/ Listing # {})
    /\ UNCHANGED <<server, isShortening, searchQuery, list, isLoadingMore,
                   failed, changes>>

\* 300 ms after the last key: the effect asks for the first page.
Debounce(l) ==
    /\ debouncedSearch # searchQuery
    /\ call[l] = NoCall
    /\ debouncedSearch' = searchQuery
    /\ isLoadingUrls' = TRUE
    /\ call' = [call EXCEPT ![l] = Get("first", searchQuery, 0)]
    /\ overlapped' = (overlapped \/ Listing # {})
    /\ UNCHANGED <<server, isShortening, searchQuery, list, isLoadingMore,
                   failed, changes>>

\* setUrls(page.urls), setNextCursor, setHasMore: a page replaces the list.  A
\* load-more that was asked for in the old list is no longer fresh.
Replace(k, page, next) ==
    /\ made' = {} /\ pages' = <<page>> /\ nextCursor' = next
    /\ listFor' = call[k].search
    /\ base' = call[k].snap /\ removed' = {} /\ tangled' = FALSE
    /\ call' = [call EXCEPT ![k] = NoCall, !["more"].fresh = FALSE]

Arrives(k, kind) == call[k].kind = kind /\ call[k].served

FirstOk(l) ==
    /\ Arrives(l, "first")
    /\ \E page \in SUBSET Candidates(call[l]) :
        \E next \in {0} \cup page :
            /\ IsPage(page, next, Candidates(call[l]))
            /\ Replace(l, page, next)
    /\ isLoadingUrls' = FALSE
    /\ UNCHANGED <<server, isShortening, search, isLoadingMore, trace,
                   changes>>

\* A toast; the list stays what it was.
FirstFails(l) ==
    /\ call[l].kind = "first"
    /\ call' = [call EXCEPT ![l] = NoCall]
    /\ isLoadingUrls' = FALSE
    /\ failed' = TRUE
    /\ UNCHANGED <<server, isShortening, search, list, isLoadingMore,
                   overlapped, changes>>

----------------------------------------------------------------------------
(* What the list's place shows, and its button.                            *)

HasMore == nextCursor # 0

ListArea ==
    CASE isLoadingUrls -> "spinner"
      [] ~isLoadingUrls /\ Shown = {} -> "No links yet."
      [] OTHER -> "list"

OffersMore == ListArea = "list" /\ HasMore /\ ~isLoadingMore

\* handleLoadMore, with the cursor and the search of this rendering.
LoadMore ==
    /\ OffersMore
    /\ isLoadingMore' = TRUE
    /\ call' = [call EXCEPT
                    !["more"] = Get("more", debouncedSearch, nextCursor)]
    /\ overlapped' = (overlapped \/ Listing # {})
    /\ UNCHANGED <<server, isShortening, search, list, isLoadingUrls, failed,
                   changes>>

\* The page is appended to whatever the list is by now.
MoreOk ==
    LET c == call["more"] IN
    /\ Arrives("more", "more")
    /\ \E page \in SUBSET Candidates(c) :
        \E next \in {0} \cup page :
            /\ IsPage(page, next, Candidates(c))
            /\ pages' = Append(pages, page)
            /\ nextCursor' = next
    /\ tangled' = (tangled \/ ~c.fresh \/ c.search # listFor)
    /\ call' = [call EXCEPT !["more"] = NoCall]
    /\ isLoadingMore' = FALSE
    /\ UNCHANGED <<server, isShortening, search, made, listFor, base, removed,
                   isLoadingUrls, trace, changes>>

\* Mutant: no `finally'.
MoreFailsForever ==
    /\ call["more"].kind = "more"
    /\ call' = [call EXCEPT !["more"] = NoCall]
    /\ UNCHANGED <<server, isShortening, search, list, loading, trace,
                   changes>>

MoreFails ==
    /\ call["more"].kind = "more"
    /\ call' = [call EXCEPT !["more"] = NoCall]
    /\ isLoadingMore' = FALSE
    /\ UNCHANGED <<server, isShortening, search, list, isLoadingUrls, trace,
                   changes>>

----------------------------------------------------------------------------
(* handleShorten, once the form (module ShortenForm) has a valid URL.      *)

\* The button, and with it Enter, is disabled while a request is under way.
Shorten ==
    /\ Change
    /\ ~isShortening
    /\ isShortening' = TRUE
    /\ call' = [call EXCEPT !["create"] = Post]
    /\ UNCHANGED <<server, search, list, loading, trace>>

\* Mutant: the cursor is moved to the new row.
ShortenOkMovesCursor ==
    /\ Arrives("create", "create")
    /\ made' = made \cup {call["create"].id}
    /\ nextCursor' = IF HasMore THEN call["create"].id ELSE 0
    /\ isShortening' = FALSE
    /\ call' = [call EXCEPT !["create"] = NoCall]
    /\ UNCHANGED <<server, search, pages, listFor, base, removed, tangled,
                   loading, trace, changes>>

\* The row is prepended, and the cursor left alone.
ShortenOk ==
    /\ Arrives("create", "create")
    /\ made' = made \cup {call["create"].id}
    /\ isShortening' = FALSE
    /\ call' = [call EXCEPT !["create"] = NoCall]
    /\ UNCHANGED <<server, search, pages, nextCursor, listFor, base, removed,
                   tangled, loading, trace, changes>>

\* A 409 or any other failure: the toasts differ.
ShortenFails ==
    /\ call["create"].kind = "create"
    /\ isShortening' = FALSE
    /\ call' = [call EXCEPT !["create"] = NoCall]
    /\ UNCHANGED <<server, search, list, loading, trace, changes>>

----------------------------------------------------------------------------
(* handleDelete, from a row on the screen.                                 *)

Without(id) == /\ made' = made \ {id}
               /\ pages' = [i \in DOMAIN pages |-> pages[i] \ {id}]
               /\ removed' = removed \cup (base \cap {id})

\* The row goes at once.
DeleteRow(d, id) ==
    /\ Change
    /\ ListArea = "list" /\ id \in Shown
    /\ call[d] = NoCall
    /\ Without(id)
    /\ call' = [call EXCEPT ![d] = Delete(id)]
    /\ UNCHANGED <<server, isShortening, search, nextCursor, listFor, base,
                   tangled, loading, trace>>

DeleteOk(d) ==
    /\ Arrives(d, "delete")
    /\ call' = [call EXCEPT ![d] = NoCall]
    /\ UNCHANGED <<server, isShortening, search, list, loading, trace,
                   changes>>

\* The first page is loaded again, without the search.
DeleteFails(d) ==
    /\ call[d].kind = "delete"
    /\ call' = [call EXCEPT ![d] = Get("reload", NoSearch, 0)]
    /\ failed' = TRUE
    /\ UNCHANGED <<server, isShortening, search, list, loading, overlapped,
                   changes>>

ReloadOk(d) ==
    /\ Arrives(d, "reload")
    /\ \E page \in SUBSET Candidates(call[d]) :
        \E next \in {0} \cup page :
            /\ IsPage(page, next, Candidates(call[d]))
            /\ Replace(d, page, next)
    /\ UNCHANGED <<server, isShortening, search, loading, trace, changes>>

ReloadFails(d) ==
    /\ call[d].kind = "reload"
    /\ call' = [call EXCEPT ![d] = NoCall]
    /\ UNCHANGED <<server, isShortening, search, list, loading, trace,
                   changes>>

----------------------------------------------------------------------------
Server == \/ \E k \in Calls : ServeList(k) \/ ServeDelete(k)
          \/ ServeCreate \/ Elsewhere \/ Replicate

User == \/ \E s \in Searches : TypeSearch(s)
        \/ LoadMore \/ Shorten
        \/ \E d \in Deletes, id \in Ids : DeleteRow(d, id)

LoadEnds(l)   == FirstOk(l) \/ FirstFails(l)
MoreEnds      == MoreOk \/ MoreFails
ShortenEnds   == ShortenOk \/ ShortenFails
DeleteEnds(d) == DeleteOk(d) \/ DeleteFails(d) \/ ReloadOk(d) \/ ReloadFails(d)

Answers == \/ \E l \in Loads : LoadEnds(l)
           \/ MoreEnds \/ ShortenEnds
           \/ \E d \in Deletes : DeleteEnds(d)

Next == Server \/ User \/ Answers \/ \E l \in Loads : Debounce(l)

Spec == Init /\ [][Next]_vars

----------------------------------------------------------------------------
(* Properties.                                                             *)

CallType ==
    [kind: ListKinds \cup {"none", "create", "delete"}, search: Searches,
     cursor: 0..MaxId, id: 0..MaxId, served: BOOLEAN, snap: SUBSET Ids,
     fresh: BOOLEAN]

\* Every variable keeps its type.
TypeOK ==
    /\ rows \subseteq Ids /\ replica \subseteq Ids /\ nextId \in 1..(MaxId + 1)
    /\ made \subseteq Ids /\ pages \in Seq(SUBSET Ids) /\ nextCursor \in 0..MaxId
    /\ searchQuery \in Searches /\ debouncedSearch \in Searches
    /\ isLoadingUrls \in BOOLEAN /\ isLoadingMore \in BOOLEAN
    /\ isShortening \in BOOLEAN
    /\ call \in [Calls -> CallType]
    /\ listFor \in Searches /\ base \subseteq Ids /\ removed \subseteq Ids
    /\ tangled \in BOOLEAN /\ overlapped \in BOOLEAN /\ failed \in BOOLEAN
    /\ changes \in 0..MaxChanges

\* As long as every page belongs to the list it was appended to, the rows of
\* later pages come after those of earlier ones: none is shown twice by paging,
\* whatever was created and deleted between two pages ("doesn't disturb
\* pagination cursor", Dashboard.tsx 84).
PagesInOrder ==
    ~tangled => \A i, j \in DOMAIN pages :
                    i < j => \A a \in pages[i], b \in pages[j] : a > b

\* And none is skipped: a matching row that was there when the first page was
\* read, and still is, is on the screen or below the cursor, unless it was
\* deleted here.
NothingSkipped ==
    ~tangled =>
        \A r \in base \cap rows \cap Matching[listFor] :
            \/ \E i \in DOMAIN pages : r \in pages[i]
            \/ r < nextCursor
            \/ r \in removed

\* If list requests never overlap and none fails, the list is that of the
\* current search once its load has been answered, and in one piece.
OrderlyListIsCurrent ==
    (~overlapped /\ ~failed) =>
        /\ ~tangled
        /\ Listing = {} => listFor = debouncedSearch

\* No spinner and no disabled button for ever: whichever of the overlapping
\* requests ended or failed, a page that is busy still waits for an answer, so
\* it is handed back once the browser has settled every fetch.
BusyMeansRequest ==
    /\ isLoadingUrls => \E l \in Loads : call[l].kind = "first"
    /\ isLoadingMore <=> call["more"].kind = "more"
    /\ isShortening <=> call["create"].kind = "create"
=============================================================================
