------------------------------- MODULE UrlStore -------------------------------
(***************************************************************************)
(* What POST /api/urls promises: a user has one link for a URL, its code is*)
(* never that of another link, past or present, and every request is       *)
(* answered, by the new link, by the old one renewed if the request found  *)
(* it expired, or by a conflict with a link that is there.                 *)
(***************************************************************************)
EXTENDS Naturals

CONSTANTS
    Keys,     \* a URL and the user who shortens it
    Requests,
    Codes

Expiries == {"never", "future", "past"}

VARIABLES
    links,  \* the link of each key, or none
    issued, \* the codes that were ever given to a link
    ask     \* what each request wants, and how far it is

storeVars == <<links, issued, ask>>

NoLink == [code |-> 0, expiry |-> "none"]

Wants(r) == ask[r].status \in {"asked", "noticed"}
Becomes(r, status) == ask' = [ask EXCEPT ![r].status = status]
Link(r) == links[ask[r].key]
SetLink(r, link) == links' = [links EXCEPT ![ask[r].key] = link]

StoreInit ==
    /\ links = [k \in Keys |-> NoLink] /\ issued = {}
    /\ ask \in [Requests -> [key: Keys, expiry: Expiries, status: {"idle"}]]

Ask(r) ==
    /\ ~Wants(r)
    /\ \E k \in Keys, e \in Expiries :
        ask' = [ask EXCEPT ![r] = [key |-> k, expiry |-> e, status |-> "asked"]]
    /\ UNCHANGED <<links, issued>>

\* The answer of a link that was made may be lost.
Create(r) ==
    /\ Wants(r) /\ Link(r) = NoLink
    /\ \E c \in Codes \ issued :
        /\ SetLink(r, [code |-> c, expiry |-> ask[r].expiry])
        /\ issued' = issued \cup {c}
    /\ \/ Becomes(r, "created") \/ Becomes(r, "error")

Notice(r) ==
    /\ ask[r].status = "asked" /\ Link(r).expiry = "past"
    /\ Becomes(r, "noticed")
    /\ UNCHANGED <<links, issued>>

\* Whatever happened to the expiry since it was noticed; the answer may be lost.
Renew(r) ==
    /\ ask[r].status = "noticed" /\ Link(r) # NoLink
    /\ SetLink(r, [Link(r) EXCEPT !.expiry = ask[r].expiry])
    /\ Becomes(r, "renewed") \/ Becomes(r, "error")
    /\ UNCHANGED issued

Conflict(r) ==
    /\ Wants(r) /\ Link(r) # NoLink
    /\ Becomes(r, "conflict")
    /\ UNCHANGED <<links, issued>>

Fail(r) ==
    /\ Wants(r) /\ Becomes(r, "error")
    /\ UNCHANGED <<links, issued>>

Remove == /\ \E k \in Keys : /\ links[k] # NoLink
                             /\ links' = [links EXCEPT ![k] = NoLink]
          /\ UNCHANGED <<issued, ask>>

TimePasses == /\ \E k \in Keys : /\ links[k].expiry = "future"
                                 /\ links' = [links EXCEPT ![k].expiry = "past"]
              /\ UNCHANGED <<issued, ask>>

Answered(r) == Create(r) \/ Renew(r) \/ Conflict(r) \/ Fail(r)

StoreNext == \/ \E r \in Requests : Ask(r) \/ Notice(r) \/ Answered(r)
             \/ Remove \/ TimePasses

StoreSafety == StoreInit /\ [][StoreNext]_storeVars

StoreSpec == StoreSafety /\ \A r \in Requests : WF_storeVars(Answered(r))
=============================================================================
