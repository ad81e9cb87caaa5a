------------------------------- MODULE Session -------------------------------
(***************************************************************************)
(* The session of a browser: the tabs' user, the pages they may see, the   *)
(* stored user id and the token cookies they share, and auth-service with  *)
(* its replica.  Requests carry the cookies of the moment they are sent,   *)
(* are served and answered in any order, and may fail; a late answer is    *)
(* handled whatever the tab has become.                                    *)
(*                                                                         *)
(* A user is an id with an e-mail.  A password or a code is only accepted  *)
(* or not; the words of errors, and what forms hold, are left out.  The    *)
(* refresh token, of 30 days, does not expire here.  Two requests that are  *)
(* alike in everything are one.                                            *)
(***************************************************************************)
EXTENDS Naturals, FiniteSets

CONSTANTS
    Tabs, Users, Emails,
    Registered,  \* the e-mail of those who have an account at first
    NoOne, NoEmail,
    MaxRequests, \* requests in a run
    MaxPending   \* requests under way at once

ASSUME NoneAssumption == /\ NoOne \notin Users /\ NoEmail \notin Emails
                         /\ "gone" \notin Tabs
ASSUME RegisteredAssumption ==
    /\ DOMAIN Registered \subseteq Users
    /\ \A u, v \in DOMAIN Registered :
        Registered[u] \in Emails /\ (Registered[u] = Registered[v] => u = v)
ASSUME BoundAssumption == MaxRequests \in Nat /\ MaxPending \in Nat

VARIABLES
    accounts, replica, \* the users table, and the replica's
    used,     \* history: the ids that a row was ever given
    jar,      \* the cookies
    storedId, \* localStorage "bittuly_user_id"
    user,     \* of each tab (AuthContext)
    booting,  \* AuthContext's isLoading
    path,     \* the page of each tab
    pending,  \* of each tab: the e-mails in the pending tokens that are kept
              \* with the entries of /verify-otp in its history
    requests, \* under way
    sent,     \* how many requests there were: bounds a run
    crossed   \* history: requests or users of the browser got in each other's way

tables  == <<accounts, replica, used>>
browser == <<jar, storedId>>
pages   == <<user, booting, path, pending>>
sessionVars == <<tables, browser, pages, requests, sent, crossed>>

Someone   == Users \cup {NoOne}
Protected == {"dashboard", "profile", "settings"}
Public    == {"login", "signup", "verify-otp"}

EmptyJar == [access |-> NoOne, expired |-> FALSE, refresh |-> NoOne]

\* Mutant: the refresh token is left as it was.
TokensOfAccessOnly(u) ==
    [access |-> u, expired |-> FALSE, refresh |-> jar.refresh]

\* set_token_cookies.
TokensOf(u) == [access |-> u, expired |-> FALSE, refresh |-> u]

\* The tabs were opened on /login, and somebody may have signed in since, in a
\* tab that is closed.
SessionInit ==
    /\ accounts = [u \in Users |-> IF u \in DOMAIN Registered
                                   THEN Registered[u] ELSE NoEmail]
    /\ replica = accounts /\ used = DOMAIN Registered
    /\ \/ jar = EmptyJar /\ storedId = NoOne
       \/ \E u \in DOMAIN Registered :
            /\ jar = [EmptyJar EXCEPT !.access = u, !.refresh = u]
            /\ storedId = u
    /\ user = [t \in Tabs |-> NoOne] /\ booting = [t \in Tabs |-> FALSE]
    /\ path = [t \in Tabs |-> "login"]
    /\ pending = [t \in Tabs |-> {}]
    /\ requests = {} /\ sent = 0 /\ crossed = FALSE

----------------------------------------------------------------------------
(* Requests.                                                               *)

\* "form": the form that sent it is still on the page, with its isLoading.
Request(t, kind, u, e) ==
    [tab |-> t, kind |-> kind, user |-> u, email |-> e, jar |-> jar,
     form |-> kind \notin {"getUser", "logout"}, served |-> FALSE,
     ok |-> FALSE, result |-> NoOne, tokens |-> NoOne, clears |-> FALSE]

\* apiRequest, with the cookies.
Send(t, kind, u, e) ==
    /\ sent < MaxRequests /\ sent' = sent + 1
    /\ Cardinality(requests) < MaxPending
    /\ requests' = requests \cup {Request(t, kind, u, e)}
    /\ crossed' = (crossed \/ requests # {})

Waiting(t, kind) == \E r \in requests : r.tab = t /\ r.kind = kind

\* The isLoading of a form: another mount of the page starts without it.
Busy(t, kind) == \E r \in requests : r.tab = t /\ r.kind = kind /\ r.form

\* The requests, once the tabs are where they go: forms are gone with their pages.
Unmounted(rs) ==
    {[r EXCEPT !.form = r.form /\ path'[r.tab] = path[r.tab]] : r \in rs}

\* Mutant: a protected page only waits for AuthContext.
RoutedToAnyone(t, p) ==
    IF p = "verify-otp" /\ pending'[t] = {} THEN "signup" ELSE p

\* Mutant: a stranger is sent to a path that has no route.
RoutedAstray(t, p) ==
    IF p \in Protected /\ ~booting'[t] /\ user'[t] = NoOne THEN "home"
    ELSE IF p = "verify-otp" /\ pending'[t] = {} THEN "signup" ELSE p

\* A route's element: a protected page waits for AuthContext and sends a
\* stranger to /login; /verify-otp without a pending token goes to /signup.
Routed(t, p) ==
    IF p \in Protected /\ ~booting'[t] /\ user'[t] = NoOne THEN "login"
    ELSE IF p = "verify-otp" /\ pending'[t] = {} THEN "signup" ELSE p

\* navigate.
Go(t, p) == path' = [path EXCEPT ![t] = Routed(t, p)]

SetUser(t, u) == user' = [user EXCEPT ![t] = u]

----------------------------------------------------------------------------
(* jwt_auth.                                                               *)

\* The user of a request: of the access token, or, if that has expired and the
\* cookie is still there, of the refresh token.
Sub(j) == IF j.access # NoOne /\ j.expired THEN j.refresh ELSE j.access

\* refresh_access_token renews both cookies, whatever the handler answered.
Refreshes(j) == j.access # NoOne /\ j.expired /\ j.refresh # NoOne

\* The answer, with the user whose tokens it sets, and if it clears cookies.
Answer(r, ok, result, tokens, clears) ==
    requests' = (requests \ {r}) \cup
        {[r EXCEPT !.served = TRUE, !.ok = ok, !.result = result,
                   !.tokens = tokens, !.clears = clears]}

Deny(r) == Answer(r, FALSE, NoOne, NoOne, FALSE) /\ UNCHANGED tables

\* An answer of a protected route; tokens and clears are the handler's.
Protect(r, ok, tokens, clears) ==
    Answer(r, ok, IF ok THEN r.user ELSE NoOne,
           IF Refreshes(r.jar) THEN Sub(r.jar) ELSE tokens, clears)

----------------------------------------------------------------------------
(* auth-service's handlers; any of them may fail for want of a database.   *)

Unserved(kind) == {r \in requests : r.kind = kind /\ ~r.served}

\* A protected route refuses, or its handler fails.
Refuse(r) == Protect(r, FALSE, NoOne, FALSE) /\ UNCHANGED tables

\* The user with the e-mail, on the replica, and its password.
Login(r) ==
    /\ \E u \in Users : replica[u] = r.email /\ Answer(r, TRUE, u, u, FALSE)
    /\ UNCHANGED tables

\* The e-mail is free, on the replica, and a code was sent to it.
RequestSignup(r) ==
    /\ \A u \in Users : replica[u] # r.email
    /\ Answer(r, TRUE, NoOne, NoOne, FALSE)
    /\ UNCHANGED tables

\* Mutant: the e-mail is looked up on the replica, and no constraint holds.
EmailFreeOnReplica(e, but) == \A u \in Users \ {but} : replica[u] # e

\* users.email is UNIQUE.
EmailFree(e, but) == \A u \in Users \ {but} : accounts[u] # e

\* Mutant: the answer sets no cookies.
VerifyOtpWithoutTokens(r) ==
    /\ \E u \in Users \ used :
        /\ EmailFree(r.email, u)
        /\ accounts' = [accounts EXCEPT ![u] = r.email]
        /\ used' = used \cup {u}
        /\ Answer(r, TRUE, u, NoOne, FALSE)
    /\ UNCHANGED replica

\* The code is right, the token has not expired, and the row can be inserted.
VerifyOtp(r) ==
    /\ \E u \in Users \ used :
        /\ EmailFree(r.email, u)
        /\ accounts' = [accounts EXCEPT ![u] = r.email]
        /\ used' = used \cup {u}
        /\ Answer(r, TRUE, u, u, FALSE)
    /\ UNCHANGED replica

\* jwt_auth, and the id in the path has to be the token's.
Owner(r) == Sub(r.jar) # NoOne /\ Sub(r.jar) = r.user

GetUser(r) ==
    /\ Owner(r) /\ replica[r.user] # NoEmail
    /\ Protect(r, TRUE, NoOne, FALSE)
    /\ UNCHANGED tables

UpdateUser(r) ==
    /\ Owner(r) /\ accounts[r.user] # NoEmail /\ EmailFree(r.email, r.user)
    /\ accounts' = [accounts EXCEPT ![r.user] = r.email]
    /\ Protect(r, TRUE, r.user, FALSE)
    /\ UNCHANGED <<replica, used>>

\* Also if the row is gone; the cookies stay.
DeleteUser(r) ==
    /\ Owner(r)
    /\ accounts' = [accounts EXCEPT ![r.user] = NoEmail]
    /\ Protect(r, TRUE, NoOne, FALSE)
    /\ UNCHANGED <<replica, used>>

\* Behind jwt_auth, too: without an access cookie it is refused, and a refresh
\* sets again what the handler has cleared.
Logout(r) ==
    /\ Sub(r.jar) # NoOne
    /\ Protect(r, TRUE, NoOne, TRUE)
    /\ UNCHANGED tables

Serve ==
    /\ \/ \E r \in Unserved("login")   : Login(r) \/ Deny(r)
       \/ \E r \in Unserved("signup")  : RequestSignup(r) \/ Deny(r)
       \/ \E r \in Unserved("verify")  : VerifyOtp(r) \/ Deny(r)
       \/ \E r \in Unserved("getUser") : GetUser(r) \/ Refuse(r)
       \/ \E r \in Unserved("update")  : UpdateUser(r) \/ Refuse(r)
       \/ \E r \in Unserved("delete")  : DeleteUser(r) \/ Refuse(r)
       \/ \E r \in Unserved("logout")  : Logout(r) \/ Refuse(r)
    /\ UNCHANGED <<browser, pages, sent, crossed>>

ReplicateUsers ==
    /\ replica # accounts /\ replica' = accounts
    /\ UNCHANGED <<accounts, used, browser, pages, requests, sent, crossed>>

----------------------------------------------------------------------------
(* The cookies.                                                            *)

\* The access token and its cookie live as long, but the cookie counts from its
\* arrival: it outlives the token, and the verifier's leeway, only if the answer
\* was slow, or a clock is.
AccessExpires ==
    /\ jar.access # NoOne /\ ~jar.expired
    /\ jar' = [jar EXCEPT !.expired = TRUE]
    /\ UNCHANGED <<tables, storedId, pages, requests, sent, crossed>>

AccessCookieGoes ==
    /\ jar.expired
    /\ jar' = [jar EXCEPT !.access = NoOne, !.expired = FALSE]
    /\ UNCHANGED <<tables, storedId, pages, requests, sent, crossed>>

\* The answer's Set-Cookie headers, the cleared ones first.
StoreCookies(r) ==
    jar' = IF r.tokens # NoOne THEN TokensOf(r.tokens)
           ELSE IF r.clears THEN EmptyJar ELSE jar

\* The request of a tab ends, with the answer or with a failure: one that comes
\* after the headers have come leaves the cookies, but not the answer.
Ends(r, ok) ==
    /\ r \in requests /\ requests' = Unmounted(requests \ {r})
    /\ \/ /\ r.served /\ ok = r.ok
          /\ StoreCookies(r)
          /\ crossed' = (crossed \/ \E t \in Tabs \ {r.tab} :
                            r.tokens # NoOne /\ user[t] \notin {NoOne, r.tokens})
       \/ ~ok /\ UNCHANGED <<jar, crossed>>
       \/ /\ r.served /\ ~ok
          /\ StoreCookies(r)
          /\ crossed' = TRUE
    /\ UNCHANGED <<tables, sent>>

----------------------------------------------------------------------------
(* The tabs.                                                               *)

\* A tab is opened or reloaded: its requests go on without it.
Load(t) ==
    /\ user' = [user EXCEPT ![t] = NoOne]
    /\ booting' = [booting EXCEPT ![t] = storedId # NoOne]
    /\ UNCHANGED pending
    /\ Go(t, path[t])
    /\ LET left == {IF r.tab = t THEN [r EXCEPT !.tab = "gone", !.form = FALSE]
                                 ELSE r : r \in requests}
       IN  IF storedId = NoOne
           THEN requests' = left /\ UNCHANGED <<sent, crossed>>
           ELSE /\ sent < MaxRequests /\ sent' = sent + 1
                /\ Cardinality(requests) < MaxPending
                /\ requests' = left \cup
                    {Request(t, "getUser", storedId, NoEmail)}
                /\ crossed' = (crossed \/ requests # {})
    /\ UNCHANGED <<tables, browser>>

Orphan == /\ UNCHANGED <<storedId, pages>>
          /\ \E r \in requests, ok \in BOOLEAN : r.tab = "gone" /\ Ends(r, ok)

\* AuthContext's effect: any failure forgets the stored id.
Booted(t) ==
    /\ booting' = [booting EXCEPT ![t] = FALSE]
    /\ UNCHANGED pending
    /\ \E r \in requests, ok \in BOOLEAN :
        /\ r.tab = t /\ r.kind = "getUser"
        /\ SetUser(t, IF ok THEN r.result ELSE user[t])
        /\ storedId' = IF ok THEN storedId ELSE NoOne
        /\ Go(t, path[t])
        /\ Ends(r, ok)

\* The links of the pages, the address bar, and the way back, which may lead to
\* any /verify-otp of the history.
Visit(t, p) ==
    /\ p # path[t]
    /\ UNCHANGED <<user, booting, pending>>
    /\ Go(t, p)
    /\ path' # path
    /\ requests' = Unmounted(requests)
    /\ UNCHANGED <<tables, browser, sent, crossed>>

\* The forms: a button is disabled until the answer is there.
LoginForm(t)   == path[t] = "login" /\ ~Busy(t, "login")
SignupForm(t)  == path[t] = "signup" /\ ~Busy(t, "signup")
VerifyForm(t)  == path[t] = "verify-otp" /\ ~Busy(t, "verify")
ProfileForm(t) == path[t] = "profile" /\ ~booting[t] /\ ~Busy(t, "update")
DeleteForm(t)  == path[t] = "settings" /\ ~booting[t] /\ ~Busy(t, "delete")
UserMenu(t)    == path[t] \in Protected /\ user[t] # NoOne

Submit(t) ==
    /\ \/ \E e \in Emails : LoginForm(t) /\ Send(t, "login", NoOne, e)
       \/ \E e \in Emails : SignupForm(t) /\ Send(t, "signup", NoOne, e)
       \/ \E e \in pending[t] : VerifyForm(t) /\ Send(t, "verify", NoOne, e)
       \/ \E e \in Emails : ProfileForm(t) /\ Send(t, "update", user[t], e)
       \/ DeleteForm(t) /\ Send(t, "delete", user[t], NoEmail)
       \/ UserMenu(t) /\ Send(t, "logout", NoOne, NoEmail)
    /\ UNCHANGED <<tables, browser, pages>>

SignIn(t, kind) ==
    /\ UNCHANGED <<booting, pending>>
    /\ \E r \in requests :
        /\ r.tab = t /\ r.kind = kind
        /\ storedId' = r.result
        /\ SetUser(t, r.result)
        /\ Go(t, "dashboard")
        /\ Ends(r, TRUE)

LoggedIn(t) == SignIn(t, "login")
Verified(t) == SignIn(t, "verify")

SignupAccepted(t) ==
    /\ UNCHANGED <<user, booting, storedId>>
    /\ \E r \in requests :
        /\ r.tab = t /\ r.kind = "signup"
        /\ pending' = [pending EXCEPT ![t] = @ \cup {r.email}]
        /\ Go(t, "verify-otp")
        /\ Ends(r, TRUE)

\* Profile's saveEdit.
Updated(t) ==
    /\ UNCHANGED <<booting, path, pending>>
    /\ \E r \in requests :
        /\ r.tab = t /\ r.kind = "update"
        /\ storedId' = r.result
        /\ SetUser(t, r.result)
        /\ Ends(r, TRUE)

\* signOut, answered or not, and a deletion.
SignedOut(t) ==
    /\ storedId' = NoOne
    /\ SetUser(t, NoOne)
    /\ UNCHANGED <<booting, pending>>
    /\ Go(t, "login")
    /\ \E r \in requests, ok \in BOOLEAN :
        /\ r.tab = t /\ (r.kind = "logout" \/ (r.kind = "delete" /\ ok))
        /\ Ends(r, ok)

\* A message, and the form may be submitted again.
FormFails(t) ==
    /\ UNCHANGED <<storedId, pages>>
    /\ \E r \in requests :
        /\ r.tab = t /\ r.kind \in {"login", "signup", "verify", "update", "delete"}
        /\ Ends(r, FALSE)

Tab(t) == \/ Load(t) \/ Booted(t) \/ Submit(t) \/ LoggedIn(t)
          \/ Verified(t) \/ SignupAccepted(t) \/ Updated(t)
          \/ SignedOut(t) \/ FormFails(t)
          \/ \E p \in Protected \cup Public : Visit(t, p)

SessionNext == \/ \E t \in Tabs : Tab(t)
               \/ Serve \/ ReplicateUsers \/ Orphan
               \/ AccessExpires \/ AccessCookieGoes

SessionSpec == SessionInit /\ [][SessionNext]_sessionVars

----------------------------------------------------------------------------
(* Properties.                                                             *)

RequestType ==
    [tab: Tabs \cup {"gone"},
     kind: {"login", "signup", "verify", "getUser", "update", "delete",
            "logout"},
     user: Someone, email: Emails \cup {NoEmail},
     jar: [access: Someone, expired: BOOLEAN, refresh: Someone],
     form: BOOLEAN, served: BOOLEAN, ok: BOOLEAN,
     result: Someone, tokens: Someone, clears: BOOLEAN]

\* Every variable keeps its type.
SessionTypeOK ==
    /\ accounts \in [Users -> Emails \cup {NoEmail}]
    /\ replica \in [Users -> Emails \cup {NoEmail}] /\ used \subseteq Users
    /\ jar \in [access: Someone, expired: BOOLEAN, refresh: Someone]
    /\ storedId \in Someone
    /\ user \in [Tabs -> Someone] /\ booting \in [Tabs -> BOOLEAN]
    /\ path \in [Tabs -> Protected \cup Public]
    /\ pending \in [Tabs -> SUBSET (Emails \cup {NoEmail})]
    /\ requests \subseteq RequestType /\ sent \in 0..MaxRequests
    /\ crossed \in BOOLEAN

\* However answers overtake each other, the two cookies are of one user: a
\* refresh never turns one user's request into another's.
TokensMatch ==
    jar.access # NoOne => jar.refresh = jar.access

\* Unless requests overlapped, an answer was cut off, or another tab was signed
\* in as somebody else, the user a tab shows is the one its requests are made
\* for.
ShownIsAuthenticated ==
    ~crossed => \A t \in Tabs : user[t] # NoOne => Sub(jar) \in {NoOne, user[t]}

\* A protected page is only on the screen of a tab that has a user or still
\* asks for it, and a tab that asks waits for an answer: neither late answers
\* nor reloads leave a page without a user, or the spinner, for ever.
PagesHaveUsers ==
    \A t \in Tabs : /\ path[t] \in Protected => (booting[t] \/ user[t] # NoOne)
                    /\ booting[t] => Waiting(t, "getUser")

\* Two accounts never have one e-mail, whatever the replica did not know when
\* the code was asked for, and however often a code is used.
EmailsUnique ==
    \A u, v \in Users : accounts[u] = accounts[v] /\ u # v => accounts[u] = NoEmail
=============================================================================
