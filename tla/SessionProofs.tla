----------------------------- MODULE SessionProofs -----------------------------
(***************************************************************************)
(* Proofs about Session, for any tabs, users, e-mails and requests: types, *)
(* cookies of one user, unique e-mails, no protected page without a user,  *)
(* and that a tab shows the user its requests are made for as long as      *)
(* nothing crossed.                                                        *)
(***************************************************************************)
EXTENDS Session, TLAPS

\* What an answer may say: a user with the tokens of that user, or tokens of the
\* user whose request it was.
Honest(r) ==
    r.served =>
        /\ r.ok /\ r.kind \in {"login", "verify"} =>
            r.result # NoOne /\ r.tokens = r.result
        /\ r.ok /\ r.kind \in {"getUser", "update"} =>
            r.result # NoOne /\ r.result = Sub(r.jar)
        /\ ~(r.ok /\ r.kind \in {"login", "verify"}) =>
            r.tokens \in {NoOne, Sub(r.jar)}

AnswersAreHonest == \A r \in requests : Honest(r)

\* Both cookies that a request carries are of one user, too.
JarMatches(j) == j.access # NoOne => j.refresh = j.access

JarsMatch == JarMatches(jar) /\ \A r \in requests : JarMatches(r.jar)

\* Without overlaps there is one request, with cookies as they still are but for
\* their age, of a tab that shows their user or none.
OneRequest ==
    ~crossed =>
        /\ \A p, q \in requests : p = q
        /\ \A r \in requests :
            /\ jar.access \in {NoOne, r.jar.access}
            /\ r.tab \in Tabs => \/ Sub(r.jar) = NoOne
                                 \/ user[r.tab] \in {NoOne, Sub(r.jar)}

IInv == /\ SessionTypeOK /\ AnswersAreHonest /\ JarsMatch /\ EmailsUnique
        /\ PagesHaveUsers /\ OneRequest /\ ShownIsAuthenticated

----------------------------------------------------------------------------
(* Requests and answers.                                                   *)

Kinds == {"login", "signup", "verify", "getUser", "update", "delete", "logout"}

JarType == [access: Someone, expired: BOOLEAN, refresh: Someone]

\* The user of cookies that match.
LEMMA SubOfMatching ==
    /\ \A j \in JarType : Sub(j) \in Someone
    /\ \A j \in JarType : JarMatches(j) => Sub(j) = j.access
    /\ \A u \in Users : /\ TokensOf(u) \in JarType /\ JarMatches(TokensOf(u))
                        /\ TokensOf(u).access = u
    /\ EmptyJar \in JarType /\ JarMatches(EmptyJar) /\ EmptyJar.access = NoOne
BY DEF Sub, JarMatches, TokensOf, EmptyJar, JarType, Someone

\* A request that is sent.
LEMMA RequestFacts ==
    ASSUME SessionTypeOK, NEW t \in Tabs, NEW kind \in Kinds,
           NEW u \in Someone, NEW e \in Emails \cup {NoEmail}
    PROVE  /\ Request(t, kind, u, e) \in RequestType
           /\ Request(t, kind, u, e).tab = t
           /\ Request(t, kind, u, e).kind = kind
           /\ Request(t, kind, u, e).jar = jar
           /\ ~Request(t, kind, u, e).served
BY DEF Request, SessionTypeOK, RequestType, Kinds, Someone

\* What auth-service does to a request.
Answered(r, a) ==
    /\ r \in requests /\ a \in RequestType /\ Honest(a)
    /\ requests' = (requests \ {r}) \cup {a}
    /\ a.tab = r.tab /\ a.kind = r.kind /\ a.jar = r.jar

LEMMA AnswerFacts ==
    ASSUME SessionTypeOK, NEW r \in requests, NEW ok \in BOOLEAN,
           NEW result \in Someone, NEW tokens \in Someone,
           NEW clears \in BOOLEAN, Answer(r, ok, result, tokens, clears),
           ok /\ r.kind \in {"login", "verify"} =>
                result # NoOne /\ tokens = result,
           ok /\ r.kind \in {"getUser", "update"} =>
                result # NoOne /\ result = Sub(r.jar),
           ~(ok /\ r.kind \in {"login", "verify"}) =>
                tokens \in {NoOne, Sub(r.jar)}
    PROVE  \E a : Answered(r, a)
<1> DEFINE a == [r EXCEPT !.served = TRUE, !.ok = ok, !.result = result,
                          !.tokens = tokens, !.clears = clears]
<1>1. r \in RequestType
    BY DEF SessionTypeOK
<1>2. a \in RequestType
    BY <1>1 DEF RequestType
<1>3. /\ a.tab = r.tab /\ a.kind = r.kind /\ a.jar = r.jar
      /\ a.ok = ok /\ a.result = result /\ a.tokens = tokens
    BY <1>1 DEF RequestType
<1>4. Honest(a)
    BY <1>3 DEF Honest
<1>5. requests' = (requests \ {r}) \cup {a}
    BY DEF Answer
<1> QED BY <1>2, <1>3, <1>4, <1>5 DEF Answered

\* The answer of a protected route.
LEMMA ProtectFacts ==
    ASSUME SessionTypeOK, NEW r \in requests, NEW ok \in BOOLEAN,
           NEW tokens \in {NoOne, Sub(r.jar)}, NEW clears \in BOOLEAN,
           Protect(r, ok, tokens, clears),
           r.kind \notin {"login", "verify"},
           ok /\ r.kind \in {"getUser", "update"} => Owner(r)
    PROVE  \E a : Answered(r, a)
<1>1. r.user \in Someone /\ r.jar \in JarType
    BY DEF SessionTypeOK, RequestType, JarType
<1>2. Sub(r.jar) \in Someone
    BY <1>1, SubOfMatching
<1> DEFINE result == IF ok THEN r.user ELSE NoOne
           given  == IF Refreshes(r.jar) THEN Sub(r.jar) ELSE tokens
<1>3. result \in Someone /\ given \in Someone /\ given \in {NoOne, Sub(r.jar)}
    BY <1>1, <1>2 DEF Someone
<1>4. ok /\ r.kind \in {"getUser", "update"} =>
        result # NoOne /\ result = Sub(r.jar)
    BY DEF Owner
<1>5. Answer(r, ok, result, given, clears)
    BY DEF Protect
<1> HIDE DEF result, given
<1> QED BY <1>3, <1>4, <1>5, AnswerFacts

\* auth-service answers one request, and changes at most one account.
LEMMA ServeFacts ==
    ASSUME SessionTypeOK, Serve
    PROVE  /\ \E r, a : Answered(r, a)
           /\ accounts' \in [Users -> Emails \cup {NoEmail}]
           /\ replica' = replica /\ used' \subseteq Users
           /\ EmailsUnique => EmailsUnique'
<1> DEFINE Goal == /\ \E r, a : Answered(r, a)
                   /\ accounts' \in [Users -> Emails \cup {NoEmail}]
                   /\ replica' = replica /\ used' \subseteq Users
                   /\ EmailsUnique => EmailsUnique'
<1>0. UNCHANGED tables => /\ accounts' \in [Users -> Emails \cup {NoEmail}]
                          /\ replica' = replica /\ used' \subseteq Users
                          /\ EmailsUnique => EmailsUnique'
    BY DEF tables, SessionTypeOK, EmailsUnique
<1>1. ASSUME NEW r \in requests, Deny(r) PROVE Goal
    <2>1. \E a : Answered(r, a)
        BY <1>1, AnswerFacts DEF Deny, Someone
    <2> QED BY <1>0, <1>1, <2>1 DEF Deny
<1>2. ASSUME NEW r \in requests, r.kind \notin {"login", "verify"}, Refuse(r)
      PROVE  Goal
    <2>1. \E a : Answered(r, a)
        BY <1>2, ProtectFacts DEF Refuse
    <2> QED BY <1>0, <1>2, <2>1 DEF Refuse
<1>3. ASSUME NEW r \in Unserved("login"), Login(r) PROVE Goal
    <2>1. PICK u \in Users : Answer(r, TRUE, u, u, FALSE)
        BY <1>3 DEF Login
    <2>2. r \in requests /\ r.kind = "login" /\ u # NoOne /\ u \in Someone
        BY NoneAssumption DEF Unserved, Someone
    <2>3. \E a : Answered(r, a)
        BY <2>1, <2>2, AnswerFacts
    <2> QED BY <1>0, <1>3, <2>3 DEF Login
<1>4. ASSUME NEW r \in Unserved("signup"), RequestSignup(r) PROVE Goal
    <2>1. r \in requests /\ r.kind = "signup" /\ NoOne \in Someone
        BY DEF Unserved, Someone
    <2>2. \E a : Answered(r, a)
        BY <1>4, <2>1, AnswerFacts DEF RequestSignup
    <2> QED BY <1>0, <1>4, <2>2 DEF RequestSignup
<1>5. ASSUME NEW r \in Unserved("verify"), VerifyOtp(r) PROVE Goal
    <2>1. PICK u \in Users :
            /\ EmailFree(r.email, u)
            /\ accounts' = [accounts EXCEPT ![u] = r.email]
            /\ used' = used \cup {u}
            /\ Answer(r, TRUE, u, u, FALSE)
        BY <1>5 DEF VerifyOtp
    <2>2. r \in requests /\ r.kind = "verify" /\ u # NoOne /\ u \in Someone
        BY NoneAssumption DEF Unserved, Someone
    <2>3. \E a : Answered(r, a)
        BY <2>1, <2>2, AnswerFacts
    <2>4. r.email \in Emails \cup {NoEmail}
        BY <2>2 DEF SessionTypeOK, RequestType
    <2>5. accounts' \in [Users -> Emails \cup {NoEmail}] /\ used' \subseteq Users
        BY <2>1, <2>4 DEF SessionTypeOK
    <2>6. EmailsUnique => EmailsUnique'
        BY <2>1 DEF SessionTypeOK, EmailsUnique, EmailFree
    <2> QED BY <1>5, <2>3, <2>5, <2>6 DEF VerifyOtp
<1>6. ASSUME NEW r \in Unserved("getUser"), GetUser(r) PROVE Goal
    <2>1. r \in requests /\ r.kind = "getUser"
        BY DEF Unserved
    <2>2. \E a : Answered(r, a)
        BY <1>6, <2>1, ProtectFacts DEF GetUser
    <2> QED BY <1>0, <1>6, <2>2 DEF GetUser
<1>7. ASSUME NEW r \in Unserved("update"), UpdateUser(r) PROVE Goal
    <2>1. r \in requests /\ r.kind = "update" /\ r.user \in {NoOne, Sub(r.jar)}
        BY <1>7 DEF Unserved, UpdateUser, Owner
    <2>2. \E a : Answered(r, a)
        BY <1>7, <2>1, ProtectFacts DEF UpdateUser
    <2>3. r.email \in Emails \cup {NoEmail} /\ r.user \in Someone
        BY <2>1 DEF SessionTypeOK, RequestType
    <2>4. accounts' \in [Users -> Emails \cup {NoEmail}] /\ used' \subseteq Users
        BY <1>7, <2>3 DEF UpdateUser, SessionTypeOK
    <2>5. EmailsUnique => EmailsUnique'
        BY <1>7 DEF UpdateUser, SessionTypeOK, EmailsUnique, EmailFree
    <2> QED BY <1>7, <2>2, <2>4, <2>5 DEF UpdateUser
<1>8. ASSUME NEW r \in Unserved("delete"), DeleteUser(r) PROVE Goal
    <2>1. r \in requests /\ r.kind = "delete"
        BY DEF Unserved
    <2>2. \E a : Answered(r, a)
        BY <1>8, <2>1, ProtectFacts DEF DeleteUser
    <2>3. accounts' \in [Users -> Emails \cup {NoEmail}] /\ used' \subseteq Users
        BY <1>8 DEF DeleteUser, SessionTypeOK
    <2>4. EmailsUnique => EmailsUnique'
        BY <1>8 DEF DeleteUser, SessionTypeOK, EmailsUnique
    <2> QED BY <1>8, <2>2, <2>3, <2>4 DEF DeleteUser
<1>9. ASSUME NEW r \in Unserved("logout"), Logout(r) PROVE Goal
    <2>1. r \in requests /\ r.kind = "logout"
        BY DEF Unserved
    <2>2. \E a : Answered(r, a)
        BY <1>9, <2>1, ProtectFacts DEF Logout
    <2> QED BY <1>0, <1>9, <2>2 DEF Logout
<1> HIDE DEF Goal
<1>10. Goal
    BY <1>1, <1>2, <1>3, <1>4, <1>5, <1>6, <1>7, <1>8, <1>9
       DEF Serve, Unserved
<1> QED BY <1>10 DEF Goal

\* The requests of pages that are left are otherwise as they were.
LEMMA UnmountedFacts ==
    ASSUME SessionTypeOK, NEW R \in SUBSET requests
    PROVE  /\ Unmounted(R) \subseteq RequestType
           /\ \A q \in Unmounted(R) : \E r \in R :
                /\ q.tab = r.tab /\ q.kind = r.kind /\ q.jar = r.jar
                /\ (Honest(r) => Honest(q))
           /\ \A r \in R : \E q \in Unmounted(R) : q.tab = r.tab /\ q.kind = r.kind
           /\ (\A p, q \in R : p = q) => (\A p, q \in Unmounted(R) : p = q)
           /\ R = {} => Unmounted(R) = {}
<1> DEFINE f(r) == [r EXCEPT !.form = r.form /\ path'[r.tab] = path[r.tab]]
<1>1. ASSUME NEW r \in R
      PROVE  /\ f(r) \in RequestType
             /\ f(r).tab = r.tab /\ f(r).kind = r.kind /\ f(r).jar = r.jar
             /\ f(r).served = r.served /\ f(r).ok = r.ok
             /\ f(r).result = r.result /\ f(r).tokens = r.tokens
    <2> DEFINE b == r.form /\ path'[r.tab] = path[r.tab]
    <2>1. r \in RequestType
        BY DEF SessionTypeOK
    <2>2. b \in BOOLEAN
        BY <2>1 DEF RequestType
    <2> HIDE DEF b
    <2>3. f(r) = [r EXCEPT !.form = b]
        BY DEF b
    <2> HIDE DEF f
    <2> QED BY <2>1, <2>2, <2>3 DEF RequestType
<1>2. Unmounted(R) = {f(r) : r \in R}
    BY DEF Unmounted
<1> HIDE DEF f
<1>3. Unmounted(R) \subseteq RequestType
    BY <1>1, <1>2
<1>4. \A q \in Unmounted(R) : \E r \in R :
        /\ q.tab = r.tab /\ q.kind = r.kind /\ q.jar = r.jar
        /\ (Honest(r) => Honest(q))
    BY <1>1, <1>2 DEF Honest
<1>5. \A r \in R : \E q \in Unmounted(R) : q.tab = r.tab /\ q.kind = r.kind
    BY <1>1, <1>2
<1>6. (\A p, q \in R : p = q) => (\A p, q \in Unmounted(R) : p = q)
    BY <1>2
<1>7. R = {} => Unmounted(R) = {}
    BY <1>2
<1> QED BY <1>3, <1>4, <1>5, <1>6, <1>7

\* The end of a request: it is gone, and the cookies are as they were, empty, or
\* those of the answer, which then is the tab's unless something crosses.
LEMMA EndsFacts ==
    ASSUME SessionTypeOK, NEW r, NEW ok \in BOOLEAN, Ends(r, ok)
    PROVE  /\ r \in requests /\ r \in RequestType
           /\ requests' = Unmounted(requests \ {r}) /\ crossed' \in BOOLEAN
           /\ UNCHANGED <<tables, sent>>
           /\ ok => r.served /\ r.ok
           /\ \/ jar' = jar \/ jar' = EmptyJar
              \/ r.served /\ r.tokens \in Users /\ jar' = TokensOf(r.tokens)
           /\ ok /\ r.tokens # NoOne => jar' = TokensOf(r.tokens)
           /\ ~crossed' => ~crossed
           /\ (~crossed' /\ jar' # jar /\ jar' # EmptyJar) =>
                /\ r.ok = ok
                /\ \A t \in Tabs \ {r.tab} : user[t] \in {NoOne, r.tokens}
<1>1. r \in requests /\ r \in RequestType
    BY DEF Ends, SessionTypeOK
<1>2. r.tokens \in Someone /\ r.ok \in BOOLEAN
    BY <1>1 DEF RequestType
<1>3. StoreCookies(r) =>
        /\ \/ jar' = jar \/ jar' = EmptyJar
           \/ r.tokens \in Users /\ jar' = TokensOf(r.tokens)
        /\ r.tokens # NoOne => jar' = TokensOf(r.tokens)
        /\ jar' # jar /\ jar' # EmptyJar => r.tokens # NoOne
    BY <1>2 DEF StoreCookies, Someone
<1>4. CASE /\ r.served /\ ok = r.ok
           /\ StoreCookies(r)
           /\ crossed' = (crossed \/ \E t \in Tabs \ {r.tab} :
                            r.tokens # NoOne /\ user[t] \notin {NoOne, r.tokens})
    BY <1>1, <1>3, <1>4 DEF Ends, SessionTypeOK
<1>5. CASE ~ok /\ UNCHANGED <<jar, crossed>>
    BY <1>1, <1>5 DEF Ends, SessionTypeOK
<1>6. CASE r.served /\ ~ok /\ StoreCookies(r) /\ crossed' = TRUE
    BY <1>1, <1>3, <1>6 DEF Ends
<1> QED BY <1>4, <1>5, <1>6 DEF Ends

\* A request whose tab is left.
Left(t) == {IF r.tab = t THEN [r EXCEPT !.tab = "gone", !.form = FALSE] ELSE r :
                r \in requests}

LEMMA LeftFacts ==
    ASSUME SessionTypeOK, NEW t \in Tabs
    PROVE  /\ Left(t) \subseteq RequestType
           /\ \A q \in Left(t) : q.tab # t
           /\ \A q \in Left(t) : \E r \in requests :
                /\ q.tab \in {"gone", r.tab} /\ q.kind = r.kind /\ q.jar = r.jar
                /\ (Honest(r) => Honest(q))
           /\ \A r \in requests : r.tab # t => r \in Left(t)
           /\ (\A p, q \in requests : p = q) => (\A p, q \in Left(t) : p = q)
           /\ requests = {} => Left(t) = {}
<1> DEFINE f(r) == IF r.tab = t THEN [r EXCEPT !.tab = "gone", !.form = FALSE]
                                ELSE r
<1>1. ASSUME NEW r \in requests
      PROVE  /\ f(r) \in RequestType
             /\ f(r).tab = IF r.tab = t THEN "gone" ELSE r.tab
             /\ f(r).kind = r.kind /\ f(r).jar = r.jar
             /\ f(r).served = r.served /\ f(r).ok = r.ok
             /\ f(r).result = r.result /\ f(r).tokens = r.tokens
             /\ r.tab # t => f(r) = r
    <2>1. r \in RequestType
        BY DEF SessionTypeOK
    <2>2. CASE r.tab = t
        <3> DEFINE left == [r EXCEPT !.tab = "gone", !.form = FALSE]
        <3>1. f(r) = left
            BY <2>2
        <3>2. left \in RequestType
            BY <2>1 DEF RequestType
        <3>3. /\ left.tab = "gone" /\ left.kind = r.kind /\ left.jar = r.jar
              /\ left.served = r.served /\ left.ok = r.ok
              /\ left.result = r.result /\ left.tokens = r.tokens
            BY <2>1 DEF RequestType
        <3> HIDE DEF f, left
        <3> QED BY <2>2, <3>1, <3>2, <3>3
    <2>3. CASE r.tab # t
        BY <2>1, <2>3
    <2> QED BY <2>2, <2>3
<1>2. "gone" # t
    BY NoneAssumption
<1>3. Left(t) = {f(r) : r \in requests}
    BY DEF Left
<1> HIDE DEF f
<1>4. Left(t) \subseteq RequestType
    BY <1>1, <1>3
<1>5. \A q \in Left(t) : q.tab # t
    BY <1>1, <1>2, <1>3
<1>6. \A q \in Left(t) : \E r \in requests :
        /\ q.tab \in {"gone", r.tab} /\ q.kind = r.kind /\ q.jar = r.jar
        /\ (Honest(r) => Honest(q))
    BY <1>1, <1>3 DEF Honest
<1>7. \A r \in requests : r.tab # t => r \in Left(t)
    BY <1>1, <1>3
<1>8. (\A p, q \in requests : p = q) => (\A p, q \in Left(t) : p = q)
    BY <1>3
<1>9. requests = {} => Left(t) = {}
    BY <1>3
<1> QED BY <1>4, <1>5, <1>6, <1>7, <1>8, <1>9

\* A tab that is loaded asks for the stored user, if there is one.
LEMMA LoadFacts ==
    ASSUME SessionTypeOK, NEW t \in Tabs, Load(t)
    PROVE  \/ /\ storedId = NoOne /\ requests' = Left(t)
              /\ UNCHANGED <<sent, crossed>>
           \/ /\ storedId # NoOne
              /\ requests' = Left(t) \cup {Request(t, "getUser", storedId, NoEmail)}
              /\ Request(t, "getUser", storedId, NoEmail) \in RequestType
              /\ sent < MaxRequests /\ sent' = sent + 1
              /\ crossed' = (crossed \/ requests # {})
<1>1. Request(t, "getUser", storedId, NoEmail) \in RequestType
    BY RequestFacts DEF SessionTypeOK, Kinds
<1> QED BY <1>1 DEF Load, Left

\* A form sends a request of its tab.
LEMMA SubmitFacts ==
    ASSUME SessionTypeOK, NEW t \in Tabs, Submit(t)
    PROVE  \E q \in RequestType :
            /\ q.tab = t /\ q.jar = jar /\ ~q.served
            /\ requests' = requests \cup {q}
            /\ sent < MaxRequests /\ sent' = sent + 1
            /\ crossed' = (crossed \/ requests # {})
            /\ UNCHANGED <<tables, browser, pages>>
<1>1. PICK kind \in Kinds, u \in Someone, e \in Emails \cup {NoEmail} :
        Send(t, kind, u, e)
    BY DEF Submit, Kinds, Someone, SessionTypeOK
<1>2. PICK q : /\ q = Request(t, kind, u, e)
               /\ q \in RequestType /\ q.tab = t /\ q.jar = jar
               /\ ~q.served
    BY <1>1, RequestFacts
<1>3. /\ requests' = requests \cup {q}
      /\ sent < MaxRequests /\ sent' = sent + 1
      /\ crossed' = (crossed \/ requests # {})
    BY <1>1, <1>2 DEF Send
<1>4. UNCHANGED <<tables, browser, pages>>
    BY DEF Submit
<1> QED BY <1>2, <1>3, <1>4

----------------------------------------------------------------------------
(* Types.                                                                  *)

\* A route leads to a page, and to a protected one only with a user or a wait.
LEMMA RouteFacts ==
    ASSUME SessionTypeOK, NEW t \in Tabs, NEW p \in Protected \cup Public, Go(t, p)
    PROVE  /\ path' \in [Tabs -> Protected \cup Public]
           /\ path'[t] \in Protected => booting'[t] \/ user'[t] # NoOne
           /\ \A s \in Tabs \ {t} : path'[s] = path[s]
<1>1. Routed(t, p) \in Protected \cup Public
    BY DEF Routed, Public
<1>2. Routed(t, p) \in Protected => booting'[t] \/ user'[t] # NoOne
    BY DEF Routed, Protected
<1> QED BY <1>1, <1>2 DEF Go, SessionTypeOK

\* The cookies after the end of a request.
LEMMA EndsJar ==
    ASSUME SessionTypeOK, NEW r, NEW ok \in BOOLEAN, Ends(r, ok)
    PROVE  jar' \in {jar, EmptyJar} \cup {TokensOf(u) : u \in Users}
<1>1. \/ jar' = jar \/ jar' = EmptyJar
      \/ r.served /\ r.tokens \in Users /\ jar' = TokensOf(r.tokens)
    BY EndsFacts
<1> QED BY <1>1

\* The end of a request keeps the types of what all tabs share.
LEMMA EndsType ==
    ASSUME SessionTypeOK, NEW r, NEW ok \in BOOLEAN, Ends(r, ok)
    PROVE  /\ accounts' \in [Users -> Emails \cup {NoEmail}]
           /\ replica' \in [Users -> Emails \cup {NoEmail}]
           /\ used' \subseteq Users /\ jar' \in JarType
           /\ requests' \subseteq RequestType /\ sent' \in 0..MaxRequests
           /\ crossed' \in BOOLEAN /\ r.result \in Someone
<1>1. jar' \in JarType
    BY EndsJar, SubOfMatching DEF SessionTypeOK, JarType
<1>2. requests' \subseteq RequestType
    <2>1. requests \ {r} \in SUBSET requests
        OBVIOUS
    <2>2. requests' = Unmounted(requests \ {r})
        BY EndsFacts
    <2> QED BY <2>1, <2>2, UnmountedFacts
<1>3. /\ r \in RequestType /\ UNCHANGED <<tables, sent>> /\ crossed' \in BOOLEAN
    BY EndsFacts
<1> QED BY <1>1, <1>2, <1>3 DEF SessionTypeOK, tables, RequestType

\* Every step keeps the types.
LEMMA TypeStep ==
    ASSUME SessionTypeOK, [SessionNext]_sessionVars
    PROVE  SessionTypeOK'
<1> USE DEF tables, browser, pages
<1>1. ASSUME NEW t \in Tabs, Load(t) PROVE SessionTypeOK'
    <2>1. /\ user' \in [Tabs -> Someone] /\ booting' \in [Tabs -> BOOLEAN]
          /\ UNCHANGED <<tables, browser>>
        BY <1>1 DEF Load, SessionTypeOK, Someone
    <2>2. /\ path' \in [Tabs -> Protected \cup Public]
          /\ pending' = pending
        BY <1>1, RouteFacts DEF Load, SessionTypeOK
    <2>3. /\ requests' \subseteq RequestType /\ sent' \in 0..MaxRequests
          /\ crossed' \in BOOLEAN
        <3>1. sent \in 0..MaxRequests /\ crossed \in BOOLEAN
            BY DEF SessionTypeOK
        <3>2. sent < MaxRequests => sent + 1 \in 0..MaxRequests
            BY <3>1, BoundAssumption
        <3>3. Left(t) \subseteq RequestType
            BY LeftFacts
        <3>4. CASE requests' = Left(t) /\ UNCHANGED <<sent, crossed>>
            BY <3>1, <3>3, <3>4
        <3>5. CASE /\ requests' = Left(t) \cup
                        {Request(t, "getUser", storedId, NoEmail)}
                   /\ Request(t, "getUser", storedId, NoEmail) \in RequestType
                   /\ sent < MaxRequests /\ sent' = sent + 1
                   /\ crossed' = (crossed \/ requests # {})
            BY <3>2, <3>3, <3>5
        <3> QED BY <1>1, <3>4, <3>5, LoadFacts
    <2> QED BY <2>1, <2>2, <2>3 DEF SessionTypeOK
<1>2. ASSUME NEW t \in Tabs, Booted(t) PROVE SessionTypeOK'
    <2>1. PICK r \in requests, ok \in BOOLEAN :
            /\ Ends(r, ok) /\ SetUser(t, IF ok THEN r.result ELSE user[t])
            /\ storedId' = IF ok THEN storedId ELSE NoOne
        BY <1>2 DEF Booted
    <2>2. user' \in [Tabs -> Someone] /\ storedId' \in Someone
        BY <2>1, EndsType DEF SetUser, SessionTypeOK, Someone
    <2>3. /\ path' \in [Tabs -> Protected \cup Public]
          /\ pending' = pending
        BY <1>2, RouteFacts DEF Booted, SessionTypeOK
    <2>4. booting' \in [Tabs -> BOOLEAN]
        BY <1>2 DEF Booted, SessionTypeOK
    <2> QED BY <2>1, <2>2, <2>3, <2>4, EndsType DEF SessionTypeOK, JarType
<1>3. ASSUME NEW t \in Tabs, Submit(t) PROVE SessionTypeOK'
    <2>1. sent < MaxRequests => sent + 1 \in 0..MaxRequests
        BY BoundAssumption DEF SessionTypeOK
    <2>2. PICK q \in RequestType :
            /\ requests' = requests \cup {q}
            /\ sent < MaxRequests /\ sent' = sent + 1
            /\ crossed' = (crossed \/ requests # {})
            /\ UNCHANGED <<tables, browser, pages>>
        BY <1>3, SubmitFacts
    <2>3. crossed' \in BOOLEAN
        BY <2>2
    <2> QED BY <2>1, <2>2, <2>3 DEF SessionTypeOK
<1>4. ASSUME NEW t \in Tabs, LoggedIn(t) \/ Verified(t) PROVE SessionTypeOK'
    <2>1. PICK r : /\ Ends(r, TRUE) /\ storedId' = r.result
                   /\ SetUser(t, r.result)
        BY <1>4 DEF LoggedIn, Verified, SignIn
    <2>2. user' \in [Tabs -> Someone] /\ storedId' \in Someone
        BY <2>1, EndsType DEF SetUser, SessionTypeOK
    <2>3. /\ path' \in [Tabs -> Protected \cup Public]
          /\ pending' = pending
        BY <1>4, RouteFacts DEF LoggedIn, Verified, SignIn, Protected
    <2>4. booting' = booting
        BY <1>4 DEF LoggedIn, Verified, SignIn
    <2> QED BY <2>1, <2>2, <2>3, <2>4, EndsType DEF SessionTypeOK, JarType
<1>5. ASSUME NEW t \in Tabs, SignupAccepted(t) PROVE SessionTypeOK'
    <2>1. PICK r \in requests :
            /\ r.kind = "signup" /\ Ends(r, TRUE) /\ Go(t, "verify-otp")
            /\ pending' = [pending EXCEPT ![t] = @ \cup {r.email}]
        BY <1>5 DEF SignupAccepted
    <2>2. r.email \in Emails \cup {NoEmail}
        BY DEF SessionTypeOK, RequestType
    <2>3. /\ path' \in [Tabs -> Protected \cup Public]
          /\ pending' \in [Tabs -> SUBSET (Emails \cup {NoEmail})]
        BY <2>1, <2>2, RouteFacts DEF Public, SessionTypeOK
    <2>4. UNCHANGED <<user, booting, storedId>>
        BY <1>5 DEF SignupAccepted
    <2> QED BY <2>1, <2>3, <2>4, EndsType DEF SessionTypeOK, JarType
<1>6. ASSUME NEW t \in Tabs, Updated(t) PROVE SessionTypeOK'
    <2>1. PICK r : /\ Ends(r, TRUE) /\ storedId' = r.result
                   /\ SetUser(t, r.result)
        BY <1>6 DEF Updated
    <2>2. user' \in [Tabs -> Someone] /\ storedId' \in Someone
        BY <2>1, EndsType DEF SetUser, SessionTypeOK
    <2>3. UNCHANGED <<booting, path, pending>>
        BY <1>6 DEF Updated
    <2> QED BY <2>1, <2>2, <2>3, EndsType DEF SessionTypeOK, JarType
<1>7. ASSUME NEW t \in Tabs, SignedOut(t) PROVE SessionTypeOK'
    <2>1. PICK r \in requests, ok \in BOOLEAN : Ends(r, ok)
        BY <1>7 DEF SignedOut
    <2>2. /\ user' \in [Tabs -> Someone] /\ storedId' \in Someone
          /\ booting' = booting
        BY <1>7 DEF SignedOut, SetUser, SessionTypeOK, Someone
    <2>3. /\ path' \in [Tabs -> Protected \cup Public]
          /\ pending' = pending
        BY <1>7, RouteFacts DEF SignedOut, Public
    <2> QED BY <2>1, <2>2, <2>3, EndsType DEF SessionTypeOK, JarType
<1>8. ASSUME Orphan \/ \E t \in Tabs : FormFails(t) PROVE SessionTypeOK'
    <2>1. PICK r \in requests, ok \in BOOLEAN : Ends(r, ok)
        <3>1. CASE Orphan
            BY <3>1 DEF Orphan
        <3>2. ASSUME NEW t \in Tabs, FormFails(t)
              PROVE  \E r \in requests, ok \in BOOLEAN : Ends(r, ok)
            BY <3>2 DEF FormFails
        <3> QED BY <1>8, <3>1, <3>2
    <2>2. UNCHANGED <<storedId, pages>>
        BY <1>8 DEF Orphan, FormFails
    <2> QED BY <2>1, <2>2, EndsType DEF SessionTypeOK, JarType
<1>9. ASSUME NEW t \in Tabs, NEW p \in Protected \cup Public, Visit(t, p)
      PROVE  SessionTypeOK'
    <2>1. path' \in [Tabs -> Protected \cup Public]
        BY <1>9, RouteFacts DEF Visit
    <2>2. requests' \subseteq RequestType
        BY <1>9, UnmountedFacts DEF Visit
    <2> QED BY <1>9, <2>1, <2>2 DEF Visit, SessionTypeOK
<1>10. ASSUME Serve PROVE SessionTypeOK'
    <2>1. requests' \subseteq RequestType
        BY <1>10, ServeFacts DEF Answered, SessionTypeOK
    <2>2. UNCHANGED <<browser, pages, sent, crossed>>
        BY <1>10 DEF Serve
    <2> QED BY <1>10, <2>1, <2>2, ServeFacts DEF SessionTypeOK
<1>11. ASSUME ReplicateUsers PROVE SessionTypeOK'
    BY <1>11 DEF ReplicateUsers, SessionTypeOK
<1>12. ASSUME AccessExpires \/ AccessCookieGoes PROVE SessionTypeOK'
    <2>1. jar' \in [access: Someone, expired: BOOLEAN, refresh: Someone]
        BY <1>12 DEF AccessExpires, AccessCookieGoes, SessionTypeOK, Someone
    <2> QED BY <1>12, <2>1 DEF AccessExpires, AccessCookieGoes, SessionTypeOK
<1>13. CASE UNCHANGED sessionVars
    BY <1>13 DEF sessionVars, SessionTypeOK
<1> QED
    BY <1>1, <1>2, <1>3, <1>4, <1>5, <1>6, <1>7, <1>8, <1>9, <1>10, <1>11,
       <1>12, <1>13 DEF SessionNext, Tab

----------------------------------------------------------------------------
(* Answers, cookies and e-mails.                                           *)

\* Which steps end a request.
EndsOne == \E r \in requests, ok \in BOOLEAN : Ends(r, ok)

LEMMA WhoEnds ==
    ASSUME \/ Orphan
           \/ \E t \in Tabs : \/ Booted(t) \/ LoggedIn(t) \/ Verified(t)
                               \/ SignupAccepted(t) \/ Updated(t)
                               \/ SignedOut(t) \/ FormFails(t)
    PROVE  EndsOne
<1>1. CASE Orphan
    BY <1>1 DEF Orphan, EndsOne
<1>2. ASSUME NEW t \in Tabs, Booted(t) \/ SignedOut(t) PROVE EndsOne
    BY <1>2 DEF Booted, SignedOut, EndsOne
<1>3. ASSUME NEW t \in Tabs,
             LoggedIn(t) \/ Verified(t) \/ SignupAccepted(t) \/ Updated(t)
      PROVE  EndsOne
    BY <1>3 DEF LoggedIn, Verified, SignIn, SignupAccepted, Updated, EndsOne
<1>4. ASSUME NEW t \in Tabs, FormFails(t) PROVE EndsOne
    BY <1>4 DEF FormFails, EndsOne
<1> QED BY <1>1, <1>2, <1>3, <1>4

\* Every step keeps answers honest, cookies matched and e-mails unique.
LEMMA RequestsStep ==
    ASSUME SessionTypeOK, AnswersAreHonest, JarsMatch, EmailsUnique,
           [SessionNext]_sessionVars
    PROVE  AnswersAreHonest' /\ JarsMatch' /\ EmailsUnique'
<1> DEFINE Goal == AnswersAreHonest' /\ JarsMatch' /\ EmailsUnique'
<1> USE DEF tables, browser, pages
<1>0. ASSUME NEW R \in SUBSET requests, requests' = Unmounted(R)
      PROVE  AnswersAreHonest' /\ \A q \in requests' : JarMatches(q.jar)
    BY <1>0, UnmountedFacts DEF AnswersAreHonest, JarsMatch
<1>1. ASSUME EndsOne PROVE Goal
    <2>1. PICK r \in requests, ok \in BOOLEAN : Ends(r, ok)
        BY <1>1 DEF EndsOne
    <2>2. requests' = Unmounted(requests \ {r}) /\ accounts' = accounts
        BY <2>1, EndsFacts
    <2>3. JarMatches(jar)'
        BY <2>1, EndsJar, SubOfMatching DEF JarsMatch, JarMatches
    <2>4. requests \ {r} \in SUBSET requests
        OBVIOUS
    <2> QED BY <1>0, <2>2, <2>3, <2>4 DEF JarsMatch, EmailsUnique, JarMatches
<1>2. ASSUME NEW t \in Tabs, Load(t) PROVE Goal
    <2> DEFINE R == Request(t, "getUser", storedId, NoEmail)
    <2>1. ~R.served /\ R.jar = jar
        BY RequestFacts DEF Kinds, SessionTypeOK
    <2> HIDE DEF R
    <2>2. requests' \subseteq Left(t) \cup {R}
        BY <1>2, LoadFacts DEF R
    <2>3. \A q \in Left(t) : Honest(q) /\ JarMatches(q.jar)
        BY LeftFacts DEF AnswersAreHonest, JarsMatch
    <2>4. Honest(R) /\ JarMatches(R.jar)
        BY <2>1 DEF Honest, JarsMatch
    <2>5. jar' = jar /\ accounts' = accounts
        BY <1>2 DEF Load
    <2> QED BY <2>2, <2>3, <2>4, <2>5
            DEF AnswersAreHonest, JarsMatch, JarMatches, EmailsUnique
<1>3. ASSUME NEW t \in Tabs, Submit(t) PROVE Goal
    <2>1. PICK q \in RequestType :
            /\ q.jar = jar /\ ~q.served /\ requests' = requests \cup {q}
            /\ UNCHANGED <<tables, browser>>
        BY <1>3, SubmitFacts
    <2>2. Honest(q) /\ JarMatches(q.jar)
        BY <2>1 DEF Honest, JarsMatch
    <2> QED BY <2>1, <2>2
            DEF AnswersAreHonest, JarsMatch, JarMatches, EmailsUnique
<1>4. ASSUME Serve PROVE Goal
    <2>1. PICK r, a : Answered(r, a)
        BY <1>4, ServeFacts
    <2>2. jar' = jar
        BY <1>4 DEF Serve
    <2>3. EmailsUnique'
        BY <1>4, ServeFacts
    <2> QED BY <2>1, <2>2, <2>3
            DEF Answered, AnswersAreHonest, JarsMatch, JarMatches
<1>5. ASSUME AccessExpires \/ AccessCookieGoes PROVE Goal
    <2>1. UNCHANGED <<requests, accounts>>
        BY <1>5 DEF AccessExpires, AccessCookieGoes
    <2>2. JarMatches(jar)'
        BY <1>5 DEF AccessExpires, AccessCookieGoes, JarsMatch, JarMatches,
                    SessionTypeOK
    <2> QED BY <2>1, <2>2 DEF AnswersAreHonest, JarsMatch, EmailsUnique
<1>6. CASE ReplicateUsers \/ UNCHANGED sessionVars
    <2>1. UNCHANGED <<requests, accounts, jar>>
        BY <1>6 DEF ReplicateUsers, sessionVars
    <2> QED BY <2>1 DEF AnswersAreHonest, JarsMatch, JarMatches, EmailsUnique
<1>7. ASSUME NEW t \in Tabs, NEW p \in Protected \cup Public, Visit(t, p)
      PROVE  Goal
    <2>1. UNCHANGED <<accounts, jar>> /\ requests' = Unmounted(requests)
        BY <1>7 DEF Visit
    <2>2. requests \in SUBSET requests
        OBVIOUS
    <2> QED BY <1>0, <2>1, <2>2 DEF JarsMatch, EmailsUnique, JarMatches
<1> QED
    BY <1>1, <1>2, <1>3, <1>4, <1>5, <1>6, <1>7, WhoEnds DEF SessionNext, Tab

----------------------------------------------------------------------------
(* The pages.                                                              *)

\* A tab that waits still does, unless its own request ends.
LEMMA StillWaiting ==
    ASSUME SessionTypeOK, NEW r, NEW ok \in BOOLEAN, Ends(r, ok),
           NEW t \in Tabs, Waiting(t, "getUser"),
           r.tab # t \/ r.kind # "getUser"
    PROVE  Waiting(t, "getUser")'
<1>1. requests \ {r} \in SUBSET requests /\ requests' = Unmounted(requests \ {r})
    BY EndsFacts
<1>2. PICK q \in requests \ {r} : q.tab = t /\ q.kind = "getUser"
    BY DEF Waiting
<1> QED BY <1>1, <1>2, UnmountedFacts DEF Waiting

\* A step of one tab leaves the others their pages.
LEMMA PagesStep ==
    ASSUME SessionTypeOK, AnswersAreHonest, PagesHaveUsers,
           [SessionNext]_sessionVars
    PROVE  PagesHaveUsers'
<1> USE DEF tables, browser, pages
<1>1. ASSUME NEW t \in Tabs, Load(t) PROVE PagesHaveUsers'
    <2>1. /\ user'[t] = NoOne /\ booting'[t] = (storedId # NoOne)
          /\ \A s \in Tabs \ {t} : user'[s] = user[s] /\ booting'[s] = booting[s]
        BY <1>1 DEF Load, SessionTypeOK
    <2>2. /\ path'[t] \in Protected => booting'[t] \/ user'[t] # NoOne
          /\ \A s \in Tabs \ {t} : path'[s] = path[s]
        BY <1>1, RouteFacts DEF Load, SessionTypeOK
    <2>3. ASSUME NEW s \in Tabs \ {t}, Waiting(s, "getUser")
          PROVE  Waiting(s, "getUser")'
        <3>1. Left(t) \subseteq requests'
            BY <1>1, LoadFacts
        <3> QED BY <2>3, <3>1, LeftFacts DEF Waiting
    <2>4. booting'[t] => Waiting(t, "getUser")'
        <3>1. booting'[t] =>
                Request(t, "getUser", storedId, NoEmail) \in requests'
            BY <1>1, <2>1, LoadFacts
        <3>2. /\ Request(t, "getUser", storedId, NoEmail).tab = t
              /\ Request(t, "getUser", storedId, NoEmail).kind = "getUser"
            BY DEF Request
        <3> QED BY <3>1, <3>2 DEF Waiting
    <2> QED BY <2>1, <2>2, <2>3, <2>4 DEF PagesHaveUsers
<1>2. ASSUME NEW t \in Tabs, Booted(t) PROVE PagesHaveUsers'
    <2>1. PICK r \in requests, ok \in BOOLEAN :
            /\ r.tab = t /\ Ends(r, ok)
            /\ SetUser(t, IF ok THEN r.result ELSE user[t])
        BY <1>2 DEF Booted
    <2>2. /\ booting'[t] = FALSE
          /\ \A s \in Tabs \ {t} : user'[s] = user[s] /\ booting'[s] = booting[s]
        BY <1>2, <2>1 DEF Booted, SetUser, SessionTypeOK
    <2>3. /\ path'[t] \in Protected => booting'[t] \/ user'[t] # NoOne
          /\ \A s \in Tabs \ {t} : path'[s] = path[s]
        BY <1>2, RouteFacts DEF Booted, SessionTypeOK
    <2>4. \A s \in Tabs \ {t} : Waiting(s, "getUser") => Waiting(s, "getUser")'
        BY <2>1, StillWaiting
    <2> QED BY <2>2, <2>3, <2>4 DEF PagesHaveUsers
<1>3. ASSUME NEW t \in Tabs, LoggedIn(t) \/ Verified(t) PROVE PagesHaveUsers'
    <2>1. PICK r \in requests :
            /\ r.kind \in {"login", "verify"}
            /\ Ends(r, TRUE) /\ SetUser(t, r.result)
        BY <1>3 DEF LoggedIn, Verified, SignIn
    <2>2. /\ booting' = booting
          /\ \A s \in Tabs \ {t} : user'[s] = user[s]
        BY <1>3, <2>1 DEF LoggedIn, Verified, SignIn, SetUser, SessionTypeOK
    <2>3. /\ path'[t] \in Protected => booting'[t] \/ user'[t] # NoOne
          /\ \A s \in Tabs \ {t} : path'[s] = path[s]
        BY <1>3, RouteFacts DEF LoggedIn, Verified, SignIn, Protected
    <2>4. \A s \in Tabs : Waiting(s, "getUser") => Waiting(s, "getUser")'
        BY <2>1, StillWaiting
    <2> QED BY <2>2, <2>3, <2>4 DEF PagesHaveUsers
<1>4. ASSUME NEW t \in Tabs, SignupAccepted(t) PROVE PagesHaveUsers'
    <2>1. PICK r \in requests :
            /\ r.kind = "signup" /\ Ends(r, TRUE)
            /\ Go(t, "verify-otp")
        BY <1>4 DEF SignupAccepted
    <2>2. UNCHANGED <<user, booting>>
        BY <1>4 DEF SignupAccepted
    <2>4. /\ path'[t] \in Protected => booting'[t] \/ user'[t] # NoOne
          /\ \A s \in Tabs \ {t} : path'[s] = path[s]
        BY <2>1, RouteFacts DEF Public
    <2>5. \A s \in Tabs : Waiting(s, "getUser") => Waiting(s, "getUser")'
        BY <2>1, StillWaiting
    <2> QED BY <2>2, <2>4, <2>5 DEF PagesHaveUsers
<1>5. ASSUME NEW t \in Tabs, Updated(t) PROVE PagesHaveUsers'
    <2>1. PICK r \in requests :
            /\ r.kind = "update" /\ Ends(r, TRUE) /\ SetUser(t, r.result)
        BY <1>5 DEF Updated
    <2>2. r.result # NoOne
        BY <2>1, EndsFacts DEF AnswersAreHonest, Honest
    <2>3. /\ user'[t] # NoOne /\ \A s \in Tabs \ {t} : user'[s] = user[s]
          /\ UNCHANGED <<booting, path>>
        BY <1>5, <2>1, <2>2 DEF Updated, SetUser, SessionTypeOK
    <2>4. \A s \in Tabs : Waiting(s, "getUser") => Waiting(s, "getUser")'
        BY <2>1, StillWaiting
    <2> QED BY <2>3, <2>4 DEF PagesHaveUsers
<1>6. ASSUME NEW t \in Tabs, SignedOut(t) PROVE PagesHaveUsers'
    <2>1. PICK r \in requests, ok \in BOOLEAN :
            r.kind \in {"logout", "delete"} /\ Ends(r, ok)
        BY <1>6 DEF SignedOut
    <2>2. booting' = booting /\ \A s \in Tabs \ {t} : user'[s] = user[s]
        BY <1>6 DEF SignedOut, SetUser, SessionTypeOK
    <2>3. /\ path'[t] \in Protected => booting'[t] \/ user'[t] # NoOne
          /\ \A s \in Tabs \ {t} : path'[s] = path[s]
        BY <1>6, RouteFacts DEF SignedOut, Public
    <2>4. \A s \in Tabs : Waiting(s, "getUser") => Waiting(s, "getUser")'
        BY <2>1, StillWaiting
    <2> QED BY <2>2, <2>3, <2>4 DEF PagesHaveUsers
<1>7. ASSUME NEW t \in Tabs, FormFails(t) PROVE PagesHaveUsers'
    <2>1. PICK r \in requests : r.kind # "getUser" /\ Ends(r, FALSE)
        BY <1>7 DEF FormFails
    <2>2. \A s \in Tabs : Waiting(s, "getUser") => Waiting(s, "getUser")'
        BY <2>1, StillWaiting
    <2> QED BY <1>7, <2>2 DEF FormFails, PagesHaveUsers
<1>8. ASSUME Orphan PROVE PagesHaveUsers'
    <2>1. PICK r \in requests, ok \in BOOLEAN : r.tab = "gone" /\ Ends(r, ok)
        BY <1>8 DEF Orphan
    <2>2. \A s \in Tabs : Waiting(s, "getUser") => Waiting(s, "getUser")'
        BY <2>1, StillWaiting, NoneAssumption
    <2> QED BY <1>8, <2>2 DEF Orphan, PagesHaveUsers
<1>9. ASSUME NEW t \in Tabs, NEW p \in Protected \cup Public, Visit(t, p)
      PROVE  PagesHaveUsers'
    <2>1. /\ path'[t] \in Protected => booting'[t] \/ user'[t] # NoOne
          /\ \A s \in Tabs \ {t} : path'[s] = path[s]
        BY <1>9, RouteFacts DEF Visit
    <2>2. UNCHANGED <<user, booting>> /\ requests' = Unmounted(requests)
        BY <1>9 DEF Visit
    <2>3. \A s \in Tabs : Waiting(s, "getUser") => Waiting(s, "getUser")'
        BY <2>2, UnmountedFacts DEF Waiting
    <2> QED BY <2>1, <2>2, <2>3 DEF PagesHaveUsers
<1>10. ASSUME NEW t \in Tabs, Submit(t) PROVE PagesHaveUsers'
    <2>1. requests \subseteq requests' /\ UNCHANGED pages
        BY <1>10, SubmitFacts
    <2> QED BY <2>1 DEF PagesHaveUsers, Waiting
<1>11. ASSUME Serve PROVE PagesHaveUsers'
    <2>1. PICK r, a : Answered(r, a)
        BY <1>11, ServeFacts
    <2>2. \A s \in Tabs : Waiting(s, "getUser") => Waiting(s, "getUser")'
        BY <2>1 DEF Answered, Waiting
    <2> QED BY <1>11, <2>2 DEF Serve, PagesHaveUsers
<1>12. CASE ReplicateUsers \/ AccessExpires \/ AccessCookieGoes
            \/ UNCHANGED sessionVars
    BY <1>12 DEF ReplicateUsers, AccessExpires, AccessCookieGoes, sessionVars,
                 PagesHaveUsers, Waiting
<1> QED
    BY <1>1, <1>2, <1>3, <1>4, <1>5, <1>6, <1>7, <1>8, <1>9, <1>10, <1>11,
       <1>12 DEF SessionNext, Tab

----------------------------------------------------------------------------
(* The user who is shown.                                                  *)

Orderly == OneRequest /\ ShownIsAuthenticated

Shows(t) == user[t] # NoOne => Sub(jar) \in {NoOne, user[t]}

\* Cookies of a request and of the browser are about the user they name.
LEMMA SubFacts ==
    ASSUME SessionTypeOK, JarsMatch
    PROVE  /\ Sub(jar) = jar.access
           /\ \A r \in requests : Sub(r.jar) = r.jar.access
BY SubOfMatching DEF SessionTypeOK, RequestType, JarType, JarsMatch

\* The end of a request, as long as nothing crosses, leaves none, and each tab
\* that keeps its user still shows whose cookies there are.
LEMMA EndsShown ==
    ASSUME SessionTypeOK, AnswersAreHonest, JarsMatch, Orderly, ~crossed',
           NEW r, NEW ok \in BOOLEAN, Ends(r, ok), r.tab \in Tabs \cup {"gone"},
           NEW s \in Tabs, user'[s] = user[s],
           r.tab = s => ~(ok /\ r.kind \in {"login", "verify"})
    PROVE  Shows(s)'
<1>1. r \in requests /\ ~crossed /\ Honest(r)
    BY EndsFacts DEF AnswersAreHonest
<1>2. Shows(s)
    BY <1>1 DEF Orderly, ShownIsAuthenticated, Shows
<1>3. CASE jar' = jar
    BY <1>2, <1>3 DEF Shows
<1>4. CASE jar' = EmptyJar
    BY <1>4, SubOfMatching DEF Shows
<1>5. CASE jar' # jar /\ jar' # EmptyJar
    <2>1. /\ r.served /\ r.tokens \in Users /\ jar' = TokensOf(r.tokens)
          /\ r.ok = ok
          /\ \A t \in Tabs \ {r.tab} : user[t] \in {NoOne, r.tokens}
        BY <1>5, EndsFacts
    <2>2. Sub(jar') = r.tokens
        BY <2>1, SubOfMatching
    <2>3. CASE r.tab # s
        BY <2>1, <2>2, <2>3 DEF Shows
    <2>4. CASE r.tab = s
        <3>1. ~(r.ok /\ r.kind \in {"login", "verify"})
            BY <2>1, <2>4
        <3>2. r.tokens = Sub(r.jar) /\ r.tokens # NoOne
            BY <1>1, <2>1, <3>1, NoneAssumption DEF Honest
        <3>3. user[s] \in {NoOne, Sub(r.jar)}
            BY <1>1, <2>4, <3>2 DEF Orderly, OneRequest
        <3> QED BY <2>2, <3>2, <3>3 DEF Shows
    <2> QED BY <2>3, <2>4
<1> QED BY <1>3, <1>4, <1>5

\* A tab that takes its user from an answer shows whose cookies there are.
LEMMA EndsSignsIn ==
    ASSUME SessionTypeOK, AnswersAreHonest, JarsMatch, Orderly, ~crossed',
           NEW r, Ends(r, TRUE),
           r.kind \in {"login", "verify", "getUser", "update"}
    PROVE  Sub(jar') \in {NoOne, r.result}
<1>1. /\ r \in requests /\ ~crossed /\ Honest(r) /\ r.served /\ r.ok
    BY EndsFacts DEF AnswersAreHonest
<1>2. r.result \in Someone /\ r.tokens \in Someone
    BY <1>1 DEF SessionTypeOK, RequestType
<1>3. CASE r.kind \in {"login", "verify"}
    <2>1. r.tokens = r.result /\ r.tokens \in Users
        BY <1>1, <1>2, <1>3 DEF Honest, Someone
    <2>2. jar' = TokensOf(r.tokens)
        BY <2>1, EndsFacts, NoneAssumption
    <2> QED BY <2>1, <2>2, SubOfMatching
<1>4. CASE r.kind \in {"getUser", "update"}
    <2>1. r.result = Sub(r.jar) /\ r.tokens \in {NoOne, Sub(r.jar)}
        BY <1>1, <1>4 DEF Honest
    <2>2. CASE jar' = jar
        <3>1. jar.access \in {NoOne, r.jar.access}
            BY <1>1 DEF Orderly, OneRequest
        <3> QED BY <1>1, <2>1, <2>2, <3>1, SubFacts
    <2>3. CASE jar' = EmptyJar
        BY <2>3, SubOfMatching
    <2>4. CASE r.tokens \in Users /\ jar' = TokensOf(r.tokens)
        BY <2>1, <2>4, SubOfMatching, NoneAssumption
    <2> QED BY <2>2, <2>3, <2>4, EndsFacts
<1> QED BY <1>3, <1>4

\* No request is left by the only one's end.
LEMMA EndsAlone ==
    ASSUME SessionTypeOK, Orderly, ~crossed', NEW r, NEW ok \in BOOLEAN,
           Ends(r, ok)
    PROVE  OneRequest'
<1>1. requests \ {r} = {} /\ requests' = Unmounted(requests \ {r})
    BY EndsFacts DEF Orderly, OneRequest
<1>2. requests' = {}
    BY <1>1, UnmountedFacts
<1> QED BY <1>2 DEF OneRequest

\* Every step keeps what is shown true, until something crosses.
LEMMA OrderlyStep ==
    ASSUME SessionTypeOK, AnswersAreHonest, JarsMatch, Orderly,
           [SessionNext]_sessionVars
    PROVE  Orderly'
<1> SUFFICES ASSUME ~crossed' PROVE Orderly'
    BY DEF Orderly, OneRequest, ShownIsAuthenticated
<1> USE DEF tables, browser, pages
<1>0. (OneRequest' /\ \A s \in Tabs : Shows(s)') => Orderly'
    BY DEF Orderly, ShownIsAuthenticated, Shows
<1>1. ASSUME NEW t \in Tabs, Load(t) PROVE Orderly'
    <2>1. /\ user'[t] = NoOne /\ \A s \in Tabs \ {t} : user'[s] = user[s]
          /\ jar' = jar
        BY <1>1 DEF Load, SessionTypeOK
    <2>2. ~crossed
        BY <1>1, LoadFacts
    <2>3. \A s \in Tabs : Shows(s)'
        BY <2>1, <2>2 DEF Orderly, ShownIsAuthenticated, Shows
    <2>4. CASE requests' = Left(t)
        <3>1. \A p, q \in Left(t) : p = q
            BY <2>2, LeftFacts DEF Orderly, OneRequest
        <3>2. ASSUME NEW q \in Left(t)
              PROVE  /\ jar.access \in {NoOne, q.jar.access}
                     /\ q.tab \in Tabs => \/ Sub(q.jar) = NoOne
                                          \/ user'[q.tab] \in {NoOne, Sub(q.jar)}
            <4>1. PICK r \in requests : q.tab \in {"gone", r.tab} /\ q.jar = r.jar
                BY LeftFacts
            <4>2. q.tab # t /\ "gone" \notin Tabs
                BY LeftFacts, NoneAssumption
            <4>3. /\ jar.access \in {NoOne, r.jar.access}
                  /\ r.tab \in Tabs => \/ Sub(r.jar) = NoOne
                                       \/ user[r.tab] \in {NoOne, Sub(r.jar)}
                BY <2>2 DEF Orderly, OneRequest
            <4> QED BY <2>1, <4>1, <4>2, <4>3
        <3>3. OneRequest'
            BY <2>1, <2>4, <3>1, <3>2 DEF OneRequest
        <3> QED BY <1>0, <2>3, <3>3
    <2>5. CASE /\ requests' = Left(t) \cup
                        {Request(t, "getUser", storedId, NoEmail)}
               /\ requests = {}
        <3> DEFINE R == Request(t, "getUser", storedId, NoEmail)
        <3>1. R.tab = t /\ R.jar = jar
            BY DEF Request
        <3>2. requests' = {R}
            BY <2>5, LeftFacts
        <3> HIDE DEF R
        <3>3. OneRequest'
            BY <2>1, <3>1, <3>2 DEF OneRequest
        <3> QED BY <1>0, <2>3, <3>3
    <2> QED BY <1>1, <2>4, <2>5, LoadFacts
<1>2. ASSUME NEW t \in Tabs, Submit(t) PROVE Orderly'
    <2>1. PICK q \in RequestType :
            /\ q.tab = t /\ q.jar = jar /\ requests' = requests \cup {q}
            /\ crossed' = (crossed \/ requests # {})
            /\ UNCHANGED <<tables, browser, pages>>
        BY <1>2, SubmitFacts
    <2>2. ~crossed /\ requests' = {q} /\ user' = user /\ jar' = jar
        BY <2>1
    <2>3. \A s \in Tabs : Shows(s) /\ Shows(s)'
        BY <2>2 DEF Orderly, ShownIsAuthenticated, Shows
    <2>4. OneRequest'
        BY <2>1, <2>2, <2>3 DEF OneRequest, Shows
    <2> QED BY <1>0, <2>3, <2>4
<1>3. ASSUME NEW t \in Tabs, Booted(t) PROVE Orderly'
    <2>1. PICK r \in requests, ok \in BOOLEAN :
            /\ r.tab = t /\ r.kind = "getUser" /\ Ends(r, ok)
            /\ SetUser(t, IF ok THEN r.result ELSE user[t])
        BY <1>3 DEF Booted
    <2>2. /\ user'[t] = IF ok THEN r.result ELSE user[t]
          /\ \A s \in Tabs \ {t} : user'[s] = user[s]
        BY <2>1 DEF SetUser, SessionTypeOK
    <2>3. \A s \in Tabs \ {t} : Shows(s)'
        BY <2>1, <2>2, EndsShown
    <2>4. CASE ok
        BY <1>0, <2>1, <2>2, <2>3, <2>4, EndsSignsIn, EndsAlone DEF Shows
    <2>5. CASE ~ok
        BY <1>0, <2>1, <2>2, <2>3, <2>5, EndsShown, EndsAlone
    <2> QED BY <2>4, <2>5
<1>4. ASSUME NEW t \in Tabs, LoggedIn(t) \/ Verified(t) \/ Updated(t)
      PROVE  Orderly'
    <2>1. PICK r \in requests :
            /\ r.tab = t /\ r.kind \in {"login", "verify", "update"}
            /\ Ends(r, TRUE) /\ SetUser(t, r.result)
        BY <1>4 DEF LoggedIn, Verified, SignIn, Updated
    <2>2. /\ user'[t] = r.result
          /\ \A s \in Tabs \ {t} : user'[s] = user[s]
        BY <2>1 DEF SetUser, SessionTypeOK
    <2>3. \A s \in Tabs \ {t} : Shows(s)'
        BY <2>1, <2>2, EndsShown
    <2>4. Shows(t)'
        BY <2>1, <2>2, EndsSignsIn DEF Shows
    <2> QED BY <1>0, <2>1, <2>3, <2>4, EndsAlone
<1>5. ASSUME NEW t \in Tabs, SignupAccepted(t) \/ FormFails(t) PROVE Orderly'
    <2>1. PICK r \in requests, ok \in BOOLEAN :
            /\ r.tab = t /\ Ends(r, ok)
            /\ ~(ok /\ r.kind \in {"login", "verify"})
        <3>1. CASE SignupAccepted(t)
            BY <3>1 DEF SignupAccepted
        <3>2. CASE FormFails(t)
            BY <3>2 DEF FormFails
        <3> QED BY <1>5, <3>1, <3>2
    <2>2. user' = user
        BY <1>5 DEF SignupAccepted, FormFails
    <2>3. \A s \in Tabs : Shows(s)'
        BY <2>1, <2>2, EndsShown
    <2> QED BY <1>0, <2>1, <2>3, EndsAlone
<1>6. ASSUME NEW t \in Tabs, SignedOut(t) PROVE Orderly'
    <2>1. PICK r \in requests, ok \in BOOLEAN : r.tab = t /\ Ends(r, ok)
        BY <1>6 DEF SignedOut
    <2>2. /\ user'[t] = NoOne
          /\ \A s \in Tabs \ {t} : user'[s] = user[s]
        BY <1>6 DEF SignedOut, SetUser, SessionTypeOK
    <2>3. \A s \in Tabs \ {t} : Shows(s)'
        BY <2>1, <2>2, EndsShown
    <2>4. Shows(t)'
        BY <2>2 DEF Shows
    <2> QED BY <1>0, <2>1, <2>3, <2>4, EndsAlone
<1>7. ASSUME Orphan PROVE Orderly'
    <2>1. PICK r \in requests, ok \in BOOLEAN : r.tab = "gone" /\ Ends(r, ok)
        BY <1>7 DEF Orphan
    <2>2. user' = user
        BY <1>7 DEF Orphan
    <2>3. \A s \in Tabs : Shows(s)'
        BY <2>1, <2>2, EndsShown, NoneAssumption
    <2> QED BY <1>0, <2>1, <2>3, EndsAlone
<1>8. ASSUME Serve PROVE Orderly'
    <2>1. PICK r, a : Answered(r, a)
        BY <1>8, ServeFacts
    <2>2. UNCHANGED <<jar, user, crossed>>
        BY <1>8 DEF Serve
    <2>3. requests = {r} /\ requests' = {a}
        BY <2>1, <2>2 DEF Answered, Orderly, OneRequest
    <2>4. OneRequest'
        BY <2>1, <2>2, <2>3 DEF Answered, Orderly, OneRequest
    <2> QED BY <2>2, <2>4 DEF Orderly, ShownIsAuthenticated
<1>9. ASSUME AccessExpires \/ AccessCookieGoes PROVE Orderly'
    <2>1. UNCHANGED <<requests, user, crossed>>
        BY <1>9 DEF AccessExpires, AccessCookieGoes
    <2>2. jar'.access \in {NoOne, jar.access} /\ JarMatches(jar') /\ jar' \in JarType
        BY <1>9 DEF AccessExpires, AccessCookieGoes, SessionTypeOK, JarsMatch,
                    JarMatches, JarType, Someone
    <2>3. Sub(jar') \in {NoOne, Sub(jar)}
        BY <2>2, SubFacts, SubOfMatching
    <2>4. OneRequest'
        BY <2>1, <2>2 DEF Orderly, OneRequest
    <2> QED BY <2>1, <2>3, <2>4 DEF Orderly, ShownIsAuthenticated
<1>10. CASE ReplicateUsers \/ UNCHANGED sessionVars
    <2>1. UNCHANGED <<requests, user, jar, crossed>>
        BY <1>10 DEF ReplicateUsers, sessionVars
    <2> QED BY <2>1 DEF Orderly, OneRequest, ShownIsAuthenticated
<1>11. ASSUME NEW t \in Tabs, NEW p \in Protected \cup Public, Visit(t, p)
       PROVE  Orderly'
    <2>1. UNCHANGED <<user, jar, crossed>> /\ requests' = Unmounted(requests)
        BY <1>11 DEF Visit
    <2>2. \A a, b \in Unmounted(requests) : a = b
        BY <2>1, UnmountedFacts DEF Orderly, OneRequest
    <2>3. \A q \in Unmounted(requests) : \E r \in requests :
            q.tab = r.tab /\ q.jar = r.jar
        BY UnmountedFacts
    <2>4. OneRequest'
        BY <2>1, <2>2, <2>3 DEF Orderly, OneRequest
    <2> QED BY <2>1, <2>4 DEF Orderly, ShownIsAuthenticated
<1> QED
    BY <1>1, <1>2, <1>3, <1>4, <1>5, <1>6, <1>7, <1>8, <1>9, <1>10, <1>11
       DEF SessionNext, Tab

----------------------------------------------------------------------------
(* The theorems.                                                           *)

LEMMA InitHolds == SessionInit => IInv
<1> SUFFICES ASSUME SessionInit PROVE IInv
    OBVIOUS
<1>1. accounts \in [Users -> Emails \cup {NoEmail}]
    BY RegisteredAssumption DEF SessionInit
<1>2. jar \in JarType /\ storedId \in Someone /\ JarMatches(jar)
    <2>1. CASE jar = EmptyJar /\ storedId = NoOne
        BY <2>1, SubOfMatching DEF Someone
    <2>2. ASSUME NEW u \in Users,
                 jar = [EmptyJar EXCEPT !.access = u, !.refresh = u],
                 storedId = u
          PROVE  jar \in JarType /\ storedId \in Someone /\ JarMatches(jar)
        <3>1. jar = TokensOf(u)
            BY <2>2 DEF EmptyJar, TokensOf
        <3> QED BY <2>2, <3>1, SubOfMatching DEF Someone
    <2> QED BY <2>1, <2>2, RegisteredAssumption DEF SessionInit
<1>3. SessionTypeOK
    <2>1. replica \in [Users -> Emails \cup {NoEmail}] /\ used \subseteq Users
        BY <1>1, RegisteredAssumption DEF SessionInit
    <2>2. /\ user \in [Tabs -> Someone] /\ booting \in [Tabs -> BOOLEAN]
          /\ path \in [Tabs -> Protected \cup Public]
          /\ pending \in [Tabs -> SUBSET (Emails \cup {NoEmail})]
        BY DEF SessionInit, Someone, Public
    <2>3. requests = {} /\ sent \in 0..MaxRequests
        <3>1. requests = {} /\ sent = 0
            BY DEF SessionInit
        <3> QED BY <3>1, BoundAssumption
    <2>4. crossed \in BOOLEAN
        BY DEF SessionInit
    <2> QED BY <1>1, <1>2, <2>1, <2>2, <2>3, <2>4 DEF SessionTypeOK, JarType
<1>4. EmailsUnique
    BY RegisteredAssumption DEF SessionInit, EmailsUnique
<1>5. PagesHaveUsers
    BY DEF SessionInit, PagesHaveUsers, Protected
<1> QED BY <1>2, <1>3, <1>4, <1>5
        DEF SessionInit, IInv, AnswersAreHonest, JarsMatch, OneRequest,
            ShownIsAuthenticated

LEMMA Invariant == SessionSpec => []IInv
<1>1. IInv /\ [SessionNext]_sessionVars => IInv'
    BY TypeStep, RequestsStep, PagesStep, OrderlyStep DEF IInv, Orderly
<1> QED BY InitHolds, <1>1, PTL DEF SessionSpec

\* Tabs, cookies, requests and accounts keep their types.
THEOREM TypeCorrect == SessionSpec => []SessionTypeOK
<1>1. IInv => SessionTypeOK
    BY DEF IInv
<1> QED BY Invariant, <1>1, PTL

\* The two cookies are of one user, in whatever order answers arrive.
THEOREM CookiesMatch == SessionSpec => []TokensMatch
<1>1. IInv => TokensMatch
    BY DEF IInv, JarsMatch, JarMatches, TokensMatch
<1> QED BY Invariant, <1>1, PTL

\* Two accounts never have one e-mail, however far the replica lags.
THEOREM NoEmailTwice == SessionSpec => []EmailsUnique
<1>1. IInv => EmailsUnique
    BY DEF IInv
<1> QED BY Invariant, <1>1, PTL

\* A protected page has a user, or waits for one that is still asked for.
THEOREM NoPageForNobody == SessionSpec => []PagesHaveUsers
<1>1. IInv => PagesHaveUsers
    BY DEF IInv
<1> QED BY Invariant, <1>1, PTL

\* While nothing crosses, a tab shows the user its requests are made for.
THEOREM ShownUserIsAuthenticated == SessionSpec => []ShownIsAuthenticated
<1>1. IInv => ShownIsAuthenticated
    BY DEF IInv
<1> QED BY Invariant, <1>1, PTL
=============================================================================
