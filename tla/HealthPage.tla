------------------------------ MODULE HealthPage ------------------------------
(***************************************************************************)
(* The system health page: a fetch on mount, one every Interval seconds and*)
(* one for each press of Refresh, with answers that may overtake each      *)
(* other, and a countdown that each answer resets.                         *)
(*                                                                         *)
(* Time passes a second at a time.  A fetch is answered, or fails in the   *)
(* network, within RequestTime seconds (the browser's limit, an assumption:*)
(* the code has none); the 600 ms timer may fire at any time.  Uptime and  *)
(* version, and how they are written, are left out.                        *)
(***************************************************************************)
EXTENDS Naturals

CONSTANTS
    Interval,   \* seconds between two fetches, 30 in the code
    RequestTime \* seconds until the browser gives a fetch up

ASSUME TimeAssumption == Interval \in Nat \ {0} /\ RequestTime \in Nat

VARIABLES
    health,     \* what setHealth was last called with, or null
    healthAge,  \* ghost: its age, counted from the request
    checking,   \* the fetches under way: their age, and if by hand
    spinning,
    spinTimer,  \* the timer that ends the spinning is set
    countdown,
    sinceFetch, \* seconds since the interval's last fetch
    wakeUp      \* the interval's callback is due

healthVars == <<health, healthAge, checking, spinning, spinTimer, countdown,
                sinceFetch, wakeUp>>

\* HealthData: the state of each dependency is "ok" or an error.
Report(healthy, postgres, redis) ==
    [status   |-> IF healthy THEN "healthy" ELSE "degraded",
     postgres |-> postgres, redis |-> redis]

Checks == {"ok", "error"}
Reports == [status: {"healthy", "degraded"}, postgres: Checks, redis: Checks]
Null == [status |-> "null", postgres |-> "null", redis |-> "null"]

Fetch(manual) == [age |-> 0, manual |-> manual]

HealthInit ==
    /\ health = Null /\ healthAge = 0
    /\ checking = {Fetch(FALSE)}
    /\ spinning = FALSE /\ spinTimer = FALSE
    /\ countdown = Interval /\ sinceFetch = 0 /\ wakeUp = FALSE

----------------------------------------------------------------------------
(* What the page shows.                                                    *)

pageLoading == health = Null
isHealthy == health.status = "healthy"

Banner == CASE pageLoading               -> "Checking"
            [] ~pageLoading /\ isHealthy -> "green"
            [] OTHER                     -> "red"

ServiceCard(value) == IF value = "ok" THEN "Online" ELSE "Offline"

Cards == IF health = Null THEN {}
         ELSE {ServiceCard(health.postgres), ServiceCard(health.redis)}

----------------------------------------------------------------------------
\* Mutant: one dependency is enough.
HealthOfEither(postgres, redis) ==
    Report("ok" \in {postgres, redis}, postgres, redis)

\* url-service: 200 or 503, with the same body.
HealthOf(postgres, redis) == Report({postgres, redis} = {"ok"}, postgres, redis)

\* Never throws: the body of the answer, or "unreachable".
GetHealth(data) ==
    \/ \E postgres, redis \in Checks : data = HealthOf(postgres, redis)
    \/ data = Report(FALSE, "error", "error")

\* The button is disabled while it spins.
Refresh ==
    /\ ~spinning
    /\ spinning' = TRUE
    /\ checking' = checking \cup {Fetch(TRUE)}
    /\ UNCHANGED <<health, healthAge, spinTimer, countdown, sinceFetch, wakeUp>>

\* Mutant: the timer is set after an automatic fetch.
FetchHealthSwapsManual(c, data) ==
    /\ health' = data /\ healthAge' = c.age
    /\ countdown' = Interval
    /\ checking' = checking \ {c}
    /\ spinTimer' = (spinTimer \/ ~c.manual)
    /\ UNCHANGED <<spinning, sinceFetch, wakeUp>>

\* The rest of fetchHealth, once it has an answer: it is not compared with the
\* ones that came before.
FetchHealth(c, data) ==
    /\ health' = data /\ healthAge' = c.age
    /\ countdown' = Interval
    /\ checking' = checking \ {c}
    /\ spinTimer' = (spinTimer \/ c.manual)
    /\ UNCHANGED <<spinning, sinceFetch, wakeUp>>

EndSpin ==
    /\ spinTimer
    /\ spinning' = FALSE /\ spinTimer' = FALSE
    /\ UNCHANGED <<health, healthAge, checking, countdown, sinceFetch, wakeUp>>

\* Mutant: the page fetches once.
AutoRefreshNever ==
    /\ wakeUp /\ wakeUp' = FALSE
    /\ UNCHANGED <<health, healthAge, checking, spinning, spinTimer, countdown,
                   sinceFetch>>

\* setInterval's fetch.
AutoRefresh ==
    /\ wakeUp /\ wakeUp' = FALSE
    /\ checking' = checking \cup {Fetch(FALSE)}
    /\ UNCHANGED <<health, healthAge, spinning, spinTimer, countdown,
                   sinceFetch>>

\* A second passes, with the countdown's ticker; no callback and no answer is
\* later than it may be.
Second ==
    /\ ~wakeUp /\ \A c \in checking : c.age < RequestTime
    /\ checking' = {[c EXCEPT !.age = @ + 1] : c \in checking}
    /\ healthAge' = IF health = Null THEN 0 ELSE healthAge + 1
    /\ countdown' = IF countdown > 0 THEN countdown - 1 ELSE Interval
    /\ sinceFetch' = (sinceFetch + 1) % Interval
    /\ wakeUp' = (sinceFetch' = 0)
    /\ UNCHANGED <<health, spinning, spinTimer>>

HealthNext ==
    \/ Refresh \/ EndSpin \/ AutoRefresh \/ Second
    \/ \E c \in checking, data \in Reports :
        GetHealth(data) /\ FetchHealth(c, data)

HealthSpec == HealthInit /\ [][HealthNext]_healthVars

----------------------------------------------------------------------------
(* Properties.                                                             *)

\* Every variable keeps its type.
HealthTypeOK ==
    /\ health \in Reports \cup {Null} /\ healthAge \in Nat
    /\ checking \subseteq [age: 0..RequestTime, manual: BOOLEAN]
    /\ spinning \in BOOLEAN /\ spinTimer \in BOOLEAN /\ wakeUp \in BOOLEAN
    /\ countdown \in 0..Interval /\ sinceFetch \in 0..(Interval - 1)

\* However answers overtake each other, what the page shows is never older than
\* an interval and the time of two requests.
HealthIsFresh == healthAge <= Interval + 2 * RequestTime

\* The Refresh button is not disabled for ever: it spins exactly while a manual
\* fetch is under way or its timer is set, whatever the automatic fetches and
\* failures in between.
SpinningEnds == spinning <=> (spinTimer \/ \E c \in checking : c.manual)

\* The banner is green exactly when every service card says Online, whoever
\* made the report: the server's 200 or 503, or the page's own for a server it
\* cannot reach.
BannerMatchesCards ==
    ~pageLoading => (Banner = "green" <=> Cards = {"Online"})
=============================================================================
