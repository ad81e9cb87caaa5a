---------------------------- MODULE RedirectCache ----------------------------
(***************************************************************************)
(* The redirect path of url-service for one short code: every instance's   *)
(* in-process cache (Moka: a time to live, and one load at a time for the  *)
(* requests that miss), the shared Redis key with its TTL, the read        *)
(* replica, the fill of Redis that runs in the background after a load     *)
(* from the database, and the deletion, creation and reactivation of the   *)
(* row under all of it.  Short codes share no state but the capacity of    *)
(* the caches, and the original URL of a code never changes, so an answer  *)
(* is the status and, of the row, only its expiry matters.                 *)
(*                                                                         *)
(* Time is in seconds.  A request is done within RequestTime, a SETEX in   *)
(* FillDelay; everything else in the background may take any time.         *)
(* Optional values are sets of at most one element.                        *)
(***************************************************************************)
EXTENDS Naturals, FiniteSets

CONSTANTS
    Instances,   \* url-service replicas
    Requests,    \* requests under way at once: bounds a run
    Expiries,    \* the values of expires_at that the row may get
    Never,       \* expires_at IS NULL, and a Redis key without a TTL
    L1Ttl,       \* time_to_live of the in-process cache (3 in the code)
    RequestTime, \* how long a request may take
    FillDelay,   \* how long a SETEX may take after its TTL was computed
    MaxTime      \* the last tick: bounds a run

Time == 0..MaxTime

ASSUME DelayAssumption  == /\ {RequestTime, FillDelay, MaxTime} \subseteq Nat
                           /\ L1Ttl \in Nat \ {0}
ASSUME NeverAssumption  == Never \in Nat /\ Never > MaxTime + FillDelay
ASSUME ExpiryAssumption == Expiries \subseteq Time \cup {Never}

VARIABLES
    now,
    row,        \* the expiry of the row in the primary, if there is one
    replica,    \* the same in the read replica, which lags
    born,       \* whether the code has been issued
    del,        \* the DELETE handler: "no", "evict" (row gone, DEL to do), "done"
    redis,      \* the time the key lives until, if there is a key
    l1,         \* each instance's entry, if any: a value and when it lapses
    leader,     \* the request that loads for an instance, if any
    pc, inst, val, since,  \* each request's place, instance, value and start
    fill,       \* the Redis fill a request has spawned, if it is still to do
    lastExpiry, \* history: the latest expiry the row has had
    absentAt,   \* history: the last time at which the replica had no row
    settledAt   \* history: when a DEL ran with nothing left that could refill

store   == <<row, born, lastExpiry>>
request == <<leader, pc, inst, val, since>>
vars == <<now, store, replica, del, redis, l1, request, fill, absentAt, settledAt>>

Expiry == Time \cup {Never}
Hit(e) == [kind |-> "hit", exp |-> e]   \* Some((url, expires_at))
Miss   == [kind |-> "miss", exp |-> Never]
Failed == [kind |-> "error", exp |-> Never]
Value  == [kind: {"hit", "miss", "error"}, exp: Expiry]

Spawned(e)    == [stage |-> "spawned", arg |-> e, at |-> 0]
Setting(t, n) == [stage |-> "setting", arg |-> t, at |-> n]

Loading == {"redis", "db", "loaded"}

Init ==
    /\ now = 0
    /\ row = {} /\ replica = {} /\ redis = {}
    /\ born = FALSE
    /\ del = "no"
    /\ l1 = [i \in Instances |-> {}]
    /\ leader = [i \in Instances |-> {}]
    /\ pc = [r \in Requests |-> "idle"]
    /\ inst \in [Requests -> Instances]
    /\ val = [r \in Requests |-> Miss]
    /\ since = [r \in Requests |-> 0]
    /\ fill = [r \in Requests |-> {}]
    /\ lastExpiry = 0
    /\ absentAt = 0
    /\ settledAt = {}

----------------------------------------------------------------------------
(* Time.                                                                   *)

\* Entries and keys lapse; a request or a SETEX under way ends in time.
Tick ==
    /\ now < MaxTime
    /\ \A r \in Requests :
        /\ pc[r] # "idle" => now < since[r] + RequestTime
        /\ \A f \in fill[r] : f.stage = "setting" => now < f.at + FillDelay
    /\ now' = now + 1
    /\ l1' = [i \in Instances |-> {e \in l1[i] : now + 1 < e.until}]
    /\ redis' = {d \in redis : d = Never \/ now + 1 < d}
    /\ absentAt' = IF replica = {} THEN now + 1 ELSE absentAt
    /\ UNCHANGED <<store, replica, del, request, fill, settledAt>>

----------------------------------------------------------------------------
(* The row: shortening, reactivation of an expired row, replication.       *)

SetRow(e) ==
    /\ row' = {e}
    /\ lastExpiry' = IF e > lastExpiry THEN e ELSE lastExpiry

Create(e) ==
    /\ ~born
    /\ born' = TRUE
    /\ SetRow(e)
    /\ UNCHANGED <<now, replica, del, redis, l1, request, fill, absentAt, settledAt>>

\* No cache is told.
Reactivate(e) ==
    /\ \E old \in row : old < now
    /\ SetRow(e)
    /\ UNCHANGED <<now, replica, born, del, redis, l1, request, fill, absentAt, settledAt>>

Replicate ==
    /\ replica # row
    /\ replica' = row
    /\ absentAt' = IF replica = {} \/ row = {} THEN now ELSE absentAt
    /\ UNCHANGED <<now, store, del, redis, l1, request, fill, settledAt>>

----------------------------------------------------------------------------
(* delete_url_handler: the row, then Redis; the in-process caches are left *)
(* to lapse.                                                               *)

DeleteRow ==
    /\ row # {}
    /\ row' = {}
    /\ del' = "evict"
    /\ UNCHANGED <<now, replica, born, redis, l1, request, fill, lastExpiry,
                   absentAt, settledAt>>

\* Mutant: the key is left in Redis.
DelSkipped ==
    /\ del = "evict"
    /\ del' = "done"
    /\ settledAt' = IF replica = {} /\ \A r \in Requests : fill[r] = {}
                    THEN {now} ELSE {}
    /\ UNCHANGED <<now, store, replica, redis, l1, request, fill, absentAt>>

DelOk ==
    /\ del = "evict"
    /\ del' = "done"
    /\ redis' = {}
    /\ settledAt' = IF replica = {} /\ \A r \in Requests : fill[r] = {}
                    THEN {now} ELSE {}
    /\ UNCHANGED <<now, store, replica, l1, request, fill, absentAt>>

\* The error is logged and the answer is 204 all the same.
DelFails ==
    /\ del = "evict"
    /\ del' = "done"
    /\ UNCHANGED <<now, store, replica, redis, l1, request, fill, absentAt, settledAt>>

\* allkeys-lru, or a restart of Redis.
RedisEvicts ==
    /\ redis # {}
    /\ redis' = {}
    /\ UNCHANGED <<now, store, replica, del, l1, request, fill, absentAt, settledAt>>

----------------------------------------------------------------------------
(* get_original_url.                                                       *)

Goto(r, place) == pc' = [pc EXCEPT ![r] = place]

\* Mutant: a plain get and insert, without coalescing.
LookupAlone(r, i) ==
    \/ \E e \in l1[i] :
        /\ val' = [val EXCEPT ![r] = e.val]
        /\ Goto(r, "got")
        /\ UNCHANGED leader
    \/ /\ l1[i] = {}
       /\ leader' = [leader EXCEPT ![i] = {r}]
       /\ Goto(r, "redis")
       /\ UNCHANGED val

\* try_get_with: the entry, else the load of another request, else a load.
Lookup(r, i) ==
    \/ \E e \in l1[i] :
        /\ val' = [val EXCEPT ![r] = e.val]
        /\ Goto(r, "got")
        /\ UNCHANGED leader
    \/ /\ l1[i] = {} /\ leader[i] = {}
       /\ leader' = [leader EXCEPT ![i] = {r}]
       /\ Goto(r, "redis")
       /\ UNCHANGED val
    \/ /\ l1[i] = {} /\ leader[i] # {}
       /\ Goto(r, "wait")
       /\ UNCHANGED <<leader, val>>

Start(r, i) ==
    /\ pc[r] = "idle" /\ fill[r] = {}
    /\ inst' = [inst EXCEPT ![r] = i]
    /\ since' = [since EXCEPT ![r] = now]
    /\ Lookup(r, i)
    /\ UNCHANGED <<now, store, replica, del, redis, l1, fill, absentAt, settledAt>>

\* A waiter whose leader was cancelled tries again.
Retry(r) ==
    /\ pc[r] = "wait" /\ leader[inst[r]] = {}
    /\ Lookup(r, inst[r])
    /\ UNCHANGED <<now, store, replica, del, redis, l1, inst, since, fill, absentAt, settledAt>>

\* A hit carries no expiry; an error counts as a miss.
RedisGet(r) ==
    /\ pc[r] = "redis"
    /\ \/ /\ redis # {}
          /\ val' = [val EXCEPT ![r] = Hit(Never)]
          /\ Goto(r, "loaded")
       \/ /\ Goto(r, "db")
          /\ UNCHANGED val
    /\ UNCHANGED <<now, store, replica, del, redis, l1, leader, inst, since, fill,
                   absentAt, settledAt>>

\* The SELECT goes to the replica; a row found is on its way to Redis.
DbGet(r) ==
    /\ pc[r] = "db"
    /\ \/ \E e \in replica :
            /\ val' = [val EXCEPT ![r] = Hit(e)]
            /\ fill' = [fill EXCEPT ![r] = {Spawned(e)}]
       \/ /\ replica = {}
          /\ val' = [val EXCEPT ![r] = Miss]
          /\ UNCHANGED fill
       \/ /\ val' = [val EXCEPT ![r] = Failed]
          /\ UNCHANGED fill
    /\ Goto(r, "loaded")
    /\ UNCHANGED <<now, store, replica, del, redis, l1, leader, inst, since, absentAt, settledAt>>

\* Mutant: errors are cached like missing rows.
CachedErrors(v) ==
    {[val |-> IF v.kind = "error" THEN Miss ELSE v, until |-> now + L1Ttl]}

\* What the in-process cache keeps of a load: everything but an error.
Cached(v) == IF v.kind = "error" THEN {} ELSE {[val |-> v, until |-> now + L1Ttl]}

\* The load ends: the entry is inserted and every waiter gets the value.
LoadDone(r) ==
    LET i == inst[r]
        served == {r} \cup {s \in Requests : pc[s] = "wait" /\ inst[s] = i}
    IN
    /\ pc[r] = "loaded"
    /\ l1' = [l1 EXCEPT ![i] = Cached(val[r])]
    /\ leader' = [leader EXCEPT ![i] = {}]
    /\ pc' = [s \in Requests |-> IF s \in served THEN "got" ELSE pc[s]]
    /\ val' = [s \in Requests |-> IF s \in served THEN val[r] ELSE val[s]]
    /\ UNCHANGED <<now, store, replica, del, redis, inst, since, fill, absentAt, settledAt>>

\* Mutant: a cached row is not re-checked.
StatusUnchecked(v) ==
    CASE v.kind = "error" -> "503"
      [] v.kind = "miss"  -> "404"
      [] OTHER -> "307"

\* The answer to a value: an expired row is re-checked here.
Status(v) ==
    CASE v.kind = "error" -> "503"
      [] v.kind = "miss"  -> "404"
      [] OTHER -> IF v.exp < now THEN "410" ELSE "307"

Respond(r) ==
    /\ pc[r] = "got"
    /\ Goto(r, "idle")
    /\ val' = [val EXCEPT ![r] = Miss]
    /\ since' = [since EXCEPT ![r] = 0]
    /\ l1' = IF Status(val[r]) = "410" THEN [l1 EXCEPT ![inst[r]] = {}] ELSE l1
    /\ UNCHANGED <<now, store, replica, del, redis, leader, inst, fill,
                   absentAt, settledAt>>

\* Mutant: a load that is dropped keeps its place.
CancelKeepsLeader(r) ==
    /\ pc[r] \in Loading \cup {"wait"}
    /\ Goto(r, "idle")
    /\ val' = [val EXCEPT ![r] = Miss]
    /\ since' = [since EXCEPT ![r] = 0]
    /\ UNCHANGED <<now, store, replica, del, redis, l1, leader, inst, fill,
                   absentAt, settledAt>>

\* The client goes away: its handler is dropped at an await.  A spawned fill
\* runs on.
Cancel(r) ==
    /\ pc[r] \in Loading \cup {"wait"}
    /\ Goto(r, "idle")
    /\ val' = [val EXCEPT ![r] = Miss]
    /\ since' = [since EXCEPT ![r] = 0]
    /\ leader' = [leader EXCEPT ![inst[r]] = @ \ {r}]
    /\ UNCHANGED <<now, store, replica, del, redis, l1, inst, fill, absentAt, settledAt>>

----------------------------------------------------------------------------
(* The spawned task that fills Redis.                                      *)

\* Mutant: no check that time is left.
FillTtlUnguarded(r) ==
    /\ \E f \in fill[r] :
        /\ f.stage = "spawned"
        /\ fill' = [fill EXCEPT ![r] =
                {Setting(IF f.arg = Never THEN Never ELSE f.arg - now, now)}]
    /\ UNCHANGED <<now, store, replica, del, redis, l1, request, absentAt, settledAt>>

\* Mutant: the time of expiry is taken for the TTL.
FillTtlAbsolute(r) ==
    /\ \E f \in fill[r] :
        /\ f.stage = "spawned"
        /\ fill' = [fill EXCEPT ![r] =
                IF f.arg = Never \/ f.arg > now THEN {Setting(f.arg, now)} ELSE {}]
    /\ UNCHANGED <<now, store, replica, del, redis, l1, request, absentAt, settledAt>>

\* The TTL of a key is what is left of its row, in whole seconds.
FillTtl(r) ==
    /\ \E f \in fill[r] :
        /\ f.stage = "spawned"
        /\ fill' = [fill EXCEPT ![r] =
                IF f.arg = Never THEN {Setting(Never, now)}
                ELSE IF f.arg > now THEN {Setting(f.arg - now, now)}
                ELSE {}]
    /\ UNCHANGED <<now, store, replica, del, redis, l1, request, absentAt, settledAt>>

\* SETEX counts from its arrival; an error is ignored.
FillSet(r) ==
    /\ \E f \in fill[r] :
        /\ f.stage = "setting"
        /\ \/ redis' = {IF f.arg = Never THEN Never ELSE now + f.arg}
           \/ UNCHANGED redis
    /\ fill' = [fill EXCEPT ![r] = {}]
    /\ UNCHANGED <<now, store, replica, del, l1, request, absentAt, settledAt>>

\* An instance restarts, or is scaled away and back.
InstanceCrash(i) ==
    LET gone == {r \in Requests : inst[r] = i} IN
    /\ l1' = [l1 EXCEPT ![i] = {}]
    /\ leader' = [leader EXCEPT ![i] = {}]
    /\ pc' = [r \in Requests |-> IF r \in gone THEN "idle" ELSE pc[r]]
    /\ val' = [r \in Requests |-> IF r \in gone THEN Miss ELSE val[r]]
    /\ since' = [r \in Requests |-> IF r \in gone THEN 0 ELSE since[r]]
    /\ fill' = [r \in Requests |-> IF r \in gone THEN {} ELSE fill[r]]
    /\ UNCHANGED <<now, store, replica, del, redis, inst, absentAt, settledAt>>

----------------------------------------------------------------------------
Handle(r) == \/ Retry(r) \/ RedisGet(r) \/ DbGet(r) \/ LoadDone(r) \/ Respond(r)

Next ==
    \/ Tick
    \/ \E e \in Expiries : Create(e) \/ Reactivate(e)
    \/ Replicate
    \/ DeleteRow \/ DelOk \/ DelFails
    \/ RedisEvicts
    \/ \E r \in Requests, i \in Instances : Start(r, i)
    \/ \E r \in Requests : Handle(r) \/ Cancel(r) \/ FillTtl(r) \/ FillSet(r)
    \/ \E i \in Instances : InstanceCrash(i)

\* The runtime polls every handler.
Fairness == \A r \in Requests : WF_vars(Handle(r))

Spec == Init /\ [][Next]_vars
FairSpec == Spec /\ Fairness

----------------------------------------------------------------------------
(* Properties.                                                             *)

Entry == [val: Value, until: Nat]
FillTask == [stage: {"spawned", "setting"}, arg: Nat, at: Time]

\* Every variable keeps its type.
TypeOK ==
    /\ now \in Time
    /\ row \subseteq Expiry /\ replica \subseteq Expiry /\ redis \subseteq Nat
    /\ born \in BOOLEAN
    /\ del \in {"no", "evict", "done"}
    /\ l1 \in [Instances -> SUBSET Entry]
    /\ leader \in [Instances -> SUBSET Requests]
    /\ pc \in [Requests -> {"idle", "wait", "got"} \cup Loading]
    /\ inst \in [Requests -> Instances]
    /\ since \in [Requests -> Time]
    /\ val \in [Requests -> Value]
    /\ fill \in [Requests -> SUBSET FillTask]
    /\ lastExpiry \in Expiry
    /\ absentAt \in Time
    /\ settledAt \subseteq Time

\* Request r answers with the given status in this step.
Sends(r, status) ==
    pc[r] = "got" /\ pc'[r] = "idle" /\ Status(val[r]) = status

\* Singleflight: an instance has at most one load under way, through answers
\* that expire, leaders that are cancelled and waiters that take over.
SingleFlight ==
    \A r, s \in Requests :
        (pc[r] \in Loading /\ pc[s] \in Loading /\ inst[r] = inst[s]) => r = s

\* A key of Redis outlives the row's expiry at most by the time its SETEX was
\* under way, whatever the replica lag, the reactivations and the refills.
RedisOutlivesRowBriefly ==
    \A d \in redis : d <= lastExpiry + FillDelay

\* For how long after it was read an answer may still be sent: a load, the life
\* of its entry, and a request that found the entry.
StaleFor == L1Ttl + 2 * RequestTime

\* An expiring URL stops redirecting: the last redirect comes less than StaleFor
\* after the last moment its Redis key can still answer.
ExpiredStopsRedirecting ==
    [][\A r \in Requests :
            Sends(r, "307") => now < lastExpiry + FillDelay + StaleFor]_vars

\* A deleted URL stops redirecting: if its DEL runs once the replica has caught
\* up and no fill is under way, no instance redirects StaleFor later.
DeletedStopsRedirecting ==
    [][\A r \in Requests :
            Sends(r, "307") => \A t \in settledAt : now < t + StaleFor]_vars

\* A 404 is true or was less than StaleFor ago: a database error is never cached
\* as a missing row (BENCHMARK.md 260), and a code asked for before it was
\* issued works soon after.
NotFoundIsTrue ==
    [][\A r \in Requests :
            Sends(r, "404") => replica = {} \/ now < absentAt + StaleFor]_vars

\* Every request is answered once clients stop going away, those that waited
\* for a load that was cancelled or crashed included.
RequestsAnswered ==
    <>[][\A r \in Requests : ~Cancel(r)]_vars =>
        \A r \in Requests : pc[r] # "idle" ~> pc[r] = "idle"

\* BENCHMARK.md 291: the Redis TTL prevents stale redirects.  Once a deletion
\* has evicted the key, the replica has caught up and no fill is under way, no
\* key is left.  A fill that read the row before puts a key without TTL back.
DeletedKeyStaysGone ==
    (del = "done" /\ replica = {} /\ \A r \in Requests : fill[r] = {}) => redis = {}

\* handlers.rs 172: "Re-verify expiration in case it expired while sitting in
\* the 3-second L1 microcache": no redirect to an expired row.  An entry that
\* came from Redis carries no expiry to verify.
ExpiredIsGone ==
    [][\A r \in Requests : Sends(r, "307") => \A e \in row : now <= e]_vars
=============================================================================
