------------------------- MODULE RedirectCacheProofs -------------------------
(***************************************************************************)
(* Proofs about RedirectCache, for any instances, requests, expiries and   *)
(* delays: the type invariant, one load at a time for each instance, that  *)
(* a Redis key outlives its row's expiry only by the delay of its SETEX,   *)
(* and how long an answer may be out of date: redirects to an expired or   *)
(* a deleted URL, and a 404 for one that exists.                           *)
(***************************************************************************)
EXTENDS RedirectCache, TLAPS

\* A request that loads is the leader of its instance.
LoadingLeads ==
    \A r \in Requests : pc[r] \in Loading => leader[inst[r]] = {r}

\* What the row, its replica and the fills know of its expiry is not after the
\* latest expiry.
KnownExpiries ==
    /\ \A e \in row \cup replica : e <= lastExpiry
    /\ \A r \in Requests : \A f \in fill[r] : f.stage = "spawned" =>
            f.arg \in Expiry /\ f.arg <= lastExpiry

\* A SETEX is not later than its deadline, and its TTL ends at the expiry if it
\* arrives at once.
FillsInTime ==
    \A r \in Requests : \A f \in fill[r] : f.stage = "setting" =>
        /\ f.arg = Never => Never <= lastExpiry
        /\ f.arg # Never => f.at + f.arg <= lastExpiry
        /\ now <= f.at + FillDelay

ExpiryInv == KnownExpiries /\ FillsInTime /\ RedisOutlivesRowBriefly

IInv == TypeOK /\ LoadingLeads /\ ExpiryInv

----------------------------------------------------------------------------
\* Times and expiries are numbers, and no time reaches Never.
LEMMA TimeFacts ==
    /\ Time \subseteq Nat /\ 0 \in Time /\ Expiries \subseteq Expiry
    /\ Expiry \subseteq Nat /\ Never \in Expiry /\ 0 \in Expiry
    /\ \A t \in Time : t <= MaxTime /\ t < Never
BY DelayAssumption, NeverAssumption, ExpiryAssumption DEF Time, Expiry

\* What a load may yield is a value, and what the cache keeps of it an entry.
LEMMA ValueFacts ==
    /\ Miss \in Value /\ Failed \in Value
    /\ \A e \in Expiry : Hit(e) \in Value
BY TimeFacts DEF Miss, Failed, Hit, Value

LEMMA CachedType ==
    ASSUME NEW v \in Value, now \in Time
    PROVE  Cached(v) \subseteq Entry
BY TimeFacts, DelayAssumption DEF Cached, Entry

----------------------------------------------------------------------------
\* What the proofs compare and add are numbers.
LEMMA NumberFacts ==
    ASSUME TypeOK
    PROVE  /\ {now, lastExpiry, Never, FillDelay} \subseteq Nat
           /\ \A r \in Requests : \A f \in fill[r] : f.at \in Nat /\ f.arg \in Nat
<1>1. \A f \in FillTask : f.at \in Nat /\ f.arg \in Nat
    BY TimeFacts DEF FillTask
<1>2. \A r \in Requests : fill[r] \subseteq FillTask
    BY DEF TypeOK
<1> QED BY <1>1, <1>2, TimeFacts, DelayAssumption DEF TypeOK

\* The initial state satisfies the inductive invariant.
LEMMA InitIInv == Init => IInv
<1> SUFFICES ASSUME Init PROVE IInv
    OBVIOUS
<1>1. TypeOK
    BY TimeFacts, ValueFacts DEF Init, TypeOK, Loading
<1>2. LoadingLeads
    BY DEF Init, LoadingLeads, Loading
<1>3. ExpiryInv
    BY DEF Init, ExpiryInv, KnownExpiries, FillsInTime, RedisOutlivesRowBriefly
<1> QED BY <1>1, <1>2, <1>3 DEF IInv

\* A look-up keeps the types of what it writes.
LEMMA LookupType ==
    ASSUME TypeOK, NEW r \in Requests, NEW i \in Instances, Lookup(r, i)
    PROVE  /\ leader' \in [Instances -> SUBSET Requests]
           /\ pc' \in [Requests -> {"idle", "wait", "got"} \cup Loading]
           /\ val' \in [Requests -> Value]
BY DEF TypeOK, Lookup, Goto, Loading, Entry

\* Every step of RedirectCache preserves the types of its state.
LEMMA TypeStep == TypeOK /\ [Next]_vars => TypeOK'
<1> SUFFICES ASSUME TypeOK, [Next]_vars PROVE TypeOK'
    OBVIOUS
<1> USE TimeFacts, ValueFacts DEF TypeOK, store, request
<1>1. CASE Tick
    <2>1. now' \in Time
        BY <1>1, DelayAssumption DEF Tick, Time
    <2>2. l1' \in [Instances -> SUBSET Entry]
        BY <1>1 DEF Tick
    <2> QED BY <1>1, <2>1, <2>2 DEF Tick
<1>2. ASSUME NEW e \in Expiries, Create(e) PROVE TypeOK'
    BY <1>2 DEF Create, SetRow
<1>3. ASSUME NEW e \in Expiries, Reactivate(e) PROVE TypeOK'
    BY <1>3 DEF Reactivate, SetRow
<1>4. CASE Replicate
    BY <1>4 DEF Replicate
<1>5. CASE DeleteRow
    BY <1>5 DEF DeleteRow
<1>6. CASE DelOk
    BY <1>6 DEF DelOk
<1>7. CASE DelFails
    BY <1>7 DEF DelFails
<1>8. CASE RedisEvicts
    BY <1>8 DEF RedisEvicts
<1>9. ASSUME NEW r \in Requests, NEW i \in Instances, Start(r, i) PROVE TypeOK'
    BY <1>9, LookupType DEF Start
<1>10. ASSUME NEW r \in Requests, Retry(r) PROVE TypeOK'
    BY <1>10, LookupType DEF Retry
<1>11. ASSUME NEW r \in Requests, RedisGet(r) PROVE TypeOK'
    BY <1>11 DEF RedisGet, Goto, Loading
<1>12. ASSUME NEW r \in Requests, DbGet(r) PROVE TypeOK'
    <2>1. \A e \in Expiry : Spawned(e) \in FillTask
        BY DEF Spawned, FillTask
    <2>2. fill' \in [Requests -> SUBSET FillTask]
        BY <1>12, <2>1 DEF DbGet
    <2>3. val' \in [Requests -> Value]
        BY <1>12 DEF DbGet
    <2> QED BY <1>12, <2>2, <2>3 DEF DbGet, Goto, Loading
<1>13. ASSUME NEW r \in Requests, LoadDone(r) PROVE TypeOK'
    <2>1. Cached(val[r]) \subseteq Entry
        BY CachedType
    <2> QED BY <1>13, <2>1 DEF LoadDone
<1>14. ASSUME NEW r \in Requests, Respond(r) PROVE TypeOK'
    BY <1>14 DEF Respond, Goto
<1>15. ASSUME NEW r \in Requests, Cancel(r) PROVE TypeOK'
    BY <1>15 DEF Cancel, Goto
<1>16. ASSUME NEW r \in Requests, FillTtl(r) PROVE TypeOK'
    <2>1. \A f \in fill[r] : f.arg > now => Setting(f.arg - now, now) \in FillTask
        BY DEF Setting, FillTask
    <2>2. Setting(Never, now) \in FillTask
        BY DEF Setting, FillTask
    <2> QED BY <1>16, <2>1, <2>2 DEF FillTtl
<1>17. ASSUME NEW r \in Requests, FillSet(r) PROVE TypeOK'
    <2>1. redis' \subseteq Nat
        <3>1. PICK f \in fill[r] :
                \/ redis' = {IF f.arg = Never THEN Never ELSE now + f.arg}
                \/ UNCHANGED redis
            BY <1>17 DEF FillSet
        <3>2. redis' \subseteq redis \cup {Never, now + f.arg}
            BY <3>1
        <3>3. now + f.arg \in Nat
            BY NumberFacts
        <3> QED BY <3>2, <3>3
    <2> QED BY <1>17, <2>1 DEF FillSet
<1>18. ASSUME NEW i \in Instances, InstanceCrash(i) PROVE TypeOK'
    BY <1>18 DEF InstanceCrash
<1>19. CASE UNCHANGED vars
    BY <1>19 DEF vars
<1> QED
    BY <1>1, <1>2, <1>3, <1>4, <1>5, <1>6, <1>7, <1>8, <1>9, <1>10, <1>11,
       <1>12, <1>13, <1>14, <1>15, <1>16, <1>17, <1>18, <1>19 DEF Next, Handle

----------------------------------------------------------------------------
\* Every step keeps the load of an instance with its leader.
LEMMA LoadingStep == TypeOK /\ LoadingLeads /\ [Next]_vars => LoadingLeads'
<1> SUFFICES ASSUME TypeOK, LoadingLeads, [Next]_vars PROVE LoadingLeads'
    OBVIOUS
<1> USE DEF TypeOK, LoadingLeads, Loading, store, request
<1>1. CASE UNCHANGED request
    BY <1>1
<1>2. ASSUME NEW r \in Requests, NEW i \in Instances, Start(r, i)
      PROVE  LoadingLeads'
    <2>1. /\ pc[r] = "idle" /\ inst' = [inst EXCEPT ![r] = i] /\ Lookup(r, i)
        BY <1>2 DEF Start
    <2>2. CASE leader' = leader /\ \E place \in {"got", "wait"} : Goto(r, place)
        BY <2>1, <2>2 DEF Goto
    <2>3. CASE /\ leader[i] = {}
               /\ leader' = [leader EXCEPT ![i] = {r}] /\ Goto(r, "redis")
        <3>1. \A s \in Requests : inst[s] = i => pc[s] \notin Loading
            BY <2>3
        <3> QED BY <2>1, <2>3, <3>1 DEF Goto
    <2> QED BY <2>1, <2>2, <2>3 DEF Lookup
<1>3. ASSUME NEW r \in Requests, Retry(r) PROVE LoadingLeads'
    <2> DEFINE i == inst[r]
    <2>1. \A s \in Requests : inst[s] = i => pc[s] \notin Loading
        BY <1>3 DEF Retry
    <2>2. CASE leader' = leader /\ \E place \in {"got", "wait"} : Goto(r, place)
        BY <1>3, <2>2 DEF Retry, Goto
    <2>3. CASE leader' = [leader EXCEPT ![i] = {r}] /\ Goto(r, "redis")
        BY <1>3, <2>1, <2>3 DEF Retry, Goto
    <2> QED BY <1>3, <2>2, <2>3 DEF Retry, Lookup
<1>4. ASSUME NEW r \in Requests, RedisGet(r) PROVE LoadingLeads'
    BY <1>4 DEF RedisGet, Goto
<1>5. ASSUME NEW r \in Requests, DbGet(r) PROVE LoadingLeads'
    BY <1>5 DEF DbGet, Goto
<1>6. ASSUME NEW r \in Requests, LoadDone(r) PROVE LoadingLeads'
    BY <1>6 DEF LoadDone
<1>7. ASSUME NEW r \in Requests, Respond(r) PROVE LoadingLeads'
    BY <1>7 DEF Respond, Goto
<1>8. ASSUME NEW r \in Requests, Cancel(r) PROVE LoadingLeads'
    BY <1>8 DEF Cancel, Goto
<1>9. ASSUME NEW i \in Instances, InstanceCrash(i) PROVE LoadingLeads'
    BY <1>9 DEF InstanceCrash
<1> QED
    BY <1>1, <1>2, <1>3, <1>4, <1>5, <1>6, <1>7, <1>8, <1>9
    DEF Next, Handle, Tick, Create, Reactivate, Replicate, DeleteRow, DelOk,
        DelFails, RedisEvicts, FillTtl, FillSet, vars

----------------------------------------------------------------------------
\* Every step keeps the Redis key, and every fill on its way to it, within the
\* expiry of the row.
LEMMA ExpiryStep == TypeOK /\ ExpiryInv /\ [Next]_vars => ExpiryInv'
<1> SUFFICES ASSUME TypeOK, ExpiryInv, [Next]_vars PROVE ExpiryInv'
    OBVIOUS
<1> USE TimeFacts, DelayAssumption, NeverAssumption
    DEF TypeOK, FillTask, ExpiryInv, KnownExpiries, FillsInTime,
        RedisOutlivesRowBriefly, store, request
<1>1. CASE Tick
    <2>1. KnownExpiries'
        BY <1>1 DEF Tick
    <2>2. RedisOutlivesRowBriefly'
        BY <1>1 DEF Tick
    <2>3. FillsInTime'
        <3> SUFFICES ASSUME NEW r \in Requests, NEW f \in fill[r],
                            f.stage = "setting"
                     PROVE  now + 1 <= f.at + FillDelay
            BY <1>1 DEF Tick
        <3>1. now < f.at + FillDelay
            BY <1>1 DEF Tick
        <3>2. now \in Nat /\ f.at \in Nat /\ FillDelay \in Nat
            BY NumberFacts
        <3> QED BY <3>1, <3>2
    <2> QED BY <2>1, <2>2, <2>3
<1>2. ASSUME NEW e \in Expiry, SetRow(e),
             UNCHANGED <<now, replica, redis, fill>>
      PROVE  ExpiryInv'
    <2>1. lastExpiry' \in Nat /\ lastExpiry <= lastExpiry' /\ e <= lastExpiry'
        BY <1>2 DEF SetRow
    <2>2. KnownExpiries'
        BY <1>2, <2>1 DEF SetRow
    <2>3. FillsInTime'
        <3> SUFFICES ASSUME NEW r \in Requests, NEW f \in fill[r],
                            f.stage = "setting"
                     PROVE  /\ f.arg = Never => Never <= lastExpiry'
                            /\ f.arg # Never => f.at + f.arg <= lastExpiry'
                            /\ now <= f.at + FillDelay
            BY <1>2
        <3>1. /\ f.at \in Nat /\ f.arg \in Nat
              /\ Never \in Nat /\ lastExpiry \in Nat
            BY NumberFacts
        <3> QED BY <2>1, <3>1
    <2>4. RedisOutlivesRowBriefly'
        BY <1>2, <2>1
    <2> QED BY <2>2, <2>3, <2>4
<1>3. CASE Replicate
    BY <1>3 DEF Replicate
<1>4. CASE DeleteRow
    BY <1>4 DEF DeleteRow
<1>5. CASE DelOk
    BY <1>5 DEF DelOk
<1>6. CASE RedisEvicts
    BY <1>6 DEF RedisEvicts
<1>7. ASSUME NEW r \in Requests, DbGet(r) PROVE ExpiryInv'
    <2>1. ASSUME NEW e \in replica, fill' = [fill EXCEPT ![r] = {Spawned(e)}]
          PROVE  ExpiryInv'
        BY <1>7, <2>1 DEF DbGet, Spawned
    <2> QED BY <1>7, <2>1 DEF DbGet
<1>8. ASSUME NEW r \in Requests, FillTtl(r) PROVE ExpiryInv'
    <2>1. PICK f \in fill[r] :
            /\ f.stage = "spawned"
            /\ fill' = [fill EXCEPT ![r] =
                    IF f.arg = Never THEN {Setting(Never, now)}
                    ELSE IF f.arg > now THEN {Setting(f.arg - now, now)}
                    ELSE {}]
        BY <1>8 DEF FillTtl
    <2>2. f.arg \in Expiry /\ f.arg <= lastExpiry
        BY <2>1
    <2>3. ASSUME NEW g \in fill'[r]
          PROVE  /\ g.stage = "setting" /\ g.at = now
                 /\ g.arg = Never => Never <= lastExpiry
                 /\ g.arg # Never => now + g.arg <= lastExpiry
        <3>1. CASE f.arg = Never
            BY <3>1, <2>1, <2>2, <2>3 DEF Setting
        <3>2. CASE f.arg # Never
            <4>1. f.arg > now /\ g = Setting(f.arg - now, now)
                BY <3>2, <2>1, <2>3
            <4>2. f.arg <= MaxTime
                BY <3>2, <2>2 DEF Expiry
            <4> QED BY <4>1, <4>2, <2>2 DEF Setting
        <3> QED BY <3>1, <3>2
    <2>4. KnownExpiries'
        BY <1>8, <2>1, <2>3 DEF FillTtl
    <2>5. FillsInTime'
        BY <1>8, <2>1, <2>3 DEF FillTtl
    <2> QED BY <1>8, <2>4, <2>5 DEF FillTtl
<1>9. ASSUME NEW r \in Requests, FillSet(r) PROVE ExpiryInv'
    <2>1. \A s \in Requests : fill'[s] \subseteq fill[s]
        BY <1>9 DEF FillSet
    <2>2. PICK f \in fill[r] :
            /\ f.stage = "setting"
            /\ \/ redis' = {IF f.arg = Never THEN Never ELSE now + f.arg}
               \/ UNCHANGED redis
        BY <1>9 DEF FillSet
    <2>3. /\ f.at \in Nat /\ f.arg \in Nat /\ now \in Nat /\ Never \in Nat
          /\ lastExpiry \in Nat /\ FillDelay \in Nat
        BY NumberFacts
    <2>4. (IF f.arg = Never THEN Never ELSE now + f.arg) <= lastExpiry + FillDelay
        <3>1. CASE f.arg = Never
            <4>1. Never <= lastExpiry
                BY <2>2, <3>1
            <4> QED BY <2>3, <3>1, <4>1
        <3>2. CASE f.arg # Never
            <4>1. f.at + f.arg <= lastExpiry /\ now <= f.at + FillDelay
                BY <2>2, <3>2
            <4> QED BY <2>3, <3>2, <4>1
        <3> QED BY <3>1, <3>2
    <2>5. RedisOutlivesRowBriefly'
        BY <1>9, <2>2, <2>4 DEF FillSet
    <2> QED BY <1>9, <2>1, <2>5 DEF FillSet
<1>10. ASSUME NEW i \in Instances, InstanceCrash(i) PROVE ExpiryInv'
    <2>1. \A s \in Requests : fill'[s] \subseteq fill[s]
        BY <1>10 DEF InstanceCrash
    <2> QED BY <1>10, <2>1 DEF InstanceCrash
<1>11. CASE UNCHANGED <<now, row, replica, lastExpiry, redis, fill>>
    BY <1>11
<1>12. ASSUME NEW e \in Expiries, Create(e) \/ Reactivate(e) PROVE ExpiryInv'
    BY <1>2, <1>12 DEF Create, Reactivate
<1> QED
    BY <1>1, <1>3, <1>4, <1>5, <1>6, <1>7, <1>8, <1>9, <1>10, <1>11, <1>12
    DEF Next, Handle, DelFails, Start, Retry, RedisGet, LoadDone, Respond,
        Cancel, vars

----------------------------------------------------------------------------
\* The inductive invariant holds in every reachable state.
THEOREM Invariance == Spec => []IInv
<1>1. IInv /\ [Next]_vars => IInv'
    BY TypeStep, LoadingStep, ExpiryStep DEF IInv
<1> QED BY InitIInv, <1>1, PTL DEF Spec

\* The caches, the row and the requests keep their types.
THEOREM TypeCorrect == Spec => []TypeOK
<1>1. IInv => TypeOK
    BY DEF IInv
<1> QED BY Invariance, <1>1, PTL

\* An instance never has two loads under way: what try_get_with promises to the
\* Redis and the replica behind it.
THEOREM LoadsAreSingle == Spec => []SingleFlight
<1>1. IInv => SingleFlight
    BY DEF IInv, TypeOK, LoadingLeads, SingleFlight
<1> QED BY Invariance, <1>1, PTL

\* A Redis key outlives the row's expiry at most by the delay of a SETEX.
THEOREM KeysExpire == Spec => []RedisOutlivesRowBriefly
<1>1. IInv => RedisOutlivesRowBriefly
    BY DEF IInv, ExpiryInv
<1> QED BY Invariance, <1>1, PTL

----------------------------------------------------------------------------
(* How old an answer is.  What a value says was true at some date: a miss  *)
(* when the replica had no row, a hit when the row, or its key in Redis,   *)
(* was there.  The date is at least that of the load, later by the life of *)
(* the entry and by the request that found it; this is what dates them.    *)

\* What is said of a value that is dated t, or k seconds earlier.
Known(v, t, k, absent, latest, settled) ==
    /\ v.kind = "miss" => t <= absent + k
    /\ v.kind = "hit" => /\ v.exp <= latest \/ t <= latest + FillDelay + k
                         /\ \A s \in settled : t <= s + k

EntriesLive ==
    \A i \in Instances : \A e \in l1[i] :
        now < e.until /\ e.until <= now + L1Ttl

RequestsInTime ==
    \A r \in Requests : pc[r] # "idle" =>
        since[r] <= now /\ now <= since[r] + RequestTime

AbsenceDated == absentAt <= now /\ (replica = {} => absentAt = now)

KeysLive ==
    /\ \A d \in redis : now < d
    /\ \A r \in Requests : \A f \in fill[r] : f.stage = "setting" => f.arg > 0

\* Once a DEL has run with nothing left that could refill, nothing does: the
\* code is not issued twice, and there is no row to reactivate.
SettledForGood ==
    /\ row # {} => born
    /\ del = "evict" => born /\ row = {}
    /\ \A s \in settledAt : /\ s <= now /\ born /\ row = {} /\ replica = {}
                            /\ redis = {} /\ \A r \in Requests : fill[r] = {}

ClockInv ==
    EntriesLive /\ RequestsInTime /\ AbsenceDated /\ KeysLive /\ SettledForGood

LoadsKnown ==
    \A r \in Requests : pc[r] = "loaded" =>
        Known(val[r], since[r], 0, absentAt, lastExpiry, settledAt)

EntriesKnown ==
    \A i \in Instances : \A e \in l1[i] :
        Known(e.val, e.until, RequestTime + L1Ttl, absentAt, lastExpiry,
              settledAt)

AnswersKnown ==
    \A r \in Requests : pc[r] = "got" =>
        Known(val[r], since[r] + 1, RequestTime + L1Ttl, absentAt, lastExpiry,
              settledAt)

KnownInv == LoadsKnown /\ EntriesKnown /\ AnswersKnown

AgeInv == ClockInv /\ KnownInv

----------------------------------------------------------------------------
\* What is known stays known, also with more slack and of an earlier date.
LEMMA KnownLater ==
    ASSUME NEW v \in Value, NEW t \in Nat, NEW k \in Nat, NEW u \in Nat,
           NEW n \in Nat, u + k <= t + n,
           NEW a \in Nat, NEW b \in Nat, a <= b,
           NEW l \in Nat, NEW m \in Nat, l <= m,
           NEW S \in SUBSET Nat, NEW T \in SUBSET Nat,
           \A s \in T : s \in S \/ u <= s + n,
           Known(v, t, k, a, l, S)
    PROVE  Known(v, u, n, b, m, T)
<1>1. v.exp \in Nat /\ FillDelay \in Nat
    BY TimeFacts, DelayAssumption DEF Value
<1>2. ASSUME v.kind = "miss" PROVE u <= b + n
    BY <1>2 DEF Known
<1>3. ASSUME v.kind = "hit" PROVE v.exp <= m \/ u <= m + FillDelay + n
    <2>1. v.exp <= l \/ t <= l + FillDelay + k
        BY <1>3 DEF Known
    <2>2. CASE v.exp <= l
        BY <1>1, <2>2
    <2>3. CASE t <= l + FillDelay + k
        BY <1>1, <2>3
    <2> QED BY <2>1, <2>2, <2>3
<1>4. ASSUME v.kind = "hit", NEW s \in T PROVE u <= s + n
    <2>1. s \in Nat
        OBVIOUS
    <2>2. CASE s \in S
        <3>1. t <= s + k
            BY <1>4, <2>2 DEF Known
        <3> QED BY <2>1, <3>1
    <2> QED BY <2>2
<1> QED BY <1>2, <1>3, <1>4 DEF Known

\* The numbers of the model.
LEMMA AgeFacts ==
    ASSUME TypeOK
    PROVE  /\ now \in Nat /\ absentAt \in Nat /\ lastExpiry \in Nat
           /\ settledAt \in SUBSET Nat
           /\ RequestTime \in Nat /\ L1Ttl \in Nat /\ L1Ttl >= 1
           /\ RequestTime + L1Ttl \in Nat /\ FillDelay \in Nat
           /\ \A r \in Requests : val[r] \in Value /\ since[r] \in Nat
           /\ \A i \in Instances : \A e \in l1[i] :
                e.val \in Value /\ e.until \in Nat
<1>1. \A i \in Instances : l1[i] \subseteq Entry
    BY DEF TypeOK
<1>2. \A e \in Entry : e.val \in Value /\ e.until \in Nat
    BY DEF Entry
<1>3. \A r \in Requests : val[r] \in Value /\ since[r] \in Nat
    BY TimeFacts DEF TypeOK
<1>4. now \in Nat /\ absentAt \in Nat /\ lastExpiry \in Nat
    BY TimeFacts DEF TypeOK
<1>5. settledAt \in SUBSET Nat
    BY TimeFacts DEF TypeOK
<1>6. /\ RequestTime \in Nat /\ L1Ttl \in Nat /\ L1Ttl >= 1
      /\ RequestTime + L1Ttl \in Nat /\ FillDelay \in Nat
    BY DelayAssumption
<1> QED BY <1>1, <1>2, <1>3, <1>4, <1>5, <1>6

----------------------------------------------------------------------------
\* Nothing is cached or under way at first.
LEMMA AgeInit == Init => AgeInv
<1> SUFFICES ASSUME Init PROVE AgeInv
    OBVIOUS
<1>1. /\ l1 = [i \in Instances |-> {}] /\ pc = [r \in Requests |-> "idle"]
      /\ fill = [r \in Requests |-> {}]
      /\ absentAt = now /\ now \in Nat /\ redis = {} /\ settledAt = {}
      /\ row = {} /\ del = "no"
    BY DEF Init
<1>2. ClockInv
    BY <1>1 DEF ClockInv, EntriesLive, RequestsInTime, AbsenceDated, KeysLive,
                SettledForGood
<1>3. KnownInv
    BY <1>1 DEF KnownInv, LoadsKnown, EntriesKnown, AnswersKnown
<1> QED BY <1>2, <1>3 DEF AgeInv

\* Time does not go back, nor do the dates that are kept.
LEMMA DatesGrow ==
    ASSUME TypeOK, ClockInv, [Next]_vars
    PROVE  /\ now <= now' /\ absentAt <= absentAt' /\ lastExpiry <= lastExpiry'
           /\ \A s \in settledAt' : s \in settledAt \/ s = now
<1>0. now \in Nat /\ absentAt \in Nat /\ lastExpiry \in Nat /\ absentAt <= now
    BY AgeFacts DEF ClockInv, AbsenceDated
<1>1. CASE Tick
    <2>1. /\ now' = now + 1 /\ absentAt' \in {now + 1, absentAt}
          /\ UNCHANGED <<lastExpiry, settledAt>>
        BY <1>1 DEF Tick, store
    <2> QED BY <1>0, <2>1
<1>2. ASSUME NEW e \in Expiries, Create(e) \/ Reactivate(e)
      PROVE  /\ now <= now' /\ absentAt <= absentAt'
             /\ lastExpiry <= lastExpiry'
             /\ \A s \in settledAt' : s \in settledAt \/ s = now
    <2>1. /\ lastExpiry' = IF e > lastExpiry THEN e ELSE lastExpiry
          /\ UNCHANGED <<now, absentAt, settledAt>>
        BY <1>2 DEF Create, Reactivate, SetRow
    <2>2. e \in Nat
        BY TimeFacts
    <2> QED BY <1>0, <2>1, <2>2
<1>3. CASE Replicate
    <2>1. /\ absentAt' \in {now, absentAt}
          /\ UNCHANGED <<now, lastExpiry, settledAt>>
        BY <1>3 DEF Replicate, store
    <2> QED BY <1>0, <2>1
<1>4. CASE DelOk
    <2>1. /\ settledAt' \subseteq {now}
          /\ UNCHANGED <<now, lastExpiry, absentAt>>
        BY <1>4 DEF DelOk, store
    <2> QED BY <1>0, <2>1
<1>5. CASE UNCHANGED <<now, absentAt, lastExpiry, settledAt>>
    BY <1>0, <1>5
<1> QED
    BY <1>1, <1>2, <1>3, <1>4, <1>5
    DEF Next, Handle, DeleteRow, DelFails, RedisEvicts, Start, Retry, RedisGet,
        DbGet, LoadDone, Respond, Cancel, FillTtl, FillSet, InstanceCrash,
        store, vars

\* What was known of a load, an entry or an answer is known after any step.
LEMMA KnownStays ==
    ASSUME TypeOK, TypeOK', AgeInv, [Next]_vars
    PROVE  /\ \A r \in Requests : pc[r] = "loaded" =>
                Known(val[r], since[r], 0, absentAt', lastExpiry', settledAt')
           /\ \A i \in Instances : \A e \in l1[i] :
                Known(e.val, e.until, RequestTime + L1Ttl, absentAt',
                      lastExpiry', settledAt')
           /\ \A r \in Requests : pc[r] = "got" =>
                Known(val[r], since[r] + 1, RequestTime + L1Ttl, absentAt',
                      lastExpiry', settledAt')
<1>0. /\ now \in Nat /\ absentAt \in Nat /\ lastExpiry \in Nat
      /\ settledAt \in SUBSET Nat
      /\ absentAt' \in Nat /\ lastExpiry' \in Nat /\ settledAt' \in SUBSET Nat
      /\ RequestTime \in Nat /\ L1Ttl \in Nat /\ L1Ttl >= 1
      /\ RequestTime + L1Ttl \in Nat /\ 0 \in Nat
    <2>1. absentAt' \in Nat /\ lastExpiry' \in Nat /\ settledAt' \in SUBSET Nat
        BY TimeFacts DEF TypeOK
    <2> QED BY <2>1, AgeFacts
<1>1. /\ absentAt <= absentAt' /\ lastExpiry <= lastExpiry'
      /\ \A s \in settledAt' : s \in settledAt \/ s = now
    BY DatesGrow DEF AgeInv
<1>2. ASSUME NEW v \in Value, NEW t \in Nat, NEW k \in Nat, t <= now + k,
             Known(v, t, k, absentAt, lastExpiry, settledAt)
      PROVE  Known(v, t, k, absentAt', lastExpiry', settledAt')
    <2>1. \A s \in settledAt' : s \in settledAt \/ t <= s + k
        BY <1>1, <1>2
    <2>2. t + k <= t + k
        OBVIOUS
    <2> QED BY <1>0, <1>1, <1>2, <2>1, <2>2, KnownLater
<1>3. ASSUME NEW r \in Requests, pc[r] = "loaded"
      PROVE  Known(val[r], since[r], 0, absentAt', lastExpiry', settledAt')
    <2>1. Known(val[r], since[r], 0, absentAt, lastExpiry, settledAt)
        BY <1>3 DEF AgeInv, KnownInv, LoadsKnown
    <2>2. since[r] <= now /\ since[r] \in Nat /\ val[r] \in Value
        BY <1>3, AgeFacts DEF AgeInv, ClockInv, RequestsInTime
    <2>3. since[r] <= now + 0
        BY <1>0, <2>2
    <2> QED BY <1>0, <1>2, <2>1, <2>2, <2>3
<1>4. ASSUME NEW i \in Instances, NEW e \in l1[i]
      PROVE  Known(e.val, e.until, RequestTime + L1Ttl, absentAt', lastExpiry',
                   settledAt')
    <2>1. Known(e.val, e.until, RequestTime + L1Ttl, absentAt, lastExpiry,
                settledAt)
        BY DEF AgeInv, KnownInv, EntriesKnown
    <2>2. e.until <= now + L1Ttl /\ e.until \in Nat /\ e.val \in Value
        BY AgeFacts DEF AgeInv, ClockInv, EntriesLive
    <2>3. e.until <= now + (RequestTime + L1Ttl)
        BY <1>0, <2>2
    <2> QED BY <1>0, <1>2, <2>1, <2>2, <2>3
<1>5. ASSUME NEW r \in Requests, pc[r] = "got"
      PROVE  Known(val[r], since[r] + 1, RequestTime + L1Ttl, absentAt',
                   lastExpiry', settledAt')
    <2>1. Known(val[r], since[r] + 1, RequestTime + L1Ttl, absentAt, lastExpiry,
                settledAt)
        BY <1>5 DEF AgeInv, KnownInv, AnswersKnown
    <2>2. since[r] <= now /\ since[r] \in Nat /\ val[r] \in Value
        BY <1>5, AgeFacts DEF AgeInv, ClockInv, RequestsInTime
    <2>3. since[r] + 1 \in Nat /\ since[r] + 1 <= now + (RequestTime + L1Ttl)
        BY <1>0, <2>2
    <2> QED BY <1>0, <1>2, <2>1, <2>2, <2>3
<1> QED BY <1>3, <1>4, <1>5

----------------------------------------------------------------------------
\* No entry is kept past its time to live.
LEMMA EntriesStep ==
    ASSUME TypeOK, EntriesLive, [Next]_vars
    PROVE  EntriesLive'
<1>0. now \in Nat /\ L1Ttl \in Nat /\ L1Ttl >= 1
    BY AgeFacts
<1>1. CASE Tick
    <2> SUFFICES ASSUME NEW i \in Instances, NEW e \in l1[i], now + 1 < e.until
                 PROVE  e.until <= now + 1 + L1Ttl
        BY <1>1 DEF Tick, EntriesLive
    <2>1. e.until <= now + L1Ttl /\ e.until \in Nat
        BY AgeFacts DEF EntriesLive
    <2> QED BY <1>0, <2>1
<1>2. ASSUME NEW r \in Requests, LoadDone(r) PROVE EntriesLive'
    <2>1. /\ now' = now /\ l1' = [l1 EXCEPT ![inst[r]] = Cached(val[r])]
        BY <1>2 DEF LoadDone
    <2>2. \A e \in Cached(val[r]) : e.until = now + L1Ttl
        BY DEF Cached
    <2>3. now < now + L1Ttl /\ now + L1Ttl <= now + L1Ttl
        BY <1>0
    <2>4. \A i \in Instances : l1'[i] = l1[i] \/ l1'[i] = Cached(val[r])
        BY <2>1 DEF TypeOK
    <2> QED BY <2>1, <2>2, <2>3, <2>4 DEF EntriesLive
<1>3. ASSUME now' = now, \A i \in Instances : l1'[i] \subseteq l1[i]
      PROVE  EntriesLive'
    BY <1>3 DEF EntriesLive
<1>4. ASSUME NEW r \in Requests, Respond(r) PROVE EntriesLive'
    BY <1>3, <1>4 DEF Respond, TypeOK
<1>5. ASSUME NEW i \in Instances, InstanceCrash(i) PROVE EntriesLive'
    BY <1>3, <1>5 DEF InstanceCrash, TypeOK
<1>6. CASE UNCHANGED <<now, l1>>
    BY <1>6 DEF EntriesLive
<1> QED
    BY <1>1, <1>2, <1>4, <1>5, <1>6
    DEF Next, Handle, Create, Reactivate, Replicate, DeleteRow, DelOk, DelFails,
        RedisEvicts, Start, Retry, RedisGet, DbGet, Cancel, FillTtl, FillSet,
        request, vars

\* No request is under way for longer than its time.
LEMMA InTimeStep ==
    ASSUME TypeOK, RequestsInTime, [Next]_vars
    PROVE  RequestsInTime'
<1>0. now \in Nat /\ RequestTime \in Nat
    BY AgeFacts
<1>1. CASE Tick
    <2> SUFFICES ASSUME NEW r \in Requests, pc[r] # "idle"
                 PROVE  since[r] <= now + 1 /\ now + 1 <= since[r] + RequestTime
        BY <1>1 DEF Tick, RequestsInTime, request
    <2>1. since[r] <= now /\ now < since[r] + RequestTime /\ since[r] \in Nat
        BY <1>1, AgeFacts DEF Tick, RequestsInTime
    <2> QED BY <1>0, <2>1
<1>2. ASSUME now' = now,
             \A r \in Requests : \/ pc'[r] = "idle"
                                 \/ since'[r] = now
                                 \/ pc[r] # "idle" /\ since'[r] = since[r]
      PROVE  RequestsInTime'
    <2>1. now <= now /\ now <= now + RequestTime
        BY <1>0
    <2> QED BY <1>2, <2>1 DEF RequestsInTime
<1>3. ASSUME NEW r \in Requests, NEW i \in Instances, Start(r, i)
      PROVE  RequestsInTime'
    <2>1. /\ now' = now /\ since' = [since EXCEPT ![r] = now]
          /\ \E place \in {"got", "redis", "wait"} : Goto(r, place)
        BY <1>3 DEF Start, Lookup
    <2>2. \A s \in Requests \ {r} : pc'[s] = pc[s] /\ since'[s] = since[s]
        BY <2>1 DEF TypeOK, Goto
    <2>3. since'[r] = now
        BY <2>1 DEF TypeOK
    <2> QED BY <1>2, <2>1, <2>2, <2>3
<1>4. ASSUME NEW r \in Requests, NEW place \in {"got", "redis", "wait", "db", "loaded"},
             pc[r] # "idle", Goto(r, place), UNCHANGED <<now, since>>
      PROVE  RequestsInTime'
    <2>1. \A s \in Requests : pc'[s] = pc[s] \/ pc[s] # "idle"
        BY <1>4 DEF TypeOK, Goto
    <2> QED BY <1>2, <1>4, <2>1
<1>5. ASSUME NEW r \in Requests, Retry(r) \/ RedisGet(r) \/ DbGet(r)
      PROVE  RequestsInTime'
    <2>1. /\ pc[r] # "idle" /\ UNCHANGED <<now, since>>
          /\ \E place \in {"got", "redis", "wait", "db", "loaded"} : Goto(r, place)
        BY <1>5 DEF Retry, Lookup, RedisGet, DbGet
    <2> QED BY <1>4, <2>1
<1>6. ASSUME NEW r \in Requests, LoadDone(r) PROVE RequestsInTime'
    <2>1. UNCHANGED <<now, since>>
        BY <1>6 DEF LoadDone
    <2>2. \A s \in Requests : pc'[s] = pc[s] \/ pc[s] # "idle"
        BY <1>6 DEF LoadDone
    <2> QED BY <1>2, <2>1, <2>2
<1>7. ASSUME NEW r \in Requests, Respond(r) \/ Cancel(r) PROVE RequestsInTime'
    <2>1. /\ now' = now /\ since' = [since EXCEPT ![r] = 0] /\ Goto(r, "idle")
        BY <1>7 DEF Respond, Cancel
    <2>2. \A s \in Requests \ {r} : pc'[s] = pc[s] /\ since'[s] = since[s]
        BY <2>1 DEF TypeOK, Goto
    <2>3. pc'[r] = "idle"
        BY <2>1 DEF TypeOK, Goto
    <2> QED BY <1>2, <2>1, <2>2, <2>3
<1>8. ASSUME NEW i \in Instances, InstanceCrash(i) PROVE RequestsInTime'
    <2>1. /\ now' = now
          /\ \A r \in Requests : \/ pc'[r] = "idle"
                                 \/ pc'[r] = pc[r] /\ since'[r] = since[r]
        BY <1>8 DEF InstanceCrash
    <2> QED BY <1>2, <2>1
<1>9. CASE UNCHANGED <<now, pc, since>>
    BY <1>9 DEF RequestsInTime
<1> QED
    BY <1>1, <1>3, <1>5, <1>6, <1>7, <1>8, <1>9
    DEF Next, Handle, Create, Reactivate, Replicate, DeleteRow, DelOk, DelFails,
        RedisEvicts, FillTtl, FillSet, request, vars

\* The replica is known to be empty at the time it is.
LEMMA AbsenceStep ==
    ASSUME TypeOK, AbsenceDated, [Next]_vars
    PROVE  AbsenceDated'
<1>0. now \in Nat /\ absentAt \in Nat /\ absentAt <= now
    BY AgeFacts DEF AbsenceDated
<1>1. CASE Tick
    <2>1. /\ now' = now + 1 /\ replica' = replica
          /\ absentAt' = IF replica = {} THEN now + 1 ELSE absentAt
        BY <1>1 DEF Tick
    <2> QED BY <1>0, <2>1 DEF AbsenceDated
<1>2. CASE Replicate
    <2>1. /\ now' = now /\ replica' = row
          /\ absentAt' = IF replica = {} \/ row = {} THEN now ELSE absentAt
        BY <1>2 DEF Replicate
    <2> QED BY <1>0, <2>1 DEF AbsenceDated
<1>3. CASE UNCHANGED <<now, replica, absentAt>>
    BY <1>3 DEF AbsenceDated
<1> QED
    BY <1>1, <1>2, <1>3
    DEF Next, Handle, Create, Reactivate, DeleteRow, DelOk, DelFails,
        RedisEvicts, Start, Retry, RedisGet, DbGet, LoadDone, Respond, Cancel,
        FillTtl, FillSet, InstanceCrash, vars

\* No key is kept past its TTL, and none is set with a TTL of nothing.
LEMMA KeysStep ==
    ASSUME TypeOK, KeysLive, [Next]_vars
    PROVE  KeysLive'
<1>0. now \in Nat /\ Never \in Nat /\ now < Never
    BY TimeFacts DEF TypeOK
<1>1. CASE Tick
    <2>1. /\ now' = now + 1 /\ now + 1 <= MaxTime
          /\ redis' = {d \in redis : d = Never \/ now + 1 < d}
          /\ fill' = fill
        BY <1>0, <1>1, DelayAssumption DEF Tick
    <2>2. now + 1 < Never
        BY <1>0, <2>1, NeverAssumption, DelayAssumption
    <2> QED BY <2>1, <2>2 DEF KeysLive
<1>2. ASSUME now' = now, redis' \subseteq redis,
             \A r \in Requests : \A f \in fill'[r] :
                \/ f \in fill[r] \/ f.stage # "setting" \/ f.arg > 0
      PROVE  KeysLive'
    BY <1>2 DEF KeysLive
<1>3. ASSUME NEW r \in Requests, DbGet(r) PROVE KeysLive'
    <2>1. /\ UNCHANGED <<now, redis>>
          /\ \/ fill' = fill
             \/ \E e \in replica : fill' = [fill EXCEPT ![r] = {Spawned(e)}]
        BY <1>3 DEF DbGet
    <2>2. \A e \in replica : Spawned(e).stage # "setting"
        BY DEF Spawned
    <2> QED BY <1>2, <2>1, <2>2 DEF TypeOK
<1>4. ASSUME NEW r \in Requests, FillTtl(r) PROVE KeysLive'
    <2>1. PICK f \in fill[r] :
            fill' = [fill EXCEPT ![r] =
                    IF f.arg = Never THEN {Setting(Never, now)}
                    ELSE IF f.arg > now THEN {Setting(f.arg - now, now)}
                    ELSE {}]
        BY <1>4 DEF FillTtl
    <2>2. f.arg \in Nat
        BY NumberFacts
    <2>3. /\ Setting(Never, now).arg > 0
          /\ f.arg > now => Setting(f.arg - now, now).arg > 0
        BY <1>0, <2>2 DEF Setting
    <2>4. UNCHANGED <<now, redis>>
        BY <1>4 DEF FillTtl
    <2>5. \A g \in fill'[r] : g.arg > 0
        BY <2>1, <2>3 DEF TypeOK
    <2>6. \A s \in Requests \ {r} : fill'[s] = fill[s]
        BY <2>1 DEF TypeOK
    <2> QED BY <1>2, <2>4, <2>5, <2>6
<1>5. ASSUME NEW r \in Requests, FillSet(r) PROVE KeysLive'
    <2>1. PICK f \in fill[r] :
            /\ f.stage = "setting"
            /\ \/ redis' = {IF f.arg = Never THEN Never ELSE now + f.arg}
               \/ UNCHANGED redis
        BY <1>5 DEF FillSet
    <2>2. f.arg > 0 /\ f.arg \in Nat
        BY <2>1, NumberFacts DEF KeysLive
    <2>3. now < now + f.arg
        BY <1>0, <2>2
    <2>4. \A d \in redis' : now < d
        BY <1>0, <2>1, <2>3 DEF KeysLive
    <2>5. now' = now /\ \A s \in Requests : fill'[s] \subseteq fill[s]
        BY <1>5 DEF FillSet, TypeOK
    <2> QED BY <2>4, <2>5 DEF KeysLive
<1>6. ASSUME NEW i \in Instances, InstanceCrash(i) PROVE KeysLive'
    <2>1. \A s \in Requests : fill'[s] \subseteq fill[s]
        BY <1>6 DEF InstanceCrash
    <2> QED BY <1>2, <1>6, <2>1 DEF InstanceCrash
<1>7. CASE DelOk \/ RedisEvicts
    BY <1>2, <1>7 DEF DelOk, RedisEvicts
<1>8. CASE UNCHANGED <<now, redis, fill>>
    BY <1>8 DEF KeysLive
<1> QED
    BY <1>1, <1>3, <1>4, <1>5, <1>6, <1>7, <1>8
    DEF Next, Handle, Create, Reactivate, Replicate, DeleteRow, DelFails, Start,
        Retry, RedisGet, LoadDone, Respond, Cancel, vars

\* A deletion that has settled stays settled.
LEMMA SettledStep ==
    ASSUME TypeOK, SettledForGood, [Next]_vars
    PROVE  SettledForGood'
<1>0. now \in Nat /\ now' \in Nat /\ settledAt \subseteq Nat
    BY TypeStep, TimeFacts DEF TypeOK
<1>1. CASE Tick
    <2>1. /\ now' = now + 1 /\ redis' \subseteq redis
          /\ UNCHANGED <<row, born, del, replica, fill, settledAt>>
        BY <1>1 DEF Tick, store
    <2>2. \A s \in settledAt : s <= now'
        BY <1>0, <2>1 DEF SettledForGood
    <2> QED BY <2>1, <2>2 DEF SettledForGood
<1>2. ASSUME NEW e \in Expiries, Create(e) PROVE SettledForGood'
    <2>1. ~born /\ born' /\ UNCHANGED <<del, settledAt>>
        BY <1>2 DEF Create
    <2> QED BY <2>1 DEF SettledForGood
<1>3. ASSUME NEW e \in Expiries, Reactivate(e) PROVE SettledForGood'
    <2>1. row # {} /\ UNCHANGED <<born, del, settledAt>>
        BY <1>3 DEF Reactivate
    <2> QED BY <2>1 DEF SettledForGood
<1>4. CASE Replicate
    BY <1>4 DEF Replicate, store, SettledForGood
<1>5. CASE DeleteRow
    BY <1>5 DEF DeleteRow, SettledForGood
<1>6. CASE DelOk
    <2>1. /\ UNCHANGED <<now, row, born, replica, fill>> /\ del' = "done"
          /\ redis' = {} /\ del = "evict"
          /\ settledAt' = IF replica = {} /\ \A r \in Requests : fill[r] = {}
                          THEN {now} ELSE {}
        BY <1>6 DEF DelOk, store
    <2>2. now <= now
        BY <1>0
    <2> QED BY <2>1, <2>2 DEF SettledForGood
<1>7. CASE DelFails
    BY <1>7 DEF DelFails, store, SettledForGood
<1>8. CASE RedisEvicts
    BY <1>8 DEF RedisEvicts, store, SettledForGood
<1>9. ASSUME UNCHANGED <<now, row, born, replica, del, settledAt>>,
             settledAt # {} => \/ UNCHANGED <<redis, fill>>
                               \/ redis' = {} /\ \A r \in Requests : fill'[r] = {}
      PROVE  SettledForGood'
    BY <1>9 DEF SettledForGood
<1>10. ASSUME NEW r \in Requests, DbGet(r) PROVE SettledForGood'
    <2>1. settledAt # {} => replica = {}
        BY DEF SettledForGood
    <2>2. replica = {} => fill' = fill
        BY <1>10 DEF DbGet
    <2> QED BY <1>9, <1>10, <2>1, <2>2 DEF DbGet, store
<1>11. ASSUME NEW r \in Requests, FillTtl(r) \/ FillSet(r)
       PROVE  SettledForGood'
    <2>1. settledAt = {}
        <3>1. fill[r] # {}
            BY <1>11 DEF FillTtl, FillSet
        <3> QED BY <3>1 DEF SettledForGood
    <2> QED BY <1>9, <1>11, <2>1 DEF FillTtl, FillSet, store
<1>12. ASSUME NEW i \in Instances, InstanceCrash(i) PROVE SettledForGood'
    <2>1. settledAt # {} => \A r \in Requests : fill'[r] = {}
        BY <1>12 DEF InstanceCrash, SettledForGood
    <2>2. settledAt # {} => redis = {}
        BY DEF SettledForGood
    <2> QED BY <1>9, <1>12, <2>1, <2>2 DEF InstanceCrash, store
<1>13. CASE UNCHANGED <<now, row, born, replica, del, settledAt, redis, fill>>
    BY <1>9, <1>13
<1> QED
    BY <1>1, <1>2, <1>3, <1>4, <1>5, <1>6, <1>7, <1>8, <1>10, <1>11, <1>12, <1>13
    DEF Next, Handle, Start, Retry, RedisGet, LoadDone, Respond, Cancel, store,
        vars

\* A step keeps the dates of what it leaves alone, and dates what it adds.
LEMMA KnownByParts ==
    ASSUME TypeOK, TypeOK', AgeInv, [Next]_vars,
           \A r \in Requests :
              \/ pc'[r] \notin {"loaded", "got"}
              \/ pc'[r] = pc[r] /\ val'[r] = val[r] /\ since'[r] = since[r]
              \/ /\ pc'[r] = "loaded"
                 /\ Known(val'[r], since'[r], 0, absentAt', lastExpiry',
                          settledAt')
              \/ /\ pc'[r] = "got"
                 /\ Known(val'[r], since'[r] + 1, RequestTime + L1Ttl,
                          absentAt', lastExpiry', settledAt'),
           \A i \in Instances : \A e \in l1'[i] :
              \/ e \in l1[i]
              \/ Known(e.val, e.until, RequestTime + L1Ttl, absentAt',
                       lastExpiry', settledAt')
    PROVE  KnownInv'
<1>1. ASSUME NEW r \in Requests, pc'[r] = "loaded"
      PROVE  Known(val'[r], since'[r], 0, absentAt', lastExpiry', settledAt')
    BY <1>1, KnownStays
<1>2. ASSUME NEW r \in Requests, pc'[r] = "got"
      PROVE  Known(val'[r], since'[r] + 1, RequestTime + L1Ttl, absentAt',
                   lastExpiry', settledAt')
    BY <1>2, KnownStays
<1>3. ASSUME NEW i \in Instances, NEW e \in l1'[i]
      PROVE  Known(e.val, e.until, RequestTime + L1Ttl, absentAt', lastExpiry',
                   settledAt')
    BY <1>3, KnownStays
<1> QED BY <1>1, <1>2, <1>3 DEF KnownInv, LoadsKnown, AnswersKnown, EntriesKnown

\* A look-up takes what an entry says at the date of the entry.
LEMMA KnownLookup ==
    ASSUME TypeOK, TypeOK', AgeInv, [Next]_vars,
           NEW r \in Requests, NEW i \in Instances, Lookup(r, i), l1' = l1,
           since'[r] <= now, \A s \in Requests \ {r} : since'[s] = since[s]
    PROVE  KnownInv'
<1>0. /\ now \in Nat /\ since'[r] \in Nat
      /\ absentAt' \in Nat /\ lastExpiry' \in Nat /\ settledAt' \in SUBSET Nat
      /\ RequestTime + L1Ttl \in Nat
    <2>1. since'[r] \in Nat /\ absentAt' \in Nat /\ lastExpiry' \in Nat
        BY TimeFacts DEF TypeOK
    <2>2. settledAt' \in SUBSET Nat
        BY TimeFacts DEF TypeOK
    <2> QED BY <2>1, <2>2, AgeFacts
<1>1. \A s \in Requests \ {r} :
        pc'[s] = pc[s] /\ val'[s] = val[s] /\ since'[s] = since[s]
    BY DEF Lookup, Goto, TypeOK
<1>2. CASE pc'[r] \in {"redis", "wait"}
    BY <1>1, <1>2, KnownByParts
<1>3. ASSUME NEW e \in l1[i], val'[r] = e.val, pc'[r] = "got"
      PROVE  KnownInv'
    <2>1. Known(e.val, e.until, RequestTime + L1Ttl, absentAt', lastExpiry',
                settledAt')
        BY KnownStays
    <2>2. now < e.until /\ e.until \in Nat /\ e.val \in Value
        BY AgeFacts DEF AgeInv, ClockInv, EntriesLive
    <2>3. /\ since'[r] + 1 \in Nat
          /\ since'[r] + 1 + (RequestTime + L1Ttl)
                <= e.until + (RequestTime + L1Ttl)
          /\ absentAt' <= absentAt' /\ lastExpiry' <= lastExpiry'
        BY <1>0, <2>2
    <2>4. Known(e.val, since'[r] + 1, RequestTime + L1Ttl, absentAt',
                lastExpiry', settledAt')
        <3> DEFINE age == RequestTime + L1Ttl
                   start == since'[r] + 1
        <3>1. /\ age \in Nat /\ start \in Nat /\ start + age <= e.until + age
              /\ Known(e.val, e.until, age, absentAt', lastExpiry', settledAt')
            BY <1>0, <2>1, <2>3
        <3>2. \A s \in settledAt' : s \in settledAt' \/ start <= s + age
            OBVIOUS
        <3> HIDE DEF age, start
        <3>3. Known(e.val, start, age, absentAt', lastExpiry', settledAt')
            BY <1>0, <2>2, <2>3, <3>1, <3>2, KnownLater
        <3> QED BY <3>3 DEF age, start
    <2> QED BY <1>1, <1>3, <2>4, KnownByParts
<1> QED BY <1>2, <1>3 DEF Lookup, Goto, TypeOK

\* A load dates what it found.
LEMMA KnownLoad ==
    ASSUME TypeOK, TypeOK', KnownExpiries, RedisOutlivesRowBriefly, AgeInv,
           [Next]_vars, NEW r \in Requests, RedisGet(r) \/ DbGet(r)
    PROVE  KnownInv'
<1>0. /\ now \in Nat /\ since[r] \in Nat /\ lastExpiry \in Nat
      /\ FillDelay \in Nat
    BY AgeFacts
<1>1. /\ UNCHANGED <<l1, since, absentAt, lastExpiry, settledAt>>
      /\ \A s \in Requests \ {r} : pc'[s] = pc[s] /\ val'[s] = val[s]
    BY DEF RedisGet, DbGet, Goto, TypeOK, store
<1>2. since[r] <= now
    <2>1. pc[r] # "idle"
        BY DEF RedisGet, DbGet
    <2> QED BY <2>1 DEF AgeInv, ClockInv, RequestsInTime
<1>3. ASSUME pc'[r] = "loaded",
             Known(val'[r], since[r], 0, absentAt, lastExpiry, settledAt)
      PROVE  KnownInv'
    BY <1>1, <1>3, KnownByParts
<1>4. CASE pc'[r] = "db"
    BY <1>1, <1>4, KnownByParts
<1>5. CASE redis # {} /\ val'[r] = Hit(Never) /\ pc'[r] = "loaded"
    <2>1. PICK d \in redis : now < d /\ d <= lastExpiry + FillDelay /\ d \in Nat
        BY <1>5 DEF AgeInv, ClockInv, KeysLive, RedisOutlivesRowBriefly, TypeOK
    <2>2. since[r] <= lastExpiry + FillDelay + 0
        BY <1>0, <1>2, <2>1
    <2>3. settledAt = {}
        BY <1>5 DEF AgeInv, ClockInv, SettledForGood
    <2> QED BY <1>3, <1>5, <2>2, <2>3 DEF Known, Hit
<1>6. ASSUME NEW e \in replica, val'[r] = Hit(e), pc'[r] = "loaded"
      PROVE  KnownInv'
    <2>1. e <= lastExpiry
        BY DEF KnownExpiries
    <2>2. settledAt = {}
        BY DEF AgeInv, ClockInv, SettledForGood
    <2> QED BY <1>3, <1>6, <2>1, <2>2 DEF Known, Hit
<1>7. CASE replica = {} /\ val'[r] = Miss /\ pc'[r] = "loaded"
    <2>1. absentAt = now
        BY <1>7 DEF AgeInv, ClockInv, AbsenceDated
    <2>2. since[r] <= absentAt + 0
        BY <1>0, <1>2, <2>1
    <2> QED BY <1>3, <1>7, <2>2 DEF Known, Miss
<1>8. CASE val'[r] = Failed /\ pc'[r] = "loaded"
    BY <1>3, <1>8 DEF Known, Failed
<1>9. CASE RedisGet(r)
    BY <1>4, <1>5, <1>9 DEF RedisGet, Goto, TypeOK
<1>10. CASE DbGet(r)
    BY <1>6, <1>7, <1>8, <1>10 DEF DbGet, Goto, TypeOK
<1> QED BY <1>9, <1>10

\* The end of a load dates the entry and the answers of those it serves.
LEMMA KnownDone ==
    ASSUME TypeOK, TypeOK', AgeInv, [Next]_vars,
           NEW r \in Requests, LoadDone(r)
    PROVE  KnownInv'
<1> DEFINE served(s) == s = r \/ (pc[s] = "wait" /\ inst[s] = inst[r])
           age == RequestTime + L1Ttl
<1>0. /\ now \in Nat /\ absentAt \in Nat /\ lastExpiry \in Nat
      /\ settledAt \in SUBSET Nat
      /\ RequestTime \in Nat /\ L1Ttl \in Nat /\ L1Ttl >= 1 /\ age \in Nat
      /\ val[r] \in Value /\ since[r] \in Nat
    BY AgeFacts
<1>1. /\ l1' = [l1 EXCEPT ![inst[r]] = Cached(val[r])]
      /\ UNCHANGED <<since, absentAt, lastExpiry, settledAt>>
      /\ pc[r] = "loaded"
      /\ \A s \in Requests :
            IF served(s) THEN pc'[s] = "got" /\ val'[s] = val[r]
                         ELSE pc'[s] = pc[s] /\ val'[s] = val[s]
    BY DEF LoadDone, store
<1>2. /\ now <= since[r] + RequestTime
      /\ Known(val[r], since[r], 0, absentAt, lastExpiry, settledAt)
    BY <1>1 DEF AgeInv, ClockInv, RequestsInTime, KnownInv, LoadsKnown
<1>3. ASSUME NEW u \in Nat, u <= now + L1Ttl
      PROVE  Known(val[r], u, age, absentAt, lastExpiry, settledAt)
    <2>1. u + 0 <= since[r] + age /\ 0 \in Nat
        BY <1>0, <1>2, <1>3
    <2>2. absentAt <= absentAt /\ lastExpiry <= lastExpiry
        BY <1>0
    <2> HIDE DEF age
    <2> QED BY <1>0, <1>2, <2>1, <2>2, KnownLater
<1>4. ASSUME NEW s \in Requests, served(s)
      PROVE  Known(val'[s], since'[s] + 1, age, absentAt', lastExpiry',
                   settledAt')
    <2>1. pc[s] # "idle"
        BY <1>1, <1>4
    <2>2. since[s] <= now /\ since[s] \in Nat
        BY <2>1, AgeFacts DEF AgeInv, ClockInv, RequestsInTime
    <2>3. since[s] + 1 \in Nat /\ since[s] + 1 <= now + L1Ttl
        BY <1>0, <2>2
    <2>4. Known(val[r], since[s] + 1, age, absentAt, lastExpiry, settledAt)
        BY <1>3, <2>3
    <2>5. val'[s] = val[r]
        BY <1>1, <1>4
    <2> QED BY <1>1, <2>4, <2>5
<1>5. ASSUME NEW i \in Instances, NEW e \in l1'[i], e \notin l1[i]
      PROVE  Known(e.val, e.until, age, absentAt', lastExpiry', settledAt')
    <2>1. e \in Cached(val[r])
        BY <1>1, <1>5 DEF TypeOK
    <2>2. e.val = val[r] /\ e.until = now + L1Ttl
        BY <2>1 DEF Cached
    <2>3. now + L1Ttl \in Nat /\ now + L1Ttl <= now + L1Ttl
        BY <1>0
    <2> QED BY <1>1, <1>3, <2>2, <2>3
<1>6. \A s \in Requests :
        \/ pc'[s] = pc[s] /\ val'[s] = val[s] /\ since'[s] = since[s]
        \/ pc'[s] = "got" /\ served(s)
    BY <1>1
<1> HIDE DEF served
<1> QED BY <1>4, <1>5, <1>6, KnownByParts

\* Every step keeps the dates of the loads, the entries and the answers.
LEMMA KnownStep ==
    ASSUME IInv, TypeOK', AgeInv, [Next]_vars
    PROVE  KnownInv'
<1> USE DEF IInv
<1>1. ASSUME \A i \in Instances : l1'[i] \subseteq l1[i],
             \A r \in Requests :
                \/ pc'[r] = "idle"
                \/ pc'[r] = pc[r] /\ val'[r] = val[r] /\ since'[r] = since[r]
      PROVE  KnownInv'
    BY <1>1, KnownByParts
<1>2. CASE Tick
    <2>1. /\ \A i \in Instances : l1'[i] \subseteq l1[i]
          /\ UNCHANGED request
        BY <1>2 DEF Tick
    <2> QED BY <1>1, <2>1 DEF request
<1>3. ASSUME NEW r \in Requests, NEW i \in Instances, Start(r, i)
      PROVE  KnownInv'
    <2>1. /\ Lookup(r, i) /\ l1' = l1 /\ since' = [since EXCEPT ![r] = now]
        BY <1>3 DEF Start
    <2>2. /\ since'[r] = now
          /\ \A s \in Requests \ {r} : since'[s] = since[s]
        BY <2>1 DEF TypeOK
    <2>3. now <= now
        BY AgeFacts
    <2> QED BY <2>1, <2>2, <2>3, KnownLookup
<1>4. ASSUME NEW r \in Requests, Retry(r) PROVE KnownInv'
    <2>1. /\ Lookup(r, inst[r]) /\ UNCHANGED <<l1, since>> /\ pc[r] = "wait"
        BY <1>4 DEF Retry
    <2>2. since'[r] <= now /\ inst[r] \in Instances
        BY <2>1 DEF AgeInv, ClockInv, RequestsInTime, TypeOK
    <2> QED BY <2>1, <2>2, KnownLookup
<1>5. ASSUME NEW r \in Requests, RedisGet(r) \/ DbGet(r) PROVE KnownInv'
    BY <1>5, KnownLoad DEF ExpiryInv
<1>6. ASSUME NEW r \in Requests, LoadDone(r) PROVE KnownInv'
    BY <1>6, KnownDone
<1>7. ASSUME NEW r \in Requests, Respond(r) \/ Cancel(r) PROVE KnownInv'
    <2>1. /\ Goto(r, "idle") /\ val' = [val EXCEPT ![r] = Miss]
          /\ since' = [since EXCEPT ![r] = 0]
          /\ l1' = l1 \/ l1' = [l1 EXCEPT ![inst[r]] = {}]
        BY <1>7 DEF Respond, Cancel
    <2>2. \A i \in Instances : l1'[i] \subseteq l1[i]
        BY <2>1 DEF TypeOK
    <2>3. \A s \in Requests :
            \/ pc'[s] = "idle"
            \/ pc'[s] = pc[s] /\ val'[s] = val[s] /\ since'[s] = since[s]
        BY <2>1 DEF TypeOK, Goto
    <2> QED BY <1>1, <2>2, <2>3
<1>8. ASSUME NEW i \in Instances, InstanceCrash(i) PROVE KnownInv'
    <2>1. \A j \in Instances : l1'[j] \subseteq l1[j]
        BY <1>8 DEF InstanceCrash, TypeOK
    <2>2. \A s \in Requests :
            \/ pc'[s] = "idle"
            \/ pc'[s] = pc[s] /\ val'[s] = val[s] /\ since'[s] = since[s]
        BY <1>8 DEF InstanceCrash
    <2> QED BY <1>1, <2>1, <2>2
<1>9. CASE UNCHANGED <<l1, request>>
    BY <1>1, <1>9 DEF request
<1> QED
    BY <1>2, <1>3, <1>4, <1>5, <1>6, <1>7, <1>8, <1>9
    DEF Next, Handle, Create, Reactivate, Replicate, DeleteRow, DelOk, DelFails,
        RedisEvicts, FillTtl, FillSet, vars

\* The dates hold in every reachable state.
LEMMA AgeInvariance == Spec => [](IInv /\ AgeInv)
<1>1. IInv /\ AgeInv /\ [Next]_vars => (IInv /\ AgeInv)'
    <2> SUFFICES ASSUME IInv, AgeInv, [Next]_vars PROVE (IInv /\ AgeInv)'
        OBVIOUS
    <2>1. IInv'
        BY TypeStep, LoadingStep, ExpiryStep DEF IInv
    <2>2. ClockInv'
        BY EntriesStep, InTimeStep, AbsenceStep, KeysStep, SettledStep
        DEF IInv, AgeInv, ClockInv
    <2>3. KnownInv'
        BY <2>1, KnownStep DEF IInv
    <2> QED BY <2>1, <2>2, <2>3 DEF AgeInv
<1> QED BY InitIInv, AgeInit, <1>1, PTL DEF Spec

\* What is known of an answer when it is sent.
LEMMA AnswerFacts ==
    ASSUME IInv, AgeInv, NEW r \in Requests, pc[r] = "got"
    PROVE  /\ now \in Nat /\ since[r] \in Nat /\ now <= since[r] + RequestTime
           /\ absentAt \in Nat /\ lastExpiry \in Nat /\ settledAt \subseteq Nat
           /\ RequestTime \in Nat /\ L1Ttl \in Nat /\ L1Ttl >= 1
           /\ FillDelay \in Nat /\ val[r].exp \in Nat
           /\ val[r].kind = "miss" =>
                since[r] + 1 <= absentAt + (RequestTime + L1Ttl)
           /\ val[r].kind = "hit" =>
                /\ \/ val[r].exp <= lastExpiry
                   \/ since[r] + 1 <= lastExpiry + FillDelay
                                        + (RequestTime + L1Ttl)
                /\ \A s \in settledAt :
                        since[r] + 1 <= s + (RequestTime + L1Ttl)
<1>1. Known(val[r], since[r] + 1, RequestTime + L1Ttl, absentAt, lastExpiry,
            settledAt)
    BY DEF AgeInv, KnownInv, AnswersKnown
<1>2. now <= since[r] + RequestTime
    BY DEF AgeInv, ClockInv, RequestsInTime
<1>3. val[r].exp \in Nat
    BY AgeFacts, TimeFacts DEF IInv, Value
<1> QED BY <1>1, <1>2, <1>3, AgeFacts DEF IInv, Known

\* A redirect is the answer to a hit that has not expired.
LEMMA RedirectIsHit ==
    ASSUME TypeOK, NEW r \in Requests
    PROVE  /\ Sends(r, "307") => /\ pc[r] = "got" /\ val[r].kind = "hit"
                                 /\ ~(val[r].exp < now)
           /\ Sends(r, "404") => pc[r] = "got" /\ val[r].kind = "miss"
<1>1. val[r].kind \in {"hit", "miss", "error"}
    BY AgeFacts DEF Value
<1>2. CASE val[r].kind = "hit"
    BY <1>2 DEF Sends, Status
<1>3. CASE val[r].kind = "miss"
    BY <1>3 DEF Sends, Status
<1>4. CASE val[r].kind = "error"
    BY <1>4 DEF Sends, Status
<1> QED BY <1>1, <1>2, <1>3, <1>4

\* An expiring URL stops redirecting, on every instance, StaleFor after the last
\* moment its Redis key can still answer.
THEOREM ExpiredStops == Spec => ExpiredStopsRedirecting
<1>1. ASSUME IInv, AgeInv, NEW r \in Requests, Sends(r, "307")
      PROVE  now < lastExpiry + FillDelay + StaleFor
    <2>1. pc[r] = "got" /\ val[r].kind = "hit" /\ ~(val[r].exp < now)
        BY <1>1, RedirectIsHit DEF IInv
    <2>2. /\ now \in Nat /\ since[r] \in Nat /\ now <= since[r] + RequestTime
          /\ lastExpiry \in Nat /\ RequestTime \in Nat /\ L1Ttl \in Nat
          /\ L1Ttl >= 1 /\ FillDelay \in Nat /\ val[r].exp \in Nat
        BY <1>1, <2>1, AnswerFacts
    <2>3. \/ val[r].exp <= lastExpiry
          \/ since[r] + 1 <= lastExpiry + FillDelay + (RequestTime + L1Ttl)
        BY <1>1, <2>1, AnswerFacts
    <2> QED BY <2>1, <2>2, <2>3 DEF StaleFor
<1>2. IInv /\ AgeInv =>
        \A r \in Requests :
            Sends(r, "307") => now < lastExpiry + FillDelay + StaleFor
    BY <1>1
<1> QED BY AgeInvariance, <1>2, PTL DEF ExpiredStopsRedirecting

\* A deleted URL stops redirecting, on every instance, StaleFor after a DEL that
\* ran with the replica caught up and no fill under way.
THEOREM DeletedStops == Spec => DeletedStopsRedirecting
<1>1. ASSUME IInv, AgeInv, NEW r \in Requests, Sends(r, "307"),
             NEW t \in settledAt
      PROVE  now < t + StaleFor
    <2>1. pc[r] = "got" /\ val[r].kind = "hit"
        BY <1>1, RedirectIsHit DEF IInv
    <2>2. /\ now \in Nat /\ since[r] \in Nat /\ now <= since[r] + RequestTime
          /\ t \in Nat /\ RequestTime \in Nat /\ L1Ttl \in Nat
        BY <1>1, <2>1, AnswerFacts
    <2>3. since[r] + 1 <= t + (RequestTime + L1Ttl)
        BY <1>1, <2>1, AnswerFacts
    <2> QED BY <2>2, <2>3 DEF StaleFor
<1>2. IInv /\ AgeInv =>
        \A r \in Requests :
            Sends(r, "307") => \A t \in settledAt : now < t + StaleFor
    BY <1>1
<1> QED BY AgeInvariance, <1>2, PTL DEF DeletedStopsRedirecting

\* A 404 is true, or was less than StaleFor ago: an error of the database is
\* never remembered as a missing row.
THEOREM NotFoundIsHonest == Spec => NotFoundIsTrue
<1>1. ASSUME IInv, AgeInv, NEW r \in Requests, Sends(r, "404")
      PROVE  replica = {} \/ now < absentAt + StaleFor
    <2>1. pc[r] = "got" /\ val[r].kind = "miss"
        BY <1>1, RedirectIsHit DEF IInv
    <2>2. /\ now \in Nat /\ since[r] \in Nat /\ now <= since[r] + RequestTime
          /\ absentAt \in Nat /\ RequestTime \in Nat /\ L1Ttl \in Nat
          /\ since[r] + 1 <= absentAt + (RequestTime + L1Ttl)
        BY <1>1, <2>1, AnswerFacts
    <2> QED BY <2>2 DEF StaleFor
<1>2. IInv /\ AgeInv =>
        \A r \in Requests :
            Sends(r, "404") => replica = {} \/ now < absentAt + StaleFor
    BY <1>1
<1> QED BY AgeInvariance, <1>2, PTL DEF NotFoundIsTrue
=============================================================================
