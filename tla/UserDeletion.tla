----------------------------- MODULE UserDeletion -----------------------------
(***************************************************************************)
(* Deleting an account of bittuly: auth-service deletes the user's row and *)
(* publishes an event to user_deleted_queue; the consumer service deletes  *)
(* the user's urls, evicts their codes from Redis and acks.  A failed      *)
(* DELETE republishes the event, with a retry count in a header, to a      *)
(* retry queue that dead-letters it back after 3, 9 or 27 seconds, and at  *)
(* last to a dead-letter queue.                                            *)
(*                                                                         *)
(* Messages are copies: msgs counts the ready copies of each queue, user   *)
(* and retry count.  A copy that the consumer has prefetched but not begun *)
(* counts as ready, which is what it is again when the channel dies.  The  *)
(* event is always well-formed JSON, so the discard branch never runs.     *)
(*                                                                         *)
(* Meanwhile redirects read rows, on the replica, and set their keys       *)
(* later.  Urls do not expire here and are not deleted one by one:         *)
(* RedirectCache has that.                                                 *)
(***************************************************************************)
EXTENDS Naturals, FiniteSets

CONSTANTS
    Users,
    Codes,        \* short codes of urls rows, past and future
    OwnerOf,      \* the user_id of the row of each code
    MaxRequests,  \* DELETE requests per user: bounds a run
    FaultKinds,   \* the kinds of fault that may happen
    MaxFaults     \* how many faults may happen: bounds a run

\* publishError: auth-service dies before its publish, or the publish fails.
\* dbError: the DELETE fails and had no effect.  lateDbError: it commits and the
\* answer is lost.  redisError: a DEL fails.  crash: the consumer process ends.
\* disconnect: its AMQP channel dies.  brokerRestart: RabbitMQ restarts.
Faults == {"publishError", "dbError", "lateDbError", "redisError", "crash",
           "disconnect", "brokerRestart"}

ASSUME OwnerAssumption   == OwnerOf \in [Codes -> Users]
ASSUME RequestAssumption == MaxRequests \in Nat
ASSUME FaultAssumption   == FaultKinds \subseteq Faults /\ MaxFaults \in Nat

MaxRetries == 3

Queues == {"user_deleted_queue", "user_deleted_retry_3s", "user_deleted_retry_9s",
           "user_deleted_retry_27s", "user_deleted_dlq"}
RetryQueues == Queues \ {"user_deleted_queue", "user_deleted_dlq"}

\* The retry queue that is declared with a delay, if one is.
QueueOf(delay) ==
    CASE delay = 3  -> "user_deleted_retry_3s"
      [] delay = 9  -> "user_deleted_retry_9s"
      [] delay = 27 -> "user_deleted_retry_27s"
      [] OTHER      -> "no such queue"

\* Mutant: the first delay is a second.
RetryQueueTooSoon(n) == QueueOf(3 ^ n)

\* format!("user_deleted_retry_{}s", 3^(n+1)).
RetryQueue(n) == QueueOf(3 ^ (n + 1))

Message == [queue: Queues, user: Users, retries: 0..MaxRetries]

\* Whatever may be sent to the default exchange: it drops a message whose queue
\* does not exist, which is then counted in "no such queue", and read by nobody.
Published == [queue: Queues \cup {"no such queue"}, user: Users,
              retries: 0..(MaxRetries + 1)]

Msg(q, u, n) == [queue |-> q, user |-> u, retries |-> n]
Job == [user: Users, retries: 0..(MaxRetries + 1)]

VARIABLES
    accounts,    \* rows of the users table
    requests,    \* DELETE requests served per user
    publishing,  \* handlers per user between their DELETE and their publish
    msgs,        \* ready copies of each message
    current,     \* the delivery the consumer works on: at most one
    pc,          \* where the consumer's loop is
    connected,   \* whether its channel still delivers, settles and publishes
    toEvict,     \* short codes returned by the DELETE, not yet evicted
    fresh,       \* codes no row has had yet
    rows,        \* codes with a row in urls
    lagging,     \* codes whose row is gone, but not yet on the replica
    unevicted,   \* history: codes whose row is gone and that no DEL has removed
    filling,     \* codes whose row a redirect has read and may still cache
    redis,       \* codes with a key in Redis
    due,         \* history: users whose event the broker has had and kept, and
                 \* for whom no DELETE has committed since
    failed,      \* history: failed DELETEs per user
    happened,    \* history: the kinds of fault so far
    faults       \* how many faults have happened

auth     == <<accounts, requests, publishing>>
broker   == <<msgs, connected, due>>
consumer == <<current, pc, toEvict, failed>>
urls     == <<fresh, rows, lagging, unevicted>>
cache    == <<filling, redis>>
faulty   == <<happened, faults>>
vars == <<auth, broker, consumer, urls, cache, faulty>>

Init ==
    /\ accounts = Users
    /\ requests = [u \in Users |-> 0]
    /\ publishing = [u \in Users |-> 0]
    /\ msgs = [m \in Published |-> 0]
    /\ current = {}
    /\ pc = "idle"
    /\ connected = TRUE
    /\ toEvict = {}
    /\ fresh = Codes
    /\ rows = {} /\ lagging = {} /\ unevicted = {}
    /\ filling = {} /\ redis = {}
    /\ due = {}
    /\ failed = [u \in Users |-> 0]
    /\ happened = {}
    /\ faults = 0

Fault(kind) ==
    /\ kind \in FaultKinds
    /\ faults < MaxFaults
    /\ faults' = faults + 1
    /\ happened' = happened \cup {kind}

Put(m) == msgs' = [msgs EXCEPT ![m] = @ + 1]

----------------------------------------------------------------------------
(* The url-service: rows appear, redirects cache them.                     *)

\* The token is verified, the user is not looked up: a token of a deleted user
\* still verifies until it expires, and a refresh token renews it.
Shorten(c) ==
    /\ c \in fresh
    /\ fresh' = fresh \ {c}
    /\ rows' = rows \cup {c}
    /\ UNCHANGED <<auth, broker, consumer, lagging, unevicted, cache, faulty>>

\* get_original_url of a code that Redis does not have, or fails to answer for:
\* a SELECT on the replica.
ReadRow(c) ==
    /\ c \in rows \cup lagging
    /\ filling' = filling \cup {c}
    /\ UNCHANGED <<auth, broker, consumer, urls, redis, faulty>>

\* The task it has spawned sets the key, or fails, or dies; other redirects may
\* have read the row, too, and have their tasks to come.
EndFill(c) ==
    /\ c \in filling
    /\ redis' \in {redis, redis \cup {c}}
    /\ filling' \in {filling, filling \ {c}}
    /\ UNCHANGED <<auth, broker, consumer, urls, faulty>>

\* The replica replays the deletion of a row.
Replay(c) ==
    /\ c \in lagging
    /\ lagging' = lagging \ {c}
    /\ UNCHANGED <<auth, broker, consumer, fresh, rows, unevicted, cache, faulty>>

----------------------------------------------------------------------------
(* delete_user of auth-service: a DELETE, which succeeds whether or not it *)
(* finds a row, then a publish whose result is ignored.                    *)

DeleteAccount(u) ==
    /\ requests[u] < MaxRequests
    /\ requests' = [requests EXCEPT ![u] = @ + 1]
    /\ accounts' = accounts \ {u}
    /\ publishing' = [publishing EXCEPT ![u] = @ + 1]
    /\ UNCHANGED <<broker, consumer, urls, cache, faulty>>

PublishEvent(u) ==
    /\ publishing[u] > 0
    /\ publishing' = [publishing EXCEPT ![u] = @ - 1]
    /\ Put(Msg("user_deleted_queue", u, 0))
    /\ due' = due \cup {u}
    /\ UNCHANGED <<accounts, requests, connected, consumer, urls, cache, faulty>>

PublishFails(u) ==
    /\ publishing[u] > 0
    /\ Fault("publishError")
    /\ publishing' = [publishing EXCEPT ![u] = @ - 1]
    /\ UNCHANGED <<accounts, requests, broker, consumer, urls, cache>>

----------------------------------------------------------------------------
(* RabbitMQ.                                                               *)

\* The TTL of a retry queue sends a message back, its headers unchanged.
DeadLetter(m) ==
    /\ m.queue \in RetryQueues
    /\ msgs[m] > 0
    /\ msgs' = [msgs EXCEPT ![m] = @ - 1,
                            ![Msg("user_deleted_queue", m.user, m.retries)] = @ + 1]
    /\ UNCHANGED <<auth, connected, due, consumer, urls, cache, faulty>>

\* What the broker does with an unsettled delivery when its channel dies.
Requeue ==
    IF connected /\ current # {}
    THEN \E j \in current : Put(Msg("user_deleted_queue", j.user, j.retries))
    ELSE UNCHANGED msgs

\* The consumer finishes the delivery it works on; then its stream has ended.
Disconnect ==
    /\ connected
    /\ Fault("disconnect")
    /\ connected' = FALSE
    /\ Requeue
    /\ pc' = IF pc = "idle" THEN "stopped" ELSE pc
    /\ UNCHANGED <<auth, due, current, toEvict, failed, urls, cache>>

\* The event is published without delivery_mode 2, so no copy of it survives.
BrokerRestart ==
    /\ Fault("brokerRestart")
    /\ connected' = FALSE
    /\ msgs' = [m \in Published |-> 0]
    /\ due' = {}
    /\ pc' = IF pc = "idle" THEN "stopped" ELSE pc
    /\ UNCHANGED <<auth, current, toEvict, failed, urls, cache>>

----------------------------------------------------------------------------
(* The user-deleted consumer's loop.                                       *)

Take ==
    /\ pc = "idle"
    /\ \E m \in Published :
        /\ m.queue = "user_deleted_queue" /\ msgs[m] > 0
        /\ msgs' = [msgs EXCEPT ![m] = @ - 1]
        /\ current' = {[user |-> m.user, retries |-> m.retries]}
    /\ pc' = "delete"
    /\ UNCHANGED <<auth, connected, due, toEvict, failed, urls, cache, faulty>>

OwnedBy(u) == {c \in rows : OwnerOf[c] = u}

\* DELETE FROM urls WHERE user_id = u, committed.
Wipe(u) ==
    /\ rows' = rows \ OwnedBy(u)
    /\ lagging' = lagging \cup OwnedBy(u)
    /\ unevicted' = unevicted \cup OwnedBy(u)
    /\ due' = due \ {u}

\* Mutant: the codes are selected after the DELETE, not returned by it.
DeleteThenSelect ==
    /\ pc = "delete"
    /\ \E j \in current :
        /\ Wipe(j.user)
        /\ toEvict' = OwnedBy(j.user) \cap rows'
    /\ pc' = "evict"
    /\ UNCHANGED <<auth, msgs, connected, current, failed, fresh, cache, faulty>>

DeleteUrls ==
    /\ pc = "delete"
    /\ \E j \in current :
        /\ Wipe(j.user)
        /\ toEvict' = OwnedBy(j.user)
    /\ pc' = "evict"
    /\ UNCHANGED <<auth, msgs, connected, current, failed, fresh, cache, faulty>>

DeleteUrlsFails ==
    /\ pc = "delete"
    /\ \E j \in current :
        /\ \/ Fault("dbError") /\ UNCHANGED <<rows, lagging, unevicted, due>>
           \/ Fault("lateDbError") /\ Wipe(j.user)
        /\ failed' = [failed EXCEPT ![j.user] = @ + 1]
    /\ pc' = "republish"
    /\ UNCHANGED <<auth, msgs, connected, current, toEvict, fresh, cache>>

\* One DEL per returned code; an error is ignored.
Evict(c) ==
    /\ pc = "evict"
    /\ c \in toEvict
    /\ toEvict' = toEvict \ {c}
    /\ \/ /\ redis' = redis \ {c} /\ unevicted' = unevicted \ {c}
          /\ UNCHANGED faulty
       \/ Fault("redisError") /\ UNCHANGED <<redis, unevicted>>
    /\ UNCHANGED <<auth, broker, current, pc, failed, fresh, rows, lagging, filling>>

\* Mutant: one retry more than there are retry queues.
GivesUpTooLate(j) ==
    IF j.retries >= 4
    THEN Msg("user_deleted_dlq", j.user, j.retries)
    ELSE Msg(RetryQueue(j.retries), j.user, j.retries + 1)

\* Mutant: one retry too few.
GivesUpTooEarly(j) ==
    IF j.retries >= 2
    THEN Msg("user_deleted_dlq", j.user, j.retries)
    ELSE Msg(RetryQueue(j.retries), j.user, j.retries + 1)

\* Where the event goes after a failed DELETE.
RetryOrDlq(j) ==
    IF j.retries >= 3
    THEN Msg("user_deleted_dlq", j.user, j.retries)
    ELSE Msg(RetryQueue(j.retries), j.user, j.retries + 1)

\* Mutant: the failed delivery is requeued as well as republished.
RepublishAndRequeue ==
    /\ pc = "republish"
    /\ \E j \in current :
        IF connected
        THEN msgs' = [msgs EXCEPT ![RetryOrDlq(j)] = @ + 1,
                        ![Msg("user_deleted_queue", j.user, j.retries)] = @ + 1]
        ELSE UNCHANGED msgs
    /\ pc' = "republished"
    /\ UNCHANGED <<auth, connected, due, current, toEvict, failed, urls, cache, faulty>>

Republish ==
    /\ pc = "republish"
    /\ \E j \in current :
        IF connected THEN Put(RetryOrDlq(j)) ELSE UNCHANGED msgs
    /\ pc' = "republished"
    /\ UNCHANGED <<auth, connected, due, current, toEvict, failed, urls, cache, faulty>>

\* Mutant: the loop ends after a failed DELETE.
AckStopsOnFailure ==
    /\ \/ pc = "evict" /\ toEvict = {}
       \/ pc = "republished"
    /\ current' = {}
    /\ pc' = IF connected /\ pc # "republished" THEN "idle" ELSE "stopped"
    /\ UNCHANGED <<auth, broker, toEvict, failed, urls, cache, faulty>>

\* delivery.ack, its result ignored: on a dead channel it settles nothing, and
\* the next poll of the stream ends the loop for good.
Ack ==
    /\ \/ pc = "evict" /\ toEvict = {}
       \/ pc = "republished"
    /\ current' = {}
    /\ pc' = IF connected THEN "idle" ELSE "stopped"
    /\ UNCHANGED <<auth, broker, toEvict, failed, urls, cache, faulty>>

Crash ==
    /\ pc # "down"
    /\ Fault("crash")
    /\ pc' = "down"
    /\ connected' = FALSE
    /\ Requeue
    /\ current' = {}
    /\ toEvict' = {}
    /\ UNCHANGED <<auth, due, failed, urls, cache>>

Restart ==
    /\ pc = "down"
    /\ pc' = "idle"
    /\ connected' = TRUE
    /\ UNCHANGED <<auth, msgs, due, current, toEvict, failed, urls, cache, faulty>>

----------------------------------------------------------------------------
Loop == Take \/ DeleteUrls \/ DeleteUrlsFails \/ (\E c \in Codes : Evict(c))
        \/ Republish \/ Ack

Next ==
    \/ \E c \in Codes : Shorten(c) \/ ReadRow(c) \/ EndFill(c) \/ Replay(c)
    \/ \E u \in Users : DeleteAccount(u) \/ PublishEvent(u) \/ PublishFails(u)
    \/ \E m \in Published : DeadLetter(m)
    \/ Loop
    \/ Disconnect
    \/ BrokerRestart
    \/ Crash
    \/ Restart

\* A handler runs to its end, a TTL expires, the consumer polls its stream and
\* Kubernetes restarts a process that ended.
Fairness ==
    /\ \A u \in Users : WF_vars(PublishEvent(u) \/ PublishFails(u))
    /\ WF_vars(\E m \in Published : DeadLetter(m))
    /\ WF_vars(Loop)
    /\ WF_vars(Restart)

Spec == Init /\ [][Next]_vars
FairSpec == Spec /\ Fairness

----------------------------------------------------------------------------
(* Properties.                                                             *)

\* Every variable keeps its type; the names and counts that the consumer computes
\* are those of declared queues: no event is sent to a queue that does not exist,
\* and none counts more than three retries.
TypeOK ==
    /\ accounts \subseteq Users
    /\ requests \in [Users -> Nat]
    /\ publishing \in [Users -> Nat]
    /\ msgs \in [Published -> Nat]
    /\ \A m \in Published : msgs[m] > 0 => m \in Message
    /\ current \subseteq Job /\ \A j \in current : j.retries <= MaxRetries
    /\ pc \in {"idle", "delete", "evict", "republish", "republished", "stopped", "down"}
    /\ connected \in BOOLEAN
    /\ toEvict \subseteq Codes
    /\ fresh \subseteq Codes
    /\ rows \subseteq Codes /\ lagging \subseteq Codes /\ unevicted \subseteq Codes
    /\ filling \subseteq Codes /\ redis \subseteq Codes
    /\ due \subseteq Users
    /\ failed \in [Users -> Nat]
    /\ happened \subseteq Faults
    /\ faults \in 0..MaxFaults

\* An event the broker has had is never lost: until a DELETE commits for its
\* user, a copy is in a queue (the dead-letter queue in the end) or in the
\* hands of the consumer, through every crash, disconnect and failed attempt.
EventNotLost ==
    \A u \in due :
        \/ \E m \in Message : m.user = u /\ msgs[m] > 0
        \/ \E j \in current : j.user = u /\ pc \in {"delete", "republish"}

\* The retry count of a message is honest: it waits in the queue of its own
\* delay, its user's DELETE has failed at least that often, and an event is
\* given up only after four failures.
RetriesAreEarned ==
    \A m \in Message : msgs[m] > 0 =>
        /\ failed[m.user] >= m.retries
        /\ m.queue \in RetryQueues =>
                m.retries > 0 /\ m.queue = RetryQueue(m.retries - 1)
        /\ m.queue = "user_deleted_dlq" => m.retries = 3 /\ failed[m.user] >= 4

\* Keys of rows that are gone, and that the consumer is not about to evict.
KeysLeft == redis \ (rows \cup toEvict)

\* A key outlives its row only by one of four accidents of that very code: a
\* redirect that read the row caches it after the DEL, its DEL fails, the
\* consumer crashes before it, or the answer that names the code is lost.  The
\* cascade itself skips none, whatever is retried, redelivered or republished.
CascadeEvicts ==
    [][\A c \in KeysLeft' \ KeysLeft :
        \/ EndFill(c) \/ Crash
        \/ (Evict(c) \/ DeleteUrlsFails) /\ faults' # faults]_vars

\* The ready copies of a user's events, told apart by their number.
Copies(count, u) ==
    UNION {{m} \X (1..count[m]) : m \in {x \in Published : x.user = u}}

\* The delivery the consumer has neither settled nor republished.
Held(u) == {j \in current : j.user = u /\ pc # "republished"}

\* Without a crash or a lost channel the consumer never duplicates an event: its
\* copies, the one it works on included, are no more than auth-service published.
NoDuplicateEvents ==
    happened \cap {"crash", "disconnect", "brokerRestart"} = {} =>
        \A u \in Users :
            Cardinality(Copies(msgs, u)) + Cardinality(Held(u))
                <= requests[u] - publishing[u]

\* If the consumer's channel is up for good from some time on, every event
\* that the broker has kept ends with its user's urls deleted or with a copy in
\* the dead-letter queue.
EventuallyResolved ==
    <>[]connected =>
        <>[](\A u \in due : msgs[Msg("user_deleted_dlq", u, 3)] > 0)

Working == \/ \E u \in Users : publishing[u] > 0
           \/ \E m \in Message : msgs[m] > 0
           \/ current # {}

\* TARGET.md 299: "Referential integrity is maintained via the RabbitMQ
\* user.deleted event pattern": once every event has been dealt with, no url
\* belongs to a deleted user.  delete_user revokes no token and shorten_url
\* looks no user up, so a row can appear after the cascade.
NoOrphans == ~Working => \A c \in rows : OwnerOf[c] \in accounts

\* TARGET.md 542: "Manual ack after successful DB + Redis operations": once
\* every event has been dealt with, every code whose row is gone had its DEL.
\* The redelivery after a crash between the two finds no row, hence no code.
AckedMeansEvicted == ~Working => unevicted = {}
=============================================================================
