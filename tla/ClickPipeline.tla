---------------------------- MODULE ClickPipeline ----------------------------
(***************************************************************************)
(* The click-analytics pipeline of bittuly: a redirect spawns a publish of *)
(* its short code to click_events_queue, the consumer service counts the   *)
(* deliveries in memory and flushes the counts to urls.click_count when    *)
(* the batch is large enough or a timer fires, and settles the deliveries  *)
(* with one cumulative ack (or, when the flush failed, one cumulative      *)
(* nack).                                                                  *)
(*                                                                         *)
(* Clicks are named, so that a run can tell which click was counted how    *)
(* often.  The HashMap entry of a code is the sum of `batch` over its      *)
(* clicks, and so is the increment of its row's click_count.  Every        *)
(* payload is a short code, so the UTF-8 check of the loop always passes.  *)
(***************************************************************************)
EXTENDS Naturals, FiniteSets

CONSTANTS
    Clicks,       \* the redirects served, each of which publishes one message
    Codes,        \* short codes
    CodeOf,       \* the short code each click is for
    BatchSize,    \* the flush threshold (17 in the code)
    FaultKinds,   \* the kinds of fault that may happen
    MaxFaults     \* how many faults may happen: bounds a run

\* dbError: the UPDATE fails and had no effect.  lateDbError: it commits and
\* the connection fails before the answer.  crash: the consumer process ends.
\* disconnect: its AMQP channel dies.  brokerRestart: RabbitMQ restarts.
Faults == {"dbError", "lateDbError", "crash", "disconnect", "brokerRestart"}

ASSUME CodeAssumption   == CodeOf \in [Clicks -> Codes]
ASSUME BatchAssumption  == BatchSize \in Nat \ {0}
ASSUME FaultAssumption  == FaultKinds \subseteq Faults /\ MaxFaults \in Nat

VARIABLES
    spawned,     \* clicks whose publish task is still to run
    queue,       \* clicks with a ready message in click_events_queue
    unacked,     \* the broker's unsettled deliveries on the channel
    nextTag,     \* the tag of the channel's next delivery
    stream,      \* deliveries the client holds and the loop has not read
    connected,   \* whether the channel still delivers and settles
    lastTag,     \* last_delivery_tag; 0 is None
    batch,       \* how often each click is counted in the HashMap
    totalClicks, \* total_clicks
    failures,    \* consecutive_failures
    pc,          \* where the consumer's loop is
    rows,        \* codes that have a row in urls
    counted,     \* what each click has added to the click_count of its row
    published,   \* history: clicks that reached the broker
    lost,        \* history: clicks whose message a broker restart dropped
    faults       \* how many faults have happened

publisher == <<spawned, published>>
broker    == <<queue, unacked, nextTag, connected, lost>>
consumer  == <<stream, lastTag, batch, totalClicks, failures, pc>>
database  == <<rows, counted>>
vars == <<publisher, broker, consumer, database, faults>>

Delivery == [tag: Nat, click: Clicks]
ClicksOf(deliveries) == {d.click : d \in deliveries}

Init ==
    /\ spawned = Clicks
    /\ published = {}
    /\ queue = {}
    /\ unacked = {}
    /\ nextTag = 1
    /\ connected = TRUE
    /\ lost = {}
    /\ stream = {}
    /\ lastTag = 0
    /\ batch = [c \in Clicks |-> 0]
    /\ totalClicks = 0
    /\ failures = 0
    /\ pc = "select"
    /\ rows = Codes
    /\ counted = [c \in Clicks |-> 0]
    /\ faults = 0

Fault(kind) ==
    /\ kind \in FaultKinds
    /\ faults < MaxFaults
    /\ faults' = faults + 1

----------------------------------------------------------------------------
(* The redirect's spawned task, and the owner deleting a URL.              *)

Publish(c) ==
    /\ c \in spawned
    /\ spawned' = spawned \ {c}
    /\ published' = published \cup {c}
    /\ queue' = queue \cup {c}
    /\ UNCHANGED <<unacked, nextTag, connected, lost, consumer, database, faults>>

\* publish() returned an error, or the url-service died: nobody is told.
PublishFails(c) ==
    /\ c \in spawned
    /\ spawned' = spawned \ {c}
    /\ UNCHANGED <<published, broker, consumer, database, faults>>

DeleteRow(code) ==
    /\ code \in rows
    /\ rows' = rows \ {code}
    /\ UNCHANGED <<publisher, broker, consumer, counted, faults>>

----------------------------------------------------------------------------
(* RabbitMQ.                                                               *)

\* No prefetch limit is set: the broker pushes whatever is ready.
Deliver(c) ==
    /\ connected
    /\ c \in queue
    /\ queue' = queue \ {c}
    /\ LET d == [tag |-> nextTag, click |-> c] IN
        /\ unacked' = unacked \cup {d}
        /\ stream' = stream \cup {d}
    /\ nextTag' = nextTag + 1
    /\ UNCHANGED <<publisher, connected, lost, lastTag, batch, totalClicks,
                   failures, pc, database, faults>>

\* The channel dies: its deliveries are ready again.  The client may still
\* hand the loop what it had prefetched.
Disconnect ==
    /\ connected
    /\ Fault("disconnect")
    /\ connected' = FALSE
    /\ queue' = queue \cup ClicksOf(unacked)
    /\ unacked' = {}
    /\ stream' \in {stream, {}}
    /\ UNCHANGED <<publisher, nextTag, lost, lastTag, batch, totalClicks,
                   failures, pc, database>>

\* Messages are published without delivery_mode 2, so a durable queue comes
\* back empty.
BrokerRestart ==
    /\ Fault("brokerRestart")
    /\ connected' = FALSE
    /\ lost' = lost \cup queue \cup ClicksOf(unacked)
    /\ queue' = {}
    /\ unacked' = {}
    /\ stream' \in {stream, {}}
    /\ UNCHANGED <<publisher, nextTag, lastTag, batch, totalClicks, failures,
                   pc, database>>

----------------------------------------------------------------------------
(* The click consumer's loop.                                              *)

\* The delivery arm of select!, up to the flush it may start.
Read ==
    /\ pc = "select"
    /\ \E d \in stream :
        /\ \A e \in stream : d.tag <= e.tag
        /\ stream' = stream \ {d}
        /\ batch' = [batch EXCEPT ![d.click] = @ + 1]
        /\ lastTag' = d.tag
    /\ totalClicks' = totalClicks + 1
    /\ pc' = IF totalClicks + 1 >= BatchSize THEN "flush" ELSE "select"
    /\ UNCHANGED <<publisher, broker, failures, database, faults>>

\* Mutant: the timer arm asks for a full batch, as the delivery arm does.
TickWhenFull ==
    /\ pc = "select"
    /\ totalClicks >= BatchSize
    /\ pc' = "flush"
    /\ UNCHANGED <<publisher, broker, stream, lastTag, batch, totalClicks,
                   failures, database, faults>>

\* The timer arm of select!.
Tick ==
    /\ pc = "select"
    /\ \E c \in Clicks : batch[c] > 0
    /\ pc' = "flush"
    /\ UNCHANGED <<publisher, broker, stream, lastTag, batch, totalClicks,
                   failures, database, faults>>

\* increment_click_counts commits: codes without a row match nothing.
ApplyBatch ==
    counted' = [c \in Clicks |->
        IF CodeOf[c] \in rows THEN counted[c] + batch[c] ELSE counted[c]]

FlushOk ==
    /\ pc = "flush"
    /\ ApplyBatch
    /\ failures' = 0
    /\ pc' = "ack"
    /\ UNCHANGED <<publisher, broker, stream, lastTag, batch, totalClicks,
                   rows, faults>>

FlushFails ==
    /\ pc = "flush"
    /\ \/ Fault("dbError") /\ UNCHANGED counted
       \/ Fault("lateDbError") /\ ApplyBatch
    /\ failures' = failures + 1
    /\ pc' = "backoff"
    /\ UNCHANGED <<publisher, broker, stream, lastTag, batch, totalClicks, rows>>

\* The deliveries a cumulative ack or nack of last_delivery_tag settles.
Settles == {d \in unacked : connected /\ d.tag <= lastTag}

\* Mutant: the counter drops by the threshold instead of to zero.
AckSubtractsThreshold ==
    /\ pc = "ack"
    /\ unacked' = unacked \ Settles
    /\ lastTag' = 0
    /\ batch' = [c \in Clicks |-> 0]
    /\ totalClicks' = totalClicks - BatchSize
    /\ pc' = "select"
    /\ UNCHANGED <<publisher, queue, nextTag, connected, lost, stream, failures,
                   database, faults>>

\* Mutant: the batch is not cleared after a good flush.
AckKeepsBatch ==
    /\ pc = "ack"
    /\ unacked' = unacked \ Settles
    /\ lastTag' = 0
    /\ pc' = "select"
    /\ UNCHANGED <<publisher, queue, nextTag, connected, lost, stream, batch,
                   totalClicks, failures, database, faults>>

\* Mutant: the ack is not cumulative.
AckLastOnly ==
    /\ pc = "ack"
    /\ unacked' = {d \in unacked : ~(connected /\ d.tag = lastTag)}
    /\ lastTag' = 0
    /\ batch' = [c \in Clicks |-> 0]
    /\ totalClicks' = 0
    /\ pc' = "select"
    /\ UNCHANGED <<publisher, queue, nextTag, connected, lost, stream, failures,
                   database, faults>>

\* basic_ack(tag, multiple), its result ignored; then the batch is cleared.
Ack ==
    /\ pc = "ack"
    /\ unacked' = unacked \ Settles
    /\ lastTag' = 0
    /\ batch' = [c \in Clicks |-> 0]
    /\ totalClicks' = 0
    /\ pc' = "select"
    /\ UNCHANGED <<publisher, queue, nextTag, connected, lost, stream, failures,
                   database, faults>>

\* Mutant: the nack does not requeue.
NackDrops ==
    /\ pc = "backoff"
    /\ unacked' = unacked \ Settles
    /\ lastTag' = 0
    /\ pc' = "select"
    /\ UNCHANGED <<publisher, queue, nextTag, connected, lost, stream, batch,
                   totalClicks, failures, database, faults>>

\* After the backoff: basic_nack(tag, multiple, requeue).  The batch stays.
Nack ==
    /\ pc = "backoff"
    /\ unacked' = unacked \ Settles
    /\ queue' = queue \cup ClicksOf(Settles)
    /\ lastTag' = 0
    /\ pc' = "select"
    /\ UNCHANGED <<publisher, nextTag, connected, lost, stream, batch,
                   totalClicks, failures, database, faults>>

\* The loop's locals as it starts.
FreshLocals ==
    /\ lastTag' = 0
    /\ batch' = [c \in Clicks |-> 0]
    /\ totalClicks' = 0
    /\ failures' = 0

\* The process ends at any point of the loop (ctrl_c included: nothing is
\* flushed on shutdown).  Its memory is gone, its deliveries are ready again.
Crash ==
    /\ pc # "down"
    /\ Fault("crash")
    /\ pc' = "down"
    /\ connected' = FALSE
    /\ queue' = queue \cup ClicksOf(unacked)
    /\ unacked' = {}
    /\ stream' = {}
    /\ nextTag' = 1
    /\ FreshLocals
    /\ UNCHANGED <<publisher, lost, database>>

\* main() again, on a new channel, whose tags start at 1.
Restart ==
    /\ pc = "down"
    /\ pc' = "select"
    /\ connected' = TRUE
    /\ UNCHANGED <<publisher, queue, unacked, nextTag, lost, stream, lastTag, batch,
                   totalClicks, failures, database, faults>>

----------------------------------------------------------------------------
Loop == Read \/ Tick \/ FlushOk \/ FlushFails \/ Ack \/ Nack

Next ==
    \/ \E c \in Clicks : Publish(c) \/ PublishFails(c) \/ Deliver(c)
    \/ \E code \in Codes : DeleteRow(code)
    \/ Loop
    \/ Disconnect
    \/ BrokerRestart
    \/ Crash
    \/ Restart

\* The publish task runs, the broker pushes, the loop keeps polling (its
\* timer fires whenever the batch is not empty) and Kubernetes restarts a
\* process that ended.  Nothing else is assumed: faults stop only because
\* MaxFaults bounds them.
Fairness ==
    /\ WF_vars(\E c \in Clicks : Publish(c) \/ PublishFails(c))
    /\ WF_vars(\E c \in Clicks : Deliver(c))
    /\ WF_vars(Read)
    /\ WF_vars(Tick)
    /\ WF_vars(FlushOk \/ FlushFails)
    /\ WF_vars(Ack)
    /\ WF_vars(Nack)
    /\ WF_vars(Restart)

Spec == Init /\ [][Next]_vars
FairSpec == Spec /\ Fairness

----------------------------------------------------------------------------
(* Properties.                                                             *)

\* Every variable keeps its type: the state of the loop (main.rs 117-122) and
\* of the broker's side of its channel.
TypeOK ==
    /\ spawned \subseteq Clicks
    /\ published \subseteq Clicks
    /\ queue \subseteq Clicks
    /\ unacked \subseteq Delivery
    /\ nextTag \in Nat \ {0}
    /\ connected \in BOOLEAN
    /\ lost \subseteq Clicks
    /\ stream \subseteq Delivery
    /\ lastTag \in Nat
    /\ batch \in [Clicks -> Nat]
    /\ totalClicks \in Nat
    /\ failures \in Nat
    /\ pc \in {"select", "flush", "ack", "backoff", "down"}
    /\ rows \subseteq Codes
    /\ counted \in [Clicks -> Nat]
    /\ faults \in 0..MaxFaults

\* A click is settled once its row has counted it or has gone.
Settled(c) == counted[c] > 0 \/ CodeOf[c] \notin rows

\* No click is lost between the broker and the database: a message that was
\* published and that no broker restart dropped stays at the broker until its
\* click is settled, whatever fails in between.  It is what "only clear after
\* successful flush" and the cumulative ack of last_delivery_tag are for.
NoClickLost ==
    \A c \in published : c \in queue \cup ClicksOf(unacked) \cup lost \/ Settled(c)

\* Without a fault every click is counted at most once, in the database and in
\* the batch together: no flush applies a delivery twice, by size or by timer.
ExactlyOnceWithoutFaults ==
    faults = 0 =>
        \A c \in Clicks : counted[c] + (IF pc = "ack" THEN 0 ELSE batch[c]) <= 1

\* As long as no flush has failed since the last good one, the batch holds the
\* deliveries the loop has read and not settled, no more and no fewer, and the
\* loop never waits with a batch that is due.
BatchMirrorsUnacked ==
    (pc = "select" /\ failures = 0 /\ connected) =>
        /\ totalClicks = Cardinality(unacked \ stream)
        /\ \A c \in Clicks : batch[c] = Cardinality({d \in unacked \ stream : d.click = c})
        /\ totalClicks < BatchSize

\* Click counts are eventually consistent: when the consumer's channel is up
\* for good from some time on, there comes a time from which every message that
\* reached the broker is settled or was dropped by a broker restart.
EventuallyCounted ==
    <>[]connected => <>[](\A c \in published \ lost : Settled(c))

\* README, "Click Analytics (Eventually Consistent, Batched)": click_count is
\* the number of clicks.  A failed flush keeps its batch ("Do NOT clear batch
\* on failure - messages are requeued and will be redelivered") and the loop
\* then counts the redelivered messages on top of it.
ClickCountedOnce == \A c \in Clicks : counted[c] <= 1
=============================================================================
