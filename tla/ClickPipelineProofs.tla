------------------------- MODULE ClickPipelineProofs -------------------------
(***************************************************************************)
(* Proofs about ClickPipeline, for any clicks, codes, batch size and       *)
(* faults: the type invariant, that no click is lost between the broker    *)
(* and the database, that none is counted twice without a fault, and that  *)
(* the batch is what was read and not settled.                             *)
(***************************************************************************)
EXTENDS ClickPipeline, FiniteSetTheorems, TLAPS

\* What the loop has read and the broker still waits for.
ReadUnsettled == unacked \ stream

\* A dead channel has no unsettled delivery, and a dead process no channel.
Offline ==
    /\ ~connected => unacked = {}
    /\ pc = "down" => ~connected

\* Tags in the stream are unique, and lie above every tag the loop has read and
\* below the next one.
TagOrder ==
    /\ lastTag < nextTag
    /\ \A d \in stream : lastTag < d.tag /\ d.tag < nextTag
    /\ \A d, e \in stream : d.tag = e.tag => d = e

\* A cumulative ack of lastTag covers everything the loop has read ...
ReadCovered == \A d \in ReadUnsettled : d.tag <= lastTag

\* ... which is in the batch until a flush succeeds ...
ReadInBatch ==
    pc \in {"select", "flush", "backoff"} =>
        \A d \in ReadUnsettled : batch[d.click] > 0

\* ... and in the database once it has.
ReadSettled == pc = "ack" => \A d \in ReadUnsettled : Settled(d.click)

LoopInv == Offline /\ TagOrder /\ ReadCovered /\ ReadInBatch /\ ReadSettled

IInv == TypeOK /\ LoopInv /\ NoClickLost

----------------------------------------------------------------------------
\* The clicks of a set of deliveries are clicks.
LEMMA ClicksOfType ==
    ASSUME NEW D, D \subseteq Delivery
    PROVE  ClicksOf(D) \subseteq Clicks
BY DEF ClicksOf, Delivery

\* Every step of ClickPipeline preserves the types of its state.
LEMMA TypeStep == TypeOK /\ [Next]_vars => TypeOK'
<1> SUFFICES ASSUME TypeOK, [Next]_vars PROVE TypeOK'
    OBVIOUS
<1> USE CodeAssumption, BatchAssumption, FaultAssumption
    DEF TypeOK, Delivery, publisher, broker, consumer, database
<1>1. ASSUME NEW c \in Clicks, Publish(c) PROVE TypeOK'
    BY <1>1 DEF Publish
<1>2. ASSUME NEW c \in Clicks, PublishFails(c) PROVE TypeOK'
    BY <1>2 DEF PublishFails
<1>3. ASSUME NEW c \in Clicks, Deliver(c) PROVE TypeOK'
    <2> DEFINE d == [tag |-> nextTag, click |-> c]
    <2>1. d \in Delivery
        OBVIOUS
    <2> QED BY <1>3, <2>1 DEF Deliver
<1>4. ASSUME NEW code \in Codes, DeleteRow(code) PROVE TypeOK'
    BY <1>4 DEF DeleteRow
<1>5. CASE Read
    BY <1>5 DEF Read
<1>6. CASE Tick
    BY <1>6 DEF Tick
<1>7. CASE FlushOk
    BY <1>7 DEF FlushOk, ApplyBatch
<1>8. CASE FlushFails
    BY <1>8 DEF FlushFails, ApplyBatch, Fault
<1>9. CASE Ack
    BY <1>9 DEF Ack, Settles
<1>10. CASE Nack
    <2>1. queue' \subseteq Clicks
        <3>1. Settles \subseteq Delivery
            BY DEF Settles
        <3> QED BY <1>10, <3>1, ClicksOfType DEF Nack
    <2> QED BY <1>10, <2>1 DEF Nack
<1>11. CASE Disconnect
    <2>1. queue' \subseteq Clicks
        BY <1>11, ClicksOfType DEF Disconnect
    <2>2. stream' \subseteq Delivery
        BY <1>11 DEF Disconnect
    <2>3. faults' \in 0..MaxFaults
        BY <1>11 DEF Disconnect, Fault
    <2> QED BY <1>11, <2>1, <2>2, <2>3 DEF Disconnect
<1>12. CASE BrokerRestart
    <2>1. lost' \subseteq Clicks
        BY <1>12, ClicksOfType DEF BrokerRestart
    <2>2. stream' \subseteq Delivery
        BY <1>12 DEF BrokerRestart
    <2>3. faults' \in 0..MaxFaults
        BY <1>12 DEF BrokerRestart, Fault
    <2> QED BY <1>12, <2>1, <2>2, <2>3 DEF BrokerRestart
<1>13. CASE Crash
    <2>1. queue' \subseteq Clicks
        BY <1>13, ClicksOfType DEF Crash
    <2>2. faults' \in 0..MaxFaults
        BY <1>13 DEF Crash, Fault
    <2>3. batch' \in [Clicks -> Nat]
        BY <1>13 DEF Crash, FreshLocals
    <2>4. unacked' = {} /\ stream' = {} /\ pc' = "down"
        BY <1>13 DEF Crash
    <2>5. nextTag' = 1 /\ lastTag' = 0 /\ totalClicks' = 0 /\ failures' = 0
        BY <1>13 DEF Crash, FreshLocals
    <2>6. connected' \in BOOLEAN
        BY <1>13 DEF Crash
    <2>7. UNCHANGED <<spawned, published, lost, rows, counted>>
        BY <1>13 DEF Crash
    <2> QED BY <2>1, <2>2, <2>3, <2>4, <2>5, <2>6, <2>7
<1>14. CASE Restart
    BY <1>14 DEF Restart
<1>15. CASE UNCHANGED vars
    BY <1>15 DEF vars
<1> QED
    BY <1>1, <1>2, <1>3, <1>4, <1>5, <1>6, <1>7, <1>8, <1>9, <1>10, <1>11,
       <1>12, <1>13, <1>14, <1>15 DEF Next, Loop

\* The initial state satisfies the inductive invariant.
LEMMA InitIInv == Init => IInv
<1> SUFFICES ASSUME Init PROVE IInv
    OBVIOUS
<1>1. TypeOK
    BY CodeAssumption, FaultAssumption DEF Init, TypeOK
<1>2. LoopInv
    BY DEF Init, LoopInv, Offline, TagOrder, ReadCovered, ReadInBatch, ReadSettled,
           ReadUnsettled
<1>3. NoClickLost
    BY DEF Init, NoClickLost
<1> QED BY <1>1, <1>2, <1>3 DEF IInv

\* Every step preserves what is known about the channel and the loop.
LEMMA LoopStep == TypeOK /\ LoopInv /\ [Next]_vars => LoopInv'
<1> SUFFICES ASSUME TypeOK, LoopInv, [Next]_vars PROVE LoopInv'
    OBVIOUS
<1> USE CodeAssumption
    DEF TypeOK, Delivery, LoopInv, Offline, TagOrder, ReadCovered, ReadInBatch,
        ReadSettled, ReadUnsettled, Settled, publisher, broker, consumer, database
<1>1. ASSUME NEW c \in Clicks, Publish(c) PROVE LoopInv'
    BY <1>1 DEF Publish
<1>2. ASSUME NEW c \in Clicks, PublishFails(c) PROVE LoopInv'
    BY <1>2 DEF PublishFails
<1>3. ASSUME NEW c \in Clicks, Deliver(c) PROVE LoopInv'
    <2> DEFINE d == [tag |-> nextTag, click |-> c]
    <2>1. /\ unacked' = unacked \cup {d} /\ stream' = stream \cup {d}
          /\ nextTag' = nextTag + 1 /\ connected /\ UNCHANGED connected
          /\ UNCHANGED <<lastTag, batch, pc, rows, counted>>
        BY <1>3 DEF Deliver
    <2>2. unacked' \ stream' \subseteq unacked \ stream
        BY <2>1
    <2>3. TagOrder'
        BY <2>1
    <2> QED BY <2>1, <2>2, <2>3
<1>4. ASSUME NEW code \in Codes, DeleteRow(code) PROVE LoopInv'
    BY <1>4 DEF DeleteRow
<1>5. CASE Read
    <2>1. PICK d \in stream :
            /\ \A e \in stream : d.tag <= e.tag
            /\ stream' = stream \ {d}
            /\ batch' = [batch EXCEPT ![d.click] = @ + 1]
            /\ lastTag' = d.tag
        BY <1>5 DEF Read
    <2>2. /\ UNCHANGED <<unacked, nextTag, connected>>
          /\ pc = "select" /\ pc' \in {"select", "flush"}
        BY <1>5 DEF Read
    <2>3. unacked' \ stream' \subseteq (unacked \ stream) \cup {d}
        BY <2>1, <2>2
    <2>4. TagOrder'
        BY <2>1, <2>2
    <2>5. ReadCovered'
        BY <2>1, <2>2, <2>3
    <2>6. ReadInBatch'
        BY <2>1, <2>2, <2>3
    <2> QED BY <2>2, <2>4, <2>5, <2>6
<1>6. CASE Tick
    BY <1>6 DEF Tick
<1>7. CASE FlushOk
    BY <1>7 DEF FlushOk, ApplyBatch
<1>8. CASE FlushFails
    BY <1>8 DEF FlushFails, ApplyBatch
<1>9. CASE Ack
    <2>1. unacked' \ stream' = {}
        BY <1>9 DEF Ack, Settles
    <2> QED BY <1>9, <2>1 DEF Ack, Settles
<1>10. CASE Nack
    <2>1. unacked' \ stream' = {}
        BY <1>10 DEF Nack, Settles
    <2> QED BY <1>10, <2>1 DEF Nack, Settles
<1>11. CASE Disconnect
    <2>1. unacked' = {} /\ stream' \subseteq stream /\ connected' = FALSE
        BY <1>11 DEF Disconnect
    <2>2. UNCHANGED <<lastTag, nextTag, batch, pc, rows, counted>>
        BY <1>11 DEF Disconnect
    <2> QED BY <2>1, <2>2
<1>12. CASE BrokerRestart
    <2>1. unacked' = {} /\ stream' \subseteq stream /\ connected' = FALSE
        BY <1>12 DEF BrokerRestart
    <2>2. UNCHANGED <<lastTag, nextTag, batch, pc, rows, counted>>
        BY <1>12 DEF BrokerRestart
    <2> QED BY <2>1, <2>2
<1>13. CASE Crash
    BY <1>13 DEF Crash, FreshLocals
<1>14. CASE Restart
    BY <1>14 DEF Restart
<1>15. CASE UNCHANGED vars
    BY <1>15 DEF vars
<1> QED
    BY <1>1, <1>2, <1>3, <1>4, <1>5, <1>6, <1>7, <1>8, <1>9, <1>10, <1>11,
       <1>12, <1>13, <1>14, <1>15 DEF Next, Loop

\* Every step keeps every published click at the broker until it is settled.
LEMMA NoClickLostStep == IInv /\ [Next]_vars => NoClickLost'
<1> SUFFICES ASSUME IInv, [Next]_vars, NEW c \in published'
             PROVE  NoClickLost!(c)'
    BY DEF NoClickLost
<1> USE CodeAssumption
    DEF IInv, TypeOK, Delivery, NoClickLost, Settled, ClicksOf, publisher, broker,
        consumer, database
<1>1. CASE \E x \in Clicks : Publish(x)
    BY <1>1 DEF Publish
<1>2. CASE \E x \in Clicks : PublishFails(x)
    BY <1>2 DEF PublishFails
<1>3. CASE \E x \in Clicks : Deliver(x)
    <2>1. PICK x \in Clicks : Deliver(x)
        BY <1>3
    <2> DEFINE d == [tag |-> nextTag, click |-> x]
    <2>2. x \in ClicksOf(unacked')
        <3>1. d \in unacked' /\ d.click = x
            BY <2>1 DEF Deliver
        <3> QED BY <3>1
    <2> QED BY <2>1, <2>2 DEF Deliver
<1>4. CASE \E code \in Codes : DeleteRow(code)
    BY <1>4 DEF DeleteRow
<1>5. CASE Read
    BY <1>5 DEF Read
<1>6. CASE Tick
    BY <1>6 DEF Tick
<1>7. CASE FlushOk
    BY <1>7 DEF FlushOk, ApplyBatch
<1>8. CASE FlushFails
    BY <1>8 DEF FlushFails, ApplyBatch
<1>9. CASE Ack
    <2>1. \A d \in Settles : Settled(d.click)
        <3>1. \A d \in Settles : d \in ReadUnsettled
            BY DEF Settles, ReadUnsettled, LoopInv, TagOrder
        <3> QED BY <1>9, <3>1 DEF Ack, LoopInv, ReadSettled
    <2>2. UNCHANGED <<queue, lost, rows, counted, published>>
        BY <1>9 DEF Ack
    <2>3. unacked' = unacked \ Settles
        BY <1>9 DEF Ack
    <2> QED BY <2>1, <2>2, <2>3
<1>10. CASE Nack
    <2>1. ClicksOf(unacked) \subseteq ClicksOf(unacked') \cup queue'
        BY <1>10 DEF Nack
    <2> QED BY <1>10, <2>1 DEF Nack
<1>11. CASE Disconnect
    BY <1>11 DEF Disconnect
<1>12. CASE BrokerRestart
    BY <1>12 DEF BrokerRestart
<1>13. CASE Crash
    BY <1>13 DEF Crash
<1>14. CASE Restart
    BY <1>14 DEF Restart
<1>15. CASE UNCHANGED vars
    BY <1>15 DEF vars
<1> QED
    BY <1>1, <1>2, <1>3, <1>4, <1>5, <1>6, <1>7, <1>8, <1>9, <1>10, <1>11,
       <1>12, <1>13, <1>14, <1>15 DEF Next, Loop

----------------------------------------------------------------------------
\* The inductive invariant holds in every reachable state.
THEOREM Invariance == Spec => []IInv
<1>1. IInv /\ [Next]_vars => IInv'
    BY TypeStep, LoopStep, NoClickLostStep DEF IInv
<1> QED BY InitIInv, <1>1, PTL DEF Spec

\* The consumer's state and the broker's keep their types.
THEOREM TypeCorrect == Spec => []TypeOK
<1>1. IInv => TypeOK
    BY DEF IInv
<1> QED BY Invariance, <1>1, PTL

\* A published click stays at the broker until its row counts it or is gone:
\* no failure of the database, the channel or the consumer process loses one.
THEOREM NoClickIsLost == Spec => []NoClickLost
<1>1. IInv => NoClickLost
    BY DEF IInv
<1> QED BY Invariance, <1>1, PTL

----------------------------------------------------------------------------
(* Exactly once, without a fault: a click is in one place at a time.       *)

\* Nothing of the click is counted, in the database or in the batch.
Uncounted(c) == counted[c] = 0 /\ batch[c] = 0

InOnePlace ==
    faults = 0 =>
        /\ connected /\ pc \in {"select", "flush", "ack"}
        /\ stream \subseteq unacked
        /\ \A d, e \in unacked : d.click = e.click => d = e
        /\ \A c \in spawned : Uncounted(c) /\ c \notin queue
        /\ \A c \in spawned \cup queue : \A d \in unacked : d.click # c
        /\ \A c \in queue : Uncounted(c)
        /\ \A d \in stream : Uncounted(d.click)

OnceInv == InOnePlace /\ ExactlyOnceWithoutFaults

LEMMA OnceInit == Init => OnceInv
BY DEF Init, OnceInv, InOnePlace, ExactlyOnceWithoutFaults, Uncounted

\* Every step moves a click from one place to the next.
LEMMA OnceStep == TypeOK /\ LoopInv /\ OnceInv /\ [Next]_vars => OnceInv'
<1> SUFFICES ASSUME TypeOK, LoopInv, OnceInv, [Next]_vars, faults' = 0
             PROVE  OnceInv'
    BY DEF OnceInv, InOnePlace, ExactlyOnceWithoutFaults
<1>0. /\ faults = 0 /\ InOnePlace /\ ExactlyOnceWithoutFaults
      /\ \A kind : ~Fault(kind)
    <2>1. faults \in Nat
        BY FaultAssumption DEF TypeOK
    <2>2. \A kind : Fault(kind) => faults' = faults + 1
        BY DEF Fault
    <2>3. \A kind : ~Fault(kind)
        BY <2>1, <2>2
    <2>4. faults' = faults
        BY <2>3 DEF Next, Loop, Publish, PublishFails, Deliver, DeleteRow, Read,
                    Tick, FlushOk, FlushFails, Ack, Nack, Disconnect,
                    BrokerRestart, Crash, Restart, vars
    <2> QED BY <2>3, <2>4 DEF OnceInv
<1>a. /\ connected /\ pc \in {"select", "flush", "ack"}
      /\ stream \subseteq unacked
      /\ \A d, e \in unacked : d.click = e.click => d = e
      /\ \A c \in spawned : Uncounted(c) /\ c \notin queue
      /\ \A c \in spawned \cup queue : \A d \in unacked : d.click # c
      /\ \A c \in queue : Uncounted(c)
      /\ \A d \in stream : Uncounted(d.click)
      /\ \A c \in Clicks :
            counted[c] + (IF pc = "ack" THEN 0 ELSE batch[c]) <= 1
    BY <1>0 DEF InOnePlace, ExactlyOnceWithoutFaults
<1>b. /\ spawned \subseteq Clicks /\ queue \subseteq Clicks
      /\ unacked \subseteq Delivery /\ stream \subseteq Delivery
      /\ \A d \in Delivery : d.click \in Clicks
      /\ batch \in [Clicks -> Nat] /\ counted \in [Clicks -> Nat]
    BY DEF TypeOK, Delivery
<1>1. ASSUME NEW c \in Clicks, Publish(c) PROVE OnceInv'
    BY <1>1, <1>a, <1>b DEF Publish, OnceInv, InOnePlace, Uncounted,
        ExactlyOnceWithoutFaults, broker, consumer, database
<1>2. ASSUME NEW c \in Clicks, PublishFails(c) PROVE OnceInv'
    BY <1>2, <1>a, <1>b DEF PublishFails, OnceInv, InOnePlace, Uncounted,
        ExactlyOnceWithoutFaults, broker, consumer, database
<1>3. ASSUME NEW c \in Clicks, Deliver(c) PROVE OnceInv'
    <2> DEFINE x == [tag |-> nextTag, click |-> c]
    <2>1. /\ c \in queue /\ queue' = queue \ {c} /\ x.click = c
          /\ unacked' = unacked \cup {x} /\ stream' = stream \cup {x}
          /\ UNCHANGED <<spawned, connected, pc, batch, counted>>
        BY <1>3 DEF Deliver, publisher, database
    <2>2. c \notin spawned /\ Uncounted(c) /\ \A d \in unacked : d.click # c
        BY <1>a, <2>1
    <2>3. /\ stream' \subseteq unacked'
          /\ \A d, e \in unacked' : d.click = e.click => d = e
        BY <1>a, <2>1, <2>2
    <2>4. \A b \in spawned' \cup queue' : \A d \in unacked' : d.click # b
        BY <1>a, <2>1, <2>2
    <2>5. \A d \in stream' : Uncounted(d.click)'
        BY <1>a, <2>1, <2>2 DEF Uncounted
    <2>6. ExactlyOnceWithoutFaults'
        BY <1>a, <2>1 DEF ExactlyOnceWithoutFaults
    <2> QED BY <1>a, <2>1, <2>3, <2>4, <2>5, <2>6
            DEF OnceInv, InOnePlace, Uncounted
<1>4. ASSUME NEW code \in Codes, DeleteRow(code) PROVE OnceInv'
    BY <1>4, <1>a, <1>b DEF DeleteRow, OnceInv, InOnePlace, Uncounted,
        ExactlyOnceWithoutFaults, publisher, broker, consumer
<1>5. CASE Read
    <2>1. PICK x \in stream :
            /\ stream' = stream \ {x}
            /\ batch' = [batch EXCEPT ![x.click] = @ + 1]
        BY <1>5 DEF Read
    <2>2. /\ pc = "select" /\ pc' \in {"select", "flush"}
          /\ UNCHANGED <<spawned, queue, unacked, connected, counted>>
        BY <1>5 DEF Read, publisher, broker, database
    <2>3. /\ x \in unacked /\ x.click \in Clicks
          /\ counted[x.click] = 0 /\ batch[x.click] = 0
        BY <1>a, <1>b, <2>1 DEF Uncounted
    <2>4. /\ batch'[x.click] = 1
          /\ \A c \in Clicks \ {x.click} : batch'[c] = batch[c]
        BY <1>b, <2>1, <2>3
    <2>5. \A c \in spawned \cup queue : c \in Clicks /\ c # x.click
        BY <1>a, <1>b, <2>3
    <2>6. \A d \in stream' : d.click \in Clicks /\ d.click # x.click
        BY <1>a, <1>b, <2>1, <2>3
    <2>7. /\ \A c \in spawned' : Uncounted(c)' /\ c \notin queue'
          /\ \A c \in queue' : Uncounted(c)'
        BY <1>a, <2>2, <2>4, <2>5 DEF Uncounted
    <2>8. \A d \in stream' : Uncounted(d.click)'
        BY <1>a, <2>1, <2>2, <2>4, <2>6 DEF Uncounted
    <2>9. ASSUME NEW c \in Clicks PROVE counted'[c] + batch'[c] <= 1
        <3>1. CASE c = x.click
            BY <2>2, <2>3, <2>4, <3>1
        <3>2. CASE c # x.click
            BY <1>a, <2>2, <2>4, <3>2
        <3> QED BY <3>1, <3>2
    <2>10. ExactlyOnceWithoutFaults'
        BY <2>2, <2>9 DEF ExactlyOnceWithoutFaults
    <2>11. stream' \subseteq unacked'
        BY <1>a, <2>1, <2>2
    <2> QED BY <1>a, <2>2, <2>7, <2>8, <2>10, <2>11 DEF OnceInv, InOnePlace
<1>6. CASE Tick
    BY <1>6, <1>a, <1>b DEF Tick, OnceInv, InOnePlace, Uncounted,
        ExactlyOnceWithoutFaults, publisher, broker, database
<1>7. CASE FlushOk
    <2>1. /\ pc = "flush" /\ pc' = "ack"
          /\ UNCHANGED <<spawned, queue, unacked, connected, stream, batch>>
        BY <1>7 DEF FlushOk, publisher, broker
    <2>2. ASSUME NEW c \in Clicks
          PROVE  counted'[c] = counted[c] \/ counted'[c] = counted[c] + batch[c]
        BY <1>7, <1>b DEF FlushOk, ApplyBatch
    <2>3. ASSUME NEW c \in Clicks, Uncounted(c) PROVE Uncounted(c)'
        BY <1>b, <2>1, <2>2, <2>3 DEF Uncounted
    <2>4. ASSUME NEW c \in Clicks PROVE counted'[c] + 0 <= 1
        <3>1. counted[c] + batch[c] <= 1 /\ counted[c] \in Nat /\ batch[c] \in Nat
            BY <1>a, <1>b, <2>1
        <3> QED BY <2>2, <3>1
    <2>5. ExactlyOnceWithoutFaults'
        BY <2>1, <2>4 DEF ExactlyOnceWithoutFaults
    <2> QED BY <1>a, <1>b, <2>1, <2>3, <2>5 DEF OnceInv, InOnePlace
<1>8. CASE FlushFails
    BY <1>0, <1>8 DEF FlushFails
<1>9. CASE Ack
    <2>1. /\ pc = "ack" /\ pc' = "select" /\ unacked' = unacked \ Settles
          /\ batch' = [c \in Clicks |-> 0]
          /\ UNCHANGED <<spawned, queue, connected, stream, counted>>
        BY <1>9 DEF Ack, publisher, database
    <2>2. stream' \subseteq unacked'
        <3>1. ASSUME NEW d \in stream PROVE d \notin Settles
            BY <1>b DEF LoopInv, TagOrder, Settles, Delivery, TypeOK
        <3> QED BY <1>a, <2>1, <3>1
    <2>3. ASSUME NEW c \in Clicks, Uncounted(c) PROVE Uncounted(c)'
        BY <2>1, <2>3 DEF Uncounted
    <2>4. ASSUME NEW c \in Clicks PROVE counted'[c] + batch'[c] <= 1
        BY <1>a, <2>1
    <2>5. ExactlyOnceWithoutFaults'
        BY <2>1, <2>4 DEF ExactlyOnceWithoutFaults
    <2> QED BY <1>a, <1>b, <2>1, <2>2, <2>3, <2>5 DEF OnceInv, InOnePlace
<1>10. CASE Nack
    BY <1>a, <1>10 DEF Nack
<1>11. CASE Disconnect \/ BrokerRestart \/ Crash
    BY <1>0, <1>11 DEF Disconnect, BrokerRestart, Crash
<1>12. CASE Restart
    BY <1>a, <1>12 DEF Restart
<1>13. CASE UNCHANGED vars
    BY <1>13, <1>a DEF vars, publisher, broker, consumer, database, OnceInv,
        InOnePlace, Uncounted, ExactlyOnceWithoutFaults
<1> QED
    BY <1>1, <1>2, <1>3, <1>4, <1>5, <1>6, <1>7, <1>8, <1>9, <1>10, <1>11,
       <1>12, <1>13 DEF Next, Loop

\* Without a fault no click is counted twice, in the database and in the batch
\* together, for any batch size and any deletions.
THEOREM CountedOnceWithoutFaults == Spec => []ExactlyOnceWithoutFaults
<1>1. OnceInv => ExactlyOnceWithoutFaults
    BY DEF OnceInv
<1>2. IInv => TypeOK /\ LoopInv
    BY DEF IInv
<1> QED BY OnceInit, OnceStep, Invariance, <1>1, <1>2, PTL DEF Spec

----------------------------------------------------------------------------
(* What is in the batch: as often as it is counted, it was read.           *)

ReadOf(c) == {d \in ReadUnsettled : d.click = c}

\* The batch agrees with the deliveries read and not settled.
Mirrors ==
    /\ totalClicks = Cardinality(ReadUnsettled)
    /\ \A c \in Clicks : batch[c] = Cardinality(ReadOf(c))

MirrorInv ==
    /\ IsFiniteSet(unacked)
    /\ connected => stream \subseteq unacked
    /\ pc = "down" => /\ unacked = {} /\ stream = {} /\ totalClicks = 0
                      /\ batch = [c \in Clicks |-> 0]
    /\ pc = "backoff" => failures # 0
    /\ (connected /\ failures = 0 /\ pc \in {"select", "flush"}) => Mirrors
    /\ (connected /\ failures = 0 /\ pc = "select") => totalClicks < BatchSize

\* Nothing read and unsettled is an empty batch.
LEMMA EmptyMirrors ==
    ASSUME ReadUnsettled = {}, totalClicks = 0, batch = [c \in Clicks |-> 0]
    PROVE  Mirrors
<1>1. \A c \in Clicks : ReadOf(c) = {}
    BY DEF ReadOf
<1> QED BY <1>1, FS_EmptySet DEF Mirrors

\* A step that leaves what was read, and the batch, alone.
LEMMA SameMirrors ==
    ASSUME Mirrors, ReadUnsettled' = ReadUnsettled,
           totalClicks' = totalClicks, batch' = batch
    PROVE  Mirrors'
<1>1. \A c \in Clicks : ReadOf(c)' = ReadOf(c)
    BY DEF ReadOf
<1> QED BY <1>1 DEF Mirrors

LEMMA MirrorInit == Init => MirrorInv
<1> SUFFICES ASSUME Init PROVE MirrorInv
    OBVIOUS
<1>1. /\ unacked = {} /\ stream = {} /\ totalClicks = 0 /\ pc = "select"
      /\ batch = [c \in Clicks |-> 0]
    BY DEF Init
<1>2. Mirrors
    BY <1>1, EmptyMirrors DEF ReadUnsettled
<1>3. totalClicks < BatchSize
    BY <1>1, BatchAssumption
<1> QED BY <1>1, <1>2, <1>3, FS_EmptySet DEF MirrorInv

LEMMA MirrorStep == TypeOK /\ LoopInv /\ MirrorInv /\ [Next]_vars => MirrorInv'
<1> SUFFICES ASSUME TypeOK, LoopInv, MirrorInv, [Next]_vars PROVE MirrorInv'
    OBVIOUS
<1>0. /\ unacked \subseteq Delivery /\ stream \subseteq Delivery
      /\ batch \in [Clicks -> Nat] /\ totalClicks \in Nat /\ failures \in Nat
      /\ nextTag \in Nat /\ lastTag \in Nat
      /\ \A d \in Delivery : d.tag \in Nat /\ d.click \in Clicks
    BY DEF TypeOK, Delivery
<1>a. /\ IsFiniteSet(unacked)
      /\ connected => stream \subseteq unacked
      /\ pc = "down" => /\ unacked = {} /\ stream = {} /\ totalClicks = 0
                        /\ batch = [c \in Clicks |-> 0]
      /\ pc = "backoff" => failures # 0
      /\ (connected /\ failures = 0 /\ pc \in {"select", "flush"}) => Mirrors
      /\ (connected /\ failures = 0 /\ pc = "select") => totalClicks < BatchSize
    BY DEF MirrorInv
<1>b. ASSUME UNCHANGED <<unacked, stream, connected, pc, failures, totalClicks,
                         batch>>
      PROVE  MirrorInv'
    BY <1>a, <1>b, SameMirrors DEF MirrorInv, ReadUnsettled
<1>1. ASSUME NEW c \in Clicks, Publish(c) PROVE MirrorInv'
    BY <1>1, <1>b DEF Publish, consumer
<1>2. ASSUME NEW c \in Clicks, PublishFails(c) PROVE MirrorInv'
    BY <1>2, <1>b DEF PublishFails, broker, consumer
<1>3. ASSUME NEW c \in Clicks, Deliver(c) PROVE MirrorInv'
    <2> DEFINE x == [tag |-> nextTag, click |-> c]
    <2>1. /\ unacked' = unacked \cup {x} /\ stream' = stream \cup {x}
          /\ x.tag = nextTag /\ connected
          /\ UNCHANGED <<connected, pc, failures, totalClicks, batch>>
        BY <1>3 DEF Deliver
    <2>2. x \notin ReadUnsettled
        <3>1. lastTag < nextTag /\ \A d \in ReadUnsettled : d.tag <= lastTag
            BY DEF LoopInv, TagOrder, ReadCovered
        <3>2. \A d \in ReadUnsettled : d.tag \in Nat
            BY <1>0 DEF ReadUnsettled
        <3>3. \A d \in ReadUnsettled : d.tag # nextTag
            BY <1>0, <3>1, <3>2
        <3> QED BY <2>1, <3>3
    <2>3. ReadUnsettled' = ReadUnsettled
        BY <2>1, <2>2 DEF ReadUnsettled
    <2>4. IsFiniteSet(unacked')
        BY <1>a, <2>1, FS_AddElement
    <2>5. Mirrors => Mirrors'
        BY <2>1, <2>3, SameMirrors
    <2>6. pc # "down"
        BY <2>1 DEF LoopInv, Offline
    <2> QED BY <1>a, <2>1, <2>4, <2>5, <2>6 DEF MirrorInv
<1>4. ASSUME NEW code \in Codes, DeleteRow(code) PROVE MirrorInv'
    BY <1>4, <1>b DEF DeleteRow, broker, consumer
<1>5. CASE Read
    <2>1. PICK x \in stream :
            /\ stream' = stream \ {x}
            /\ batch' = [batch EXCEPT ![x.click] = @ + 1]
        BY <1>5 DEF Read
    <2>2. /\ pc = "select" /\ totalClicks' = totalClicks + 1
          /\ pc' = IF totalClicks + 1 >= BatchSize THEN "flush" ELSE "select"
          /\ UNCHANGED <<unacked, connected, failures>>
        BY <1>5 DEF Read, broker
    <2>3. ASSUME connected, failures = 0 PROVE Mirrors'
        <3>1. /\ x \in unacked /\ x \notin ReadUnsettled /\ x.click \in Clicks
              /\ ReadUnsettled' = ReadUnsettled \cup {x}
            BY <1>0, <1>a, <2>1, <2>2, <2>3 DEF ReadUnsettled
        <3>2. IsFiniteSet(ReadUnsettled)
            BY <1>a, FS_Subset DEF ReadUnsettled
        <3>3. totalClicks' = Cardinality(ReadUnsettled')
            BY <1>a, <2>2, <2>3, <3>1, <3>2, FS_AddElement DEF Mirrors
        <3>4. ASSUME NEW c \in Clicks PROVE batch'[c] = Cardinality(ReadOf(c)')
            <4>1. batch[c] = Cardinality(ReadOf(c))
                BY <1>a, <2>2, <2>3 DEF Mirrors
            <4>2. CASE c = x.click
                <5>1. ReadOf(c)' = ReadOf(c) \cup {x} /\ x \notin ReadOf(c)
                    BY <3>1, <4>2 DEF ReadOf
                <5>2. IsFiniteSet(ReadOf(c))
                    BY <3>2, FS_Subset DEF ReadOf
                <5>3. Cardinality(ReadOf(c)') = Cardinality(ReadOf(c)) + 1
                    BY <5>1, <5>2, FS_AddElement
                <5>4. batch'[c] = batch[c] + 1
                    BY <1>0, <2>1, <4>2
                <5> QED BY <4>1, <5>3, <5>4
            <4>3. CASE c # x.click
                <5>1. ReadOf(c)' = ReadOf(c)
                    BY <3>1, <4>3 DEF ReadOf
                <5>2. batch'[c] = batch[c]
                    BY <1>0, <2>1, <4>3
                <5> QED BY <4>1, <5>1, <5>2
            <4> QED BY <4>2, <4>3
        <3> QED BY <3>3, <3>4 DEF Mirrors
    <2>4. pc' = "select" => totalClicks' < BatchSize
        BY <1>0, <2>2, BatchAssumption
    <2>5. pc' \in {"select", "flush"}
        BY <2>2
    <2>6. connected' => stream' \subseteq unacked'
        BY <1>a, <2>1, <2>2
    <2> QED BY <1>a, <2>2, <2>3, <2>4, <2>5, <2>6 DEF MirrorInv
<1>6. CASE Tick
    <2>1. /\ pc = "select" /\ pc' = "flush"
          /\ UNCHANGED <<unacked, stream, connected, failures, totalClicks, batch>>
        BY <1>6 DEF Tick, broker
    <2>2. Mirrors => Mirrors'
        BY <2>1, SameMirrors DEF ReadUnsettled
    <2> QED BY <1>a, <2>1, <2>2 DEF MirrorInv
<1>7. CASE FlushOk
    BY <1>7, <1>a DEF FlushOk, broker, MirrorInv
<1>8. CASE FlushFails
    <2>1. /\ pc' = "backoff" /\ failures' = failures + 1
          /\ UNCHANGED <<unacked, stream, connected>>
        BY <1>8 DEF FlushFails, broker
    <2>2. failures' # 0
        BY <1>0, <2>1
    <2> QED BY <1>a, <2>1, <2>2 DEF MirrorInv
<1>9. CASE Ack
    <2>1. /\ pc' = "select" /\ unacked' = unacked \ Settles
          /\ totalClicks' = 0 /\ batch' = [c \in Clicks |-> 0]
          /\ UNCHANGED <<stream, connected, failures>>
        BY <1>9 DEF Ack
    <2>2. IsFiniteSet(unacked')
        BY <1>a, <2>1, FS_Subset
    <2>3. connected => stream' \subseteq unacked'
        <3>1. ASSUME NEW d \in stream PROVE d \notin Settles
            BY <1>0 DEF LoopInv, TagOrder, Settles
        <3> QED BY <1>a, <2>1, <3>1
    <2>4. ASSUME connected PROVE Mirrors'
        <3>1. ReadUnsettled' = {}
            BY <2>1, <2>4 DEF LoopInv, ReadCovered, ReadUnsettled, Settles
        <3>2. \A c \in Clicks : ReadOf(c)' = {} /\ batch'[c] = 0
            BY <2>1, <3>1 DEF ReadOf
        <3> QED BY <2>1, <3>1, <3>2, FS_EmptySet DEF Mirrors
    <2>5. totalClicks' < BatchSize
        BY <2>1, BatchAssumption
    <2> QED BY <2>1, <2>2, <2>3, <2>4, <2>5 DEF MirrorInv
<1>10. CASE Nack
    <2>1. /\ pc = "backoff" /\ pc' = "select" /\ unacked' = unacked \ Settles
          /\ UNCHANGED <<stream, connected, failures>>
        BY <1>10 DEF Nack
    <2>2. IsFiniteSet(unacked')
        BY <1>a, <2>1, FS_Subset
    <2>3. connected => stream' \subseteq unacked'
        <3>1. ASSUME NEW d \in stream PROVE d \notin Settles
            BY <1>0 DEF LoopInv, TagOrder, Settles
        <3> QED BY <1>a, <2>1, <3>1
    <2> QED BY <1>a, <2>1, <2>2, <2>3 DEF MirrorInv
<1>11. CASE Disconnect \/ BrokerRestart
    <2>1. /\ unacked' = {} /\ ~connected'
          /\ stream' \in {stream, {}}
          /\ UNCHANGED <<pc, failures, totalClicks, batch>>
        BY <1>11 DEF Disconnect, BrokerRestart
    <2> QED BY <1>a, <2>1, FS_EmptySet DEF MirrorInv
<1>12. CASE Crash
    <2>1. /\ unacked' = {} /\ stream' = {} /\ ~connected' /\ pc' = "down"
          /\ totalClicks' = 0 /\ batch' = [c \in Clicks |-> 0]
        BY <1>12 DEF Crash, FreshLocals
    <2> QED BY <2>1, FS_EmptySet DEF MirrorInv
<1>13. CASE Restart
    <2>1. /\ unacked = {} /\ stream = {} /\ totalClicks = 0
          /\ batch = [c \in Clicks |-> 0]
          /\ pc' = "select"
          /\ UNCHANGED <<unacked, stream, totalClicks, batch, failures>>
        BY <1>13, <1>a DEF Restart
    <2>2. Mirrors /\ ReadUnsettled' = ReadUnsettled
        BY <2>1, EmptyMirrors DEF ReadUnsettled
    <2>3. Mirrors'
        BY <2>1, <2>2, SameMirrors
    <2>4. totalClicks' < BatchSize
        BY <2>1, BatchAssumption
    <2> QED BY <1>a, <2>1, <2>3, <2>4 DEF MirrorInv
<1>14. CASE UNCHANGED vars
    BY <1>14, <1>b DEF vars, broker, consumer
<1> QED
    BY <1>1, <1>2, <1>3, <1>4, <1>5, <1>6, <1>7, <1>8, <1>9, <1>10, <1>11,
       <1>12, <1>13, <1>14 DEF Next, Loop

\* Until a flush fails, the batch holds what was read and is not settled, and a
\* batch that is due is not waited with.
THEOREM BatchIsWhatWasRead == Spec => []BatchMirrorsUnacked
<1>1. MirrorInv => BatchMirrorsUnacked
    BY DEF MirrorInv, Mirrors, ReadOf, ReadUnsettled, BatchMirrorsUnacked
<1>2. IInv => TypeOK /\ LoopInv
    BY DEF IInv
<1> QED BY MirrorInit, MirrorStep, Invariance, <1>1, <1>2, PTL DEF Spec
=============================================================================
