-------------------------- MODULE UserDeletionProofs --------------------------
(***************************************************************************)
(* Proofs about UserDeletion, for any users, codes, requests and faults:   *)
(* the type invariant, that retry counts are honest, that no event is      *)
(* lost, that the consumer duplicates none, and that the cascade evicts    *)
(* every key of what it deletes.                                           *)
(***************************************************************************)
EXTENDS UserDeletion, FiniteSetTheorems, TLAPS

\* The consumer holds a delivery exactly while it works on one, and is ready
\* for another only on a live channel.
Holding ==
    /\ \A j, k \in current : j = k
    /\ current # {} <=> pc \in {"delete", "evict", "republish", "republished"}
    /\ pc = "idle" => connected

\* EventNotLost, and what makes it inductive: once the channel is dead the copy
\* in the consumer's hands does not count, the broker has its own again.
EventKept ==
    \A u \in due :
        \/ \E m \in Message : m.user = u /\ msgs[m] > 0
        \/ connected /\ \E j \in current : j.user = u /\ pc \in {"delete", "republish"}

\* RetriesAreEarned extends to the delivery in the consumer's hands.
JobEarned ==
    \A j \in current :
        /\ failed[j.user] >= j.retries
        /\ pc = "republish" => failed[j.user] > j.retries

Earned == RetriesAreEarned /\ JobEarned

IInv == TypeOK /\ Holding /\ Earned /\ EventKept

\* What url-service does to a code.
Redirects(c) == Shorten(c) \/ ReadRow(c) \/ EndFill(c) \/ Replay(c)

----------------------------------------------------------------------------
\* Every declared message may be published.
LEMMA MessagePublished == Message \subseteq Published
<1>1. 0..MaxRetries \subseteq 0..(MaxRetries + 1)
    BY DEF MaxRetries
<1> QED BY <1>1 DEF Message, Published

\* Every backoff the consumer computes names a retry queue that is declared.
LEMMA RetryQueueDeclared ==
    ASSUME NEW n \in 0..2
    PROVE  RetryQueue(n) \in RetryQueues
<1>1. 3 ^ (0 + 1) = 3
    OBVIOUS
<1>2. 3 ^ (1 + 1) = 9
    OBVIOUS
<1>3. 3 ^ (2 + 1) = 27
    OBVIOUS
<1>4. CASE n = 0
    BY <1>1, <1>4 DEF RetryQueue, QueueOf, RetryQueues, Queues
<1>5. CASE n = 1
    BY <1>2, <1>5 DEF RetryQueue, QueueOf, RetryQueues, Queues
<1>6. CASE n = 2
    BY <1>3, <1>6 DEF RetryQueue, QueueOf, RetryQueues, Queues
<1> QED BY <1>4, <1>5, <1>6

\* A message of the main queue with a legal count is declared.
LEMMA MainMessage ==
    ASSUME NEW u \in Users, NEW n \in 0..MaxRetries
    PROVE  /\ Msg("user_deleted_queue", u, n) \in Message
           /\ Msg("user_deleted_queue", u, n) \in Published
           /\ Msg("user_deleted_queue", u, n).queue = "user_deleted_queue"
           /\ Msg("user_deleted_queue", u, n).user = u
           /\ Msg("user_deleted_queue", u, n).retries = n
BY DEF Msg, Message, Published, Queues, MaxRetries

\* The delivery in hand has a legal count.
LEMMA InHand ==
    ASSUME TypeOK, NEW j \in current
    PROVE  j \in Job /\ j.user \in Users /\ j.retries \in 0..MaxRetries
BY DEF TypeOK, Job, MaxRetries

\* A failed delivery goes to a declared queue: never is an event republished to
\* a queue that does not exist.
LEMMA RetryOrDlqDeclared ==
    ASSUME NEW j, j.user \in Users, j.retries \in 0..MaxRetries
    PROVE  /\ RetryOrDlq(j) \in Message
           /\ RetryOrDlq(j).user = j.user
           /\ RetryOrDlq(j).retries <= j.retries + 1
           /\ RetryOrDlq(j).queue \in RetryQueues =>
                  /\ RetryOrDlq(j).retries = j.retries + 1
                  /\ RetryOrDlq(j).queue = RetryQueue(j.retries)
           /\ RetryOrDlq(j).queue = "user_deleted_dlq" =>
                  RetryOrDlq(j).retries = 3 /\ j.retries = 3
<1>1. j.user \in Users /\ j.retries \in 0..3
    BY DEF MaxRetries
<1>2. CASE j.retries >= 3
    BY <1>1, <1>2 DEF RetryOrDlq, Msg, Message, Queues, RetryQueues, MaxRetries
<1>3. CASE ~(j.retries >= 3)
    <2>1. j.retries \in 0..2
        BY <1>1, <1>3
    <2>2. RetryQueue(j.retries) \in RetryQueues
        BY <2>1, RetryQueueDeclared
    <2>3. RetryOrDlq(j) = Msg(RetryQueue(j.retries), j.user, j.retries + 1)
        BY <1>3 DEF RetryOrDlq
    <2> QED BY <1>1, <2>1, <2>2, <2>3 DEF Msg, Message, RetryQueues, MaxRetries
<1> QED BY <1>2, <1>3

\* What TypeOK says of the messages: they are declared.
MsgsOK == /\ msgs \in [Published -> Nat]
          /\ \A m \in Published : msgs[m] > 0 => m \in Message

\* What one more copy of a message changes.
LEMMA PutCopies ==
    ASSUME TypeOK, NEW m \in Message, Put(m)
    PROVE  /\ MsgsOK' /\ msgs'[m] > 0
           /\ \A x \in Message : msgs[x] > 0 => msgs'[x] > 0
           /\ \A x \in Message : msgs'[x] > 0 => x = m \/ msgs[x] > 0
BY MessagePublished DEF TypeOK, MsgsOK, Put

\* What a dying channel does with the delivery in the consumer's hands.
LEMMA RequeueCopies ==
    ASSUME TypeOK, Requeue
    PROVE  /\ MsgsOK'
           /\ \A x \in Message : msgs[x] > 0 => msgs'[x] > 0
           /\ \A x \in Message : msgs'[x] > 0 =>
                \/ msgs[x] > 0
                \/ \E j \in current : x = Msg("user_deleted_queue", j.user, j.retries)
           /\ connected /\ current # {} =>
                \E j \in current :
                    msgs'[Msg("user_deleted_queue", j.user, j.retries)] > 0
<1>1. CASE connected /\ current # {}
    <2>1. PICK j \in current : Put(Msg("user_deleted_queue", j.user, j.retries))
        BY <1>1 DEF Requeue
    <2>2. j.user \in Users /\ j.retries \in 0..MaxRetries
        BY InHand
    <2> QED BY <1>1, <2>1, <2>2, MainMessage, PutCopies
<1>2. CASE ~(connected /\ current # {})
    BY <1>2 DEF Requeue, TypeOK, MsgsOK
<1> QED BY <1>1, <1>2

\* The TTL moves one copy to the main queue.
LEMMA DeadLetterCopies ==
    ASSUME TypeOK, NEW m \in Published, DeadLetter(m)
    PROVE  /\ m \in Message /\ msgs[m] > 0
           /\ \E to \in Message :
                /\ to.queue = "user_deleted_queue" /\ to.user = m.user
                /\ to.retries = m.retries /\ to # m
                /\ msgs' = [msgs EXCEPT ![m] = @ - 1, ![to] = @ + 1]
                /\ MsgsOK' /\ msgs'[to] > 0
                /\ \A x \in Message : msgs'[x] > 0 => x = to \/ msgs[x] > 0
                /\ \A x \in Message : msgs[x] > 0 => x = m \/ msgs'[x] > 0
<1> DEFINE to == Msg("user_deleted_queue", m.user, m.retries)
<1>1. m \in Message /\ msgs[m] > 0
    BY DEF DeadLetter, TypeOK
<1>2. /\ to \in Message /\ to \in Published /\ to.queue = "user_deleted_queue"
      /\ to.user = m.user /\ to.retries = m.retries
    BY <1>1, MainMessage DEF Message
<1>3. to # m
    BY <1>2 DEF DeadLetter, RetryQueues
<1>4. msgs' = [msgs EXCEPT ![m] = @ - 1, ![to] = @ + 1]
    BY DEF DeadLetter
<1>5. msgs \in [Published -> Nat] /\ \A x \in Published : msgs[x] > 0 => x \in Message
    BY DEF TypeOK
<1> HIDE DEF to
<1>6. \A x \in Published :
        msgs'[x] = IF x = m THEN msgs[m] - 1 ELSE IF x = to THEN msgs[to] + 1 ELSE msgs[x]
    BY <1>2, <1>3, <1>4, <1>5
<1>7. msgs' \in [Published -> Nat]
    BY <1>1, <1>2, <1>3, <1>4, <1>5
<1>8. MsgsOK'
    BY <1>1, <1>2, <1>5, <1>6, <1>7 DEF MsgsOK
<1>9. /\ msgs'[to] > 0
      /\ \A x \in Published : msgs'[x] > 0 => x = to \/ msgs[x] > 0
      /\ \A x \in Published : msgs[x] > 0 => x = m \/ msgs'[x] > 0
    BY <1>1, <1>2, <1>3, <1>5, <1>6
<1> QED BY <1>1, <1>2, <1>3, <1>4, <1>8, <1>9, MessagePublished

\* The consumer takes a copy of the main queue.
LEMMA TakeCopies ==
    ASSUME TypeOK, Take
    PROVE  \E m \in Message, j \in Job :
             /\ m.queue = "user_deleted_queue"
             /\ m.user = j.user /\ m.retries = j.retries /\ j.retries <= MaxRetries
             /\ msgs[m] > 0 /\ msgs' = [msgs EXCEPT ![m] = @ - 1]
             /\ current' = {j} /\ MsgsOK'
<1>1. PICK m \in Published :
        /\ m.queue = "user_deleted_queue" /\ msgs[m] > 0
        /\ msgs' = [msgs EXCEPT ![m] = @ - 1]
        /\ current' = {[user |-> m.user, retries |-> m.retries]}
    BY DEF Take
<1> DEFINE j == [user |-> m.user, retries |-> m.retries]
<1>2. m \in Message
    BY <1>1 DEF TypeOK
<1>3. j \in Job /\ j.user = m.user /\ j.retries = m.retries /\ j.retries <= MaxRetries
    BY <1>2 DEF Message, Job, MaxRetries
<1>4. MsgsOK'
    BY <1>1 DEF TypeOK, MsgsOK
<1> QED BY <1>1, <1>2, <1>3, <1>4

----------------------------------------------------------------------------
\* The initial state satisfies the inductive invariant.
LEMMA InitIInv == Init => IInv
<1> SUFFICES ASSUME Init PROVE IInv
    OBVIOUS
<1>1. TypeOK
    BY FaultAssumption DEF Init, TypeOK
<1>2. Holding
    BY DEF Init, Holding
<1>3. Earned
    BY MessagePublished DEF Init, Earned, RetriesAreEarned, JobEarned
<1>4. EventKept
    BY DEF Init, EventKept
<1> QED BY <1>1, <1>2, <1>3, <1>4 DEF IInv

\* Every step of UserDeletion preserves the types of its state.
LEMMA TypeStep == TypeOK /\ [Next]_vars => TypeOK'
<1> SUFFICES ASSUME TypeOK, [Next]_vars PROVE TypeOK'
    OBVIOUS
<1> USE FaultAssumption DEF auth, broker, consumer, urls, cache, faulty
<1>1. ASSUME NEW c \in Codes, Shorten(c) PROVE TypeOK'
    BY <1>1 DEF Shorten, TypeOK
<1>2. ASSUME NEW c \in Codes, ReadRow(c) \/ EndFill(c) \/ Replay(c) PROVE TypeOK'
    BY <1>2 DEF ReadRow, EndFill, Replay, TypeOK
<1>3. ASSUME NEW u \in Users, DeleteAccount(u) PROVE TypeOK'
    BY <1>3 DEF DeleteAccount, TypeOK
<1>4. ASSUME NEW u \in Users, PublishEvent(u) PROVE TypeOK'
    <2>1. MsgsOK'
        BY <1>4, MainMessage, PutCopies DEF PublishEvent, MaxRetries
    <2>2. publishing' \in [Users -> Nat]
        BY <1>4 DEF PublishEvent, TypeOK
    <2> QED BY <1>4, <2>1, <2>2 DEF PublishEvent, TypeOK, MsgsOK
<1>5. ASSUME NEW u \in Users, PublishFails(u) PROVE TypeOK'
    <2>1. publishing' \in [Users -> Nat]
        BY <1>5 DEF PublishFails, TypeOK
    <2> QED BY <1>5, <2>1 DEF PublishFails, Fault, TypeOK
<1>6. ASSUME NEW m \in Published, DeadLetter(m) PROVE TypeOK'
    <2>1. MsgsOK'
        BY <1>6, DeadLetterCopies
    <2> QED BY <1>6, <2>1 DEF DeadLetter, TypeOK, MsgsOK
<1>7. CASE Take
    <2>1. MsgsOK' /\ current' \subseteq Job /\ \A j \in current' : j.retries <= MaxRetries
        BY <1>7, TakeCopies
    <2> QED BY <1>7, <2>1 DEF Take, TypeOK, MsgsOK
<1>8. CASE DeleteUrls
    BY <1>8 DEF DeleteUrls, Wipe, OwnedBy, TypeOK
<1>9. CASE DeleteUrlsFails
    <2>1. PICK j \in current :
            /\ \/ Fault("dbError") /\ UNCHANGED <<rows, lagging, unevicted, due>>
               \/ Fault("lateDbError") /\ Wipe(j.user)
            /\ failed' = [failed EXCEPT ![j.user] = @ + 1]
        BY <1>9 DEF DeleteUrlsFails
    <2>2. /\ rows' \subseteq Codes /\ due' \subseteq Users
          /\ lagging' \subseteq Codes /\ unevicted' \subseteq Codes
        BY <2>1 DEF Wipe, OwnedBy, TypeOK
    <2>3. faults' \in 0..MaxFaults /\ happened' \subseteq Faults
        BY <2>1 DEF Fault, TypeOK
    <2>4. failed' \in [Users -> Nat]
        BY <2>1 DEF TypeOK, Job
    <2> QED BY <1>9, <2>2, <2>3, <2>4 DEF DeleteUrlsFails, TypeOK
<1>10. ASSUME NEW c \in Codes, Evict(c) PROVE TypeOK'
    <2>1. redis' \subseteq Codes /\ unevicted' \subseteq Codes
        BY <1>10 DEF Evict, TypeOK
    <2>2. faults' \in 0..MaxFaults /\ happened' \subseteq Faults
        BY <1>10 DEF Evict, Fault, TypeOK
    <2> QED BY <1>10, <2>1, <2>2 DEF Evict, TypeOK
<1>11. CASE Republish
    <2>1. PICK j \in current : IF connected THEN Put(RetryOrDlq(j)) ELSE UNCHANGED msgs
        BY <1>11 DEF Republish
    <2>2. RetryOrDlq(j) \in Message
        BY InHand, RetryOrDlqDeclared
    <2>3. MsgsOK'
        <3>1. CASE connected
            BY <2>1, <2>2, <3>1, PutCopies
        <3>2. CASE ~connected
            BY <2>1, <3>2 DEF TypeOK, MsgsOK
        <3> QED BY <3>1, <3>2
    <2> QED BY <1>11, <2>3 DEF Republish, TypeOK, MsgsOK
<1>12. CASE Ack
    BY <1>12 DEF Ack, TypeOK
<1>13. CASE Disconnect
    <2>1. MsgsOK'
        BY <1>13, RequeueCopies DEF Disconnect
    <2>2. faults' \in 0..MaxFaults /\ happened' \subseteq Faults
        BY <1>13 DEF Disconnect, Fault, TypeOK
    <2>3. connected' \in BOOLEAN
        BY <1>13 DEF Disconnect
    <2> QED BY <1>13, <2>1, <2>2, <2>3 DEF Disconnect, TypeOK, MsgsOK
<1>14. CASE BrokerRestart
    <2>1. faults' \in 0..MaxFaults /\ happened' \subseteq Faults
        BY <1>14 DEF BrokerRestart, Fault, TypeOK
    <2>2. MsgsOK'
        BY <1>14 DEF BrokerRestart, MsgsOK
    <2>3. due' = {} /\ connected' = FALSE /\ pc' \in {pc, "stopped"}
        BY <1>14 DEF BrokerRestart
    <2> QED BY <1>14, <2>1, <2>2, <2>3 DEF BrokerRestart, TypeOK, MsgsOK
<1>15. CASE Crash
    <2>1. MsgsOK'
        BY <1>15, RequeueCopies DEF Crash
    <2>2. faults' \in 0..MaxFaults /\ happened' \subseteq Faults
        BY <1>15 DEF Crash, Fault, TypeOK
    <2> QED BY <1>15, <2>1, <2>2 DEF Crash, TypeOK, MsgsOK
<1>16. CASE Restart
    BY <1>16 DEF Restart, TypeOK
<1>17. CASE UNCHANGED vars
    BY <1>17 DEF vars, TypeOK
<1> QED
    BY <1>1, <1>2, <1>3, <1>4, <1>5, <1>6, <1>7, <1>8, <1>9, <1>10, <1>11, <1>12,
       <1>13, <1>14, <1>15, <1>16, <1>17 DEF Next, Loop

\* Every step keeps the consumer's one delivery consistent with its place.
LEMMA HoldingStep == TypeOK /\ Holding /\ [Next]_vars => Holding'
<1> SUFFICES ASSUME TypeOK, Holding, [Next]_vars PROVE Holding'
    OBVIOUS
<1> USE DEF Holding, auth, broker, consumer, urls, cache, faulty
<1>1. ASSUME NEW c \in Codes, Redirects(c) \/ Evict(c) PROVE Holding'
    BY <1>1 DEF Redirects, Shorten, ReadRow, EndFill, Replay, Evict
<1>2. ASSUME NEW u \in Users, DeleteAccount(u) \/ PublishEvent(u) \/ PublishFails(u)
      PROVE  Holding'
    BY <1>2 DEF DeleteAccount, PublishEvent, PublishFails
<1>3. ASSUME NEW m \in Published, DeadLetter(m) PROVE Holding'
    BY <1>3 DEF DeadLetter
<1>4. CASE Take
    BY <1>4 DEF Take
<1>5. CASE DeleteUrls
    BY <1>5 DEF DeleteUrls
<1>6. CASE DeleteUrlsFails
    BY <1>6 DEF DeleteUrlsFails
<1>7. CASE Republish
    BY <1>7 DEF Republish
<1>8. CASE Ack
    BY <1>8 DEF Ack
<1>9. CASE Disconnect
    BY <1>9 DEF Disconnect
<1>10. CASE BrokerRestart
    BY <1>10 DEF BrokerRestart
<1>11. CASE Crash
    BY <1>11 DEF Crash
<1>12. CASE Restart
    BY <1>12 DEF Restart
<1>13. CASE UNCHANGED vars
    BY <1>13 DEF vars
<1> QED
    BY <1>1, <1>2, <1>3, <1>4, <1>5, <1>6, <1>7, <1>8, <1>9, <1>10, <1>11, <1>12,
       <1>13 DEF Next, Loop, Redirects

\* Every step keeps the retry counts honest.
LEMMA EarnedStep == TypeOK /\ Holding /\ Earned /\ [Next]_vars => Earned'
<1> SUFFICES ASSUME TypeOK, Holding, Earned, [Next]_vars PROVE Earned'
    OBVIOUS
<1> USE DEF auth, broker, consumer, urls, cache, faulty
<1>1. ASSUME UNCHANGED <<msgs, current, failed>>, pc' # "republish" PROVE Earned'
    BY <1>1 DEF Earned, RetriesAreEarned, JobEarned
<1>2. ASSUME UNCHANGED <<msgs, current, failed, pc>> PROVE Earned'
    BY <1>2 DEF Earned, RetriesAreEarned, JobEarned
<1>3. ASSUME NEW c \in Codes, Redirects(c) \/ Evict(c) PROVE Earned'
    BY <1>2, <1>3 DEF Redirects, Shorten, ReadRow, EndFill, Replay, Evict
<1>4. ASSUME NEW u \in Users, DeleteAccount(u) \/ PublishFails(u) PROVE Earned'
    BY <1>2, <1>4 DEF DeleteAccount, PublishFails
<1>5. ASSUME NEW u \in Users, PublishEvent(u) PROVE Earned'
    <2> DEFINE n == Msg("user_deleted_queue", u, 0)
    <2>1. n \in Message /\ n.queue = "user_deleted_queue" /\ n.user = u /\ n.retries = 0
        BY MainMessage DEF MaxRetries
    <2>2. \A x \in Message : msgs'[x] > 0 => x = n \/ msgs[x] > 0
        BY <1>5, <2>1, PutCopies DEF PublishEvent
    <2>3. UNCHANGED <<current, failed, pc>>
        BY <1>5 DEF PublishEvent
    <2> QED BY <2>1, <2>2, <2>3 DEF Earned, RetriesAreEarned, JobEarned, TypeOK, RetryQueues
<1>6. ASSUME NEW m \in Published, DeadLetter(m) PROVE Earned'
    <2>1. m \in Message /\ msgs[m] > 0
        BY <1>6, DeadLetterCopies
    <2>2. PICK to \in Message :
            /\ to.queue = "user_deleted_queue"
            /\ to.user = m.user /\ to.retries = m.retries
            /\ \A x \in Message : msgs'[x] > 0 => x = to \/ msgs[x] > 0
        BY <1>6, DeadLetterCopies
    <2>3. UNCHANGED <<current, failed, pc>>
        BY <1>6 DEF DeadLetter
    <2> QED BY <2>1, <2>2, <2>3 DEF Earned, RetriesAreEarned, JobEarned, RetryQueues
<1>7. CASE Take
    <2>1. PICK m \in Message, j \in Job :
            /\ m.user = j.user /\ m.retries = j.retries
            /\ msgs[m] > 0 /\ msgs' = [msgs EXCEPT ![m] = @ - 1]
            /\ current' = {j}
        BY <1>7, TakeCopies
    <2>3. \A x \in Message : msgs'[x] > 0 => msgs[x] > 0
        BY <2>1, MessagePublished DEF TypeOK
    <2>4. failed[j.user] >= j.retries
        BY <2>1 DEF Earned, RetriesAreEarned
    <2>5. UNCHANGED failed /\ pc' = "delete"
        BY <1>7 DEF Take
    <2> QED BY <2>1, <2>3, <2>4, <2>5 DEF Earned, RetriesAreEarned, JobEarned
<1>8. CASE DeleteUrls
    BY <1>1, <1>8 DEF DeleteUrls
<1>9. CASE DeleteUrlsFails
    <2>1. PICK j \in current : failed' = [failed EXCEPT ![j.user] = @ + 1]
        BY <1>9 DEF DeleteUrlsFails
    <2>2. UNCHANGED <<msgs, current>>
        BY <1>9 DEF DeleteUrlsFails
    <2>3. \A u \in Users : failed'[u] >= failed[u]
        BY <2>1 DEF TypeOK
    <2>0. j.user \in Users /\ j.retries \in Nat
        BY InHand DEF MaxRetries
    <2>4. failed'[j.user] > failed[j.user] /\ j.user \in Users /\ j.retries \in Nat
        BY <2>0, <2>1 DEF TypeOK
    <2>5. failed \in [Users -> Nat] /\ failed' \in [Users -> Nat]
        BY <2>1 DEF TypeOK, Job
    <2>6. \A m \in Message : m.user \in Users /\ m.retries \in Nat
        BY DEF Message, MaxRetries
    <2>7. RetriesAreEarned'
        BY <2>2, <2>3, <2>5, <2>6 DEF Earned, RetriesAreEarned
    <2>8. JobEarned'
        BY <2>2, <2>4, <2>5 DEF Earned, JobEarned, Holding
    <2> QED BY <2>7, <2>8 DEF Earned
<1>10. CASE Republish
    <2>1. PICK j \in current : IF connected THEN Put(RetryOrDlq(j)) ELSE UNCHANGED msgs
        BY <1>10 DEF Republish
    <2>2. j \in Job /\ j.user \in Users /\ j.retries \in 0..MaxRetries
        BY InHand
    <2>3. UNCHANGED <<current, failed>> /\ pc = "republish" /\ pc' = "republished"
        BY <1>10 DEF Republish
    <2>4. failed[j.user] > j.retries
        BY <2>3 DEF Earned, JobEarned
    <2>5. CASE UNCHANGED msgs
        BY <1>1, <2>3, <2>5
    <2>6. CASE Put(RetryOrDlq(j))
        <3> DEFINE to == RetryOrDlq(j)
        <3>1. \A x \in Message : msgs'[x] > 0 => x = to \/ msgs[x] > 0
            BY <2>2, <2>6, RetryOrDlqDeclared, PutCopies
        <3>2. j.user \in Users /\ j.retries \in Nat /\ failed[j.user] \in Nat
            BY <2>2 DEF TypeOK, Job, MaxRetries
        <3>3. /\ failed[to.user] >= to.retries
              /\ to.queue \in RetryQueues =>
                    to.retries > 0 /\ to.queue = RetryQueue(to.retries - 1)
              /\ to.queue = "user_deleted_dlq" => to.retries = 3 /\ failed[to.user] >= 4
            <4>1. to.retries \in Nat
                BY <2>2, RetryOrDlqDeclared DEF Message, MaxRetries
            <4>2. (j.retries + 1) - 1 = j.retries
                BY <3>2
            <4> QED BY <2>2, <2>4, <3>2, <4>1, <4>2, RetryOrDlqDeclared
        <3>4. RetriesAreEarned'
            BY <2>3, <3>1, <3>3 DEF Earned, RetriesAreEarned
        <3>5. JobEarned'
            BY <2>3 DEF Earned, JobEarned
        <3> QED BY <3>4, <3>5 DEF Earned
    <2> QED BY <2>1, <2>5, <2>6
<1>11. CASE Ack
    <2>1. UNCHANGED <<msgs, failed>> /\ current' = {}
        BY <1>11 DEF Ack
    <2> QED BY <2>1 DEF Earned, RetriesAreEarned, JobEarned
<1>12. ASSUME Requeue, UNCHANGED failed,
              \/ current' = current /\ pc' \in {pc, "stopped"}
              \/ current' = {}
       PROVE  Earned'
    <2>1. \A j \in current :
            LET m == Msg("user_deleted_queue", j.user, j.retries) IN
            m.queue = "user_deleted_queue" /\ m.user = j.user /\ m.retries = j.retries
        BY InHand, MainMessage
    <2>2. RetriesAreEarned'
        BY <1>12, <2>1, RequeueCopies DEF Earned, RetriesAreEarned, JobEarned, RetryQueues
    <2>3. JobEarned'
        BY <1>12 DEF Earned, JobEarned
    <2> QED BY <2>2, <2>3 DEF Earned
<1>13. CASE Disconnect
    BY <1>12, <1>13 DEF Disconnect
<1>14. CASE BrokerRestart
    BY <1>14, MessagePublished DEF BrokerRestart, Earned, RetriesAreEarned, JobEarned
<1>15. CASE Crash
    BY <1>12, <1>15 DEF Crash
<1>16. CASE Restart
    BY <1>1, <1>16 DEF Restart
<1>17. CASE UNCHANGED vars
    BY <1>2, <1>17 DEF vars
<1> QED
    BY <1>3, <1>4, <1>5, <1>6, <1>7, <1>8, <1>9, <1>10, <1>11, <1>13, <1>14, <1>15,
       <1>16, <1>17 DEF Next, Loop, Redirects

\* Every step keeps an event until a DELETE commits for its user.
LEMMA EventKeptStep == TypeOK /\ Holding /\ EventKept /\ [Next]_vars => EventKept'
<1> SUFFICES ASSUME TypeOK, Holding, EventKept, [Next]_vars PROVE EventKept'
    OBVIOUS
<1> USE DEF EventKept, auth, broker, consumer, urls, cache, faulty
<1>1. ASSUME UNCHANGED <<msgs, connected, due, current, pc>> PROVE EventKept'
    BY <1>1
<1>2. ASSUME NEW c \in Codes, Redirects(c) \/ Evict(c) PROVE EventKept'
    BY <1>1, <1>2 DEF Redirects, Shorten, ReadRow, EndFill, Replay, Evict
<1>3. ASSUME NEW u \in Users, DeleteAccount(u) \/ PublishFails(u) PROVE EventKept'
    BY <1>1, <1>3 DEF DeleteAccount, PublishFails
<1>4. ASSUME NEW u \in Users, PublishEvent(u) PROVE EventKept'
    <2> DEFINE n == Msg("user_deleted_queue", u, 0)
    <2>1. n \in Message /\ n.user = u
        BY MainMessage DEF MaxRetries
    <2>2. msgs'[n] > 0 /\ \A x \in Message : msgs[x] > 0 => msgs'[x] > 0
        BY <1>4, <2>1, PutCopies DEF PublishEvent
    <2>3. due' = due \cup {u} /\ UNCHANGED <<connected, current, pc>>
        BY <1>4 DEF PublishEvent
    <2> QED BY <2>1, <2>2, <2>3
<1>5. ASSUME NEW m \in Published, DeadLetter(m) PROVE EventKept'
    <2>1. PICK to \in Message :
            /\ to.user = m.user /\ msgs'[to] > 0
            /\ \A x \in Message : msgs[x] > 0 => x = m \/ msgs'[x] > 0
        BY <1>5, DeadLetterCopies
    <2>2. UNCHANGED <<connected, due, current, pc>>
        BY <1>5 DEF DeadLetter
    <2> QED BY <2>1, <2>2
<1>6. CASE Take
    <2>1. PICK m \in Message, j \in Job :
            /\ m.user = j.user /\ msgs[m] > 0
            /\ msgs' = [msgs EXCEPT ![m] = @ - 1] /\ current' = {j}
        BY <1>6, TakeCopies
    <2>3. \A x \in Message : msgs[x] > 0 => x = m \/ msgs'[x] > 0
        BY <2>1, MessagePublished DEF TypeOK
    <2>4. current = {} /\ pc' = "delete" /\ UNCHANGED due
        BY <1>6 DEF Take, Holding
    <2>5. connected'
        BY <1>6 DEF Take, Holding
    <2> QED BY <2>1, <2>3, <2>4, <2>5
<1>7. CASE DeleteUrls
    <2>1. PICK j \in current : due' = due \ {j.user}
        BY <1>7 DEF DeleteUrls, Wipe
    <2>2. UNCHANGED <<msgs, connected, current>>
        BY <1>7 DEF DeleteUrls
    <2> QED BY <2>1, <2>2 DEF Holding
<1>8. CASE DeleteUrlsFails
    <2>1. due' \subseteq due /\ pc' = "republish" /\ UNCHANGED <<msgs, connected, current>>
        BY <1>8 DEF DeleteUrlsFails, Wipe
    <2> QED BY <2>1
<1>9. CASE Republish
    <2>1. PICK j \in current : IF connected THEN Put(RetryOrDlq(j)) ELSE UNCHANGED msgs
        BY <1>9 DEF Republish
    <2>2. RetryOrDlq(j) \in Message /\ RetryOrDlq(j).user = j.user
        BY InHand, RetryOrDlqDeclared
    <2>3. /\ \A x \in Message : msgs[x] > 0 => msgs'[x] > 0
          /\ connected => msgs'[RetryOrDlq(j)] > 0
        BY <2>1, <2>2, PutCopies
    <2>4. UNCHANGED <<connected, due, current>>
        BY <1>9 DEF Republish
    <2> QED BY <2>2, <2>3, <2>4 DEF Holding
<1>10. CASE Ack
    <2>1. UNCHANGED <<msgs, connected, due>> /\ pc \in {"evict", "republished"}
        BY <1>10 DEF Ack
    <2> QED BY <2>1
<1>11. ASSUME Requeue, UNCHANGED due PROVE EventKept'
    <2>1. \A x \in Message : msgs[x] > 0 => msgs'[x] > 0
        BY <1>11, RequeueCopies
    <2>2. ASSUME connected, NEW j \in current
          PROVE  \E m \in Message : m.user = j.user /\ msgs'[m] > 0
        <3> DEFINE m == Msg("user_deleted_queue", j.user, j.retries)
        <3>1. m \in Message /\ m.user = j.user
            BY InHand, MainMessage
        <3>2. msgs'[m] > 0
            BY <1>11, <2>2, RequeueCopies DEF Holding
        <3> QED BY <3>1, <3>2
    <2> QED BY <1>11, <2>1, <2>2
<1>12. CASE Disconnect
    BY <1>11, <1>12 DEF Disconnect
<1>13. CASE BrokerRestart
    BY <1>13 DEF BrokerRestart
<1>14. CASE Crash
    BY <1>11, <1>14 DEF Crash
<1>15. CASE Restart
    <2>1. current = {} /\ UNCHANGED <<msgs, due, current>>
        BY <1>15 DEF Restart, Holding
    <2> QED BY <2>1
<1>16. CASE UNCHANGED vars
    BY <1>1, <1>16 DEF vars
<1> QED
    BY <1>2, <1>3, <1>4, <1>5, <1>6, <1>7, <1>8, <1>9, <1>10, <1>12, <1>13, <1>14,
       <1>15, <1>16 DEF Next, Loop, Redirects

----------------------------------------------------------------------------
\* The inductive invariant holds in every reachable state.
THEOREM Invariance == Spec => []IInv
<1>1. IInv /\ [Next]_vars => IInv'
    BY TypeStep, HoldingStep, EarnedStep, EventKeptStep DEF IInv
<1> QED BY InitIInv, <1>1, PTL DEF Spec

\* The state of the pipeline keeps its types.
THEOREM TypeCorrect == Spec => []TypeOK
<1>1. IInv => TypeOK
    BY DEF IInv
<1> QED BY Invariance, <1>1, PTL

\* No event the broker has had is lost before its user's urls are deleted,
\* whatever crashes, disconnects or fails on the consumer's side.
THEOREM NoEventIsLost == Spec => []EventNotLost
<1>1. IInv => EventNotLost
    BY DEF IInv, EventKept, EventNotLost
<1> QED BY Invariance, <1>1, PTL

\* Every retry was earned by a failed DELETE, waits in its own queue, and the
\* dead-letter queue takes an event only after four failures.
THEOREM RetriesAreHonest == Spec => []RetriesAreEarned
<1>1. IInv => RetriesAreEarned
    BY DEF IInv, Earned
<1> QED BY Invariance, <1>1, PTL

----------------------------------------------------------------------------
(* The cascade and Redis.                                                  *)

\* Codes wait for their DEL only while the consumer evicts, so that the next
\* DELETE overwrites none.
EvictInv == pc # "evict" => toEvict = {}

LEMMA EvictInit == Init => EvictInv
BY DEF Init, EvictInv

LEMMA EvictStep == EvictInv /\ [Next]_vars => EvictInv'
<1> SUFFICES ASSUME EvictInv, [Next]_vars PROVE EvictInv'
    OBVIOUS
<1> USE DEF EvictInv, auth, broker, consumer, urls, cache, faulty
<1>1. ASSUME NEW c \in Codes, Redirects(c) \/ Evict(c) PROVE EvictInv'
    BY <1>1 DEF Redirects, Shorten, ReadRow, EndFill, Replay, Evict
<1>2. ASSUME NEW u \in Users, DeleteAccount(u) \/ PublishEvent(u) \/ PublishFails(u)
      PROVE  EvictInv'
    BY <1>2 DEF DeleteAccount, PublishEvent, PublishFails
<1>3. ASSUME NEW m \in Published, DeadLetter(m) PROVE EvictInv'
    BY <1>3 DEF DeadLetter
<1>4. CASE Take \/ DeleteUrls \/ Republish \/ Ack \/ Restart
    BY <1>4 DEF Take, DeleteUrls, Republish, Ack, Restart
<1>5. CASE DeleteUrlsFails
    BY <1>5 DEF DeleteUrlsFails
<1>6. CASE Disconnect \/ BrokerRestart \/ Crash
    BY <1>6 DEF Disconnect, BrokerRestart, Crash
<1>7. CASE UNCHANGED vars
    BY <1>7 DEF vars
<1> QED
    BY <1>1, <1>2, <1>3, <1>4, <1>5, <1>6, <1>7 DEF Next, Loop, Redirects

\* What may leave a code's key behind its row.
Accident(c) ==
    \/ EndFill(c) \/ Crash
    \/ (Evict(c) \/ DeleteUrlsFails) /\ faults' # faults

\* No step leaves a key behind but by one of the accidents.
LEMMA CascadeStep ==
    ASSUME TypeOK, EvictInv, [Next]_vars, NEW c \in KeysLeft' \ KeysLeft
    PROVE  Accident(c)
<1> USE DEF auth, broker, consumer, urls, cache, faulty
<1>1. /\ c \in redis' /\ c \notin rows' /\ c \notin toEvict'
      /\ c \in redis => c \in rows \/ c \in toEvict
    BY DEF KeysLeft
<1>2. ASSUME redis' \subseteq redis, rows \subseteq rows', toEvict \subseteq toEvict'
      PROVE  FALSE
    BY <1>1, <1>2
<1>3. ASSUME NEW d \in Codes, Shorten(d) \/ ReadRow(d) \/ Replay(d) PROVE FALSE
    BY <1>2, <1>3 DEF Shorten, ReadRow, Replay
<1>4. ASSUME NEW d \in Codes, EndFill(d) PROVE Accident(c)
    <2>1. redis' \subseteq redis \cup {d} /\ UNCHANGED <<rows, toEvict>>
        BY <1>4 DEF EndFill
    <2>2. c = d
        BY <1>1, <2>1
    <2> QED BY <1>4, <2>2 DEF Accident
<1>5. ASSUME NEW u \in Users, DeleteAccount(u) \/ PublishEvent(u) \/ PublishFails(u)
      PROVE  FALSE
    BY <1>2, <1>5 DEF DeleteAccount, PublishEvent, PublishFails
<1>6. ASSUME NEW m \in Published, DeadLetter(m) PROVE FALSE
    BY <1>2, <1>6 DEF DeadLetter
<1>7. CASE DeleteUrls
    <2>1. PICK j \in current : Wipe(j.user) /\ toEvict' = OwnedBy(j.user)
        BY <1>7 DEF DeleteUrls
    <2>2. toEvict = {} /\ redis' = redis /\ rows' = rows \ toEvict'
        BY <1>7, <2>1 DEF DeleteUrls, EvictInv, Wipe
    <2> QED BY <1>1, <2>2
<1>8. CASE DeleteUrlsFails
    <2>1. PICK j \in current :
            \/ Fault("dbError") /\ UNCHANGED <<rows, lagging, unevicted, due>>
            \/ Fault("lateDbError") /\ Wipe(j.user)
        BY <1>8 DEF DeleteUrlsFails
    <2>2. faults' # faults
        BY <2>1 DEF Fault, TypeOK
    <2> QED BY <1>8, <2>2 DEF Accident
<1>9. ASSUME NEW d \in Codes, Evict(d) PROVE Accident(c)
    <2>1. toEvict' = toEvict \ {d} /\ UNCHANGED rows
        BY <1>9 DEF Evict
    <2>2. CASE redis' = redis \ {d} /\ UNCHANGED faulty
        BY <1>1, <2>1, <2>2
    <2>3. CASE Fault("redisError") /\ UNCHANGED <<redis, unevicted>>
        <3>1. c = d
            BY <1>1, <2>1, <2>3
        <3>2. faults' # faults
            BY <2>3 DEF Fault, TypeOK
        <3> QED BY <1>9, <3>1, <3>2 DEF Accident
    <2> QED BY <1>9, <2>2, <2>3 DEF Evict
<1>10. CASE Take \/ Republish \/ Ack \/ Disconnect \/ BrokerRestart \/ Restart
    BY <1>2, <1>10 DEF Take, Republish, Ack, Disconnect, BrokerRestart, Restart
<1>11. CASE Crash
    BY <1>11 DEF Accident
<1>12. CASE UNCHANGED vars
    BY <1>2, <1>12 DEF vars
<1> QED
    BY <1>3, <1>4, <1>5, <1>6, <1>7, <1>8, <1>9, <1>10, <1>11, <1>12 DEF Next, Loop

\* Whatever is retried, redelivered or republished, a key outlives its row only by
\* one of the accidents of its own code: a redirect that caches a row it had read,
\* a DEL that fails, a crash before it, or a lost answer of the DELETE.
THEOREM CascadeIsComplete == Spec => CascadeEvicts
<1> DEFINE A == \A c \in KeysLeft' \ KeysLeft :
                \/ EndFill(c) \/ Crash
                \/ (Evict(c) \/ DeleteUrlsFails) /\ faults' # faults
<1>1. TypeOK /\ EvictInv /\ [Next]_vars => [A]_vars
    BY CascadeStep DEF Accident
<1> HIDE DEF A
<1>2. Spec => [][A]_vars
    BY TypeCorrect, EvictInit, EvictStep, <1>1, PTL DEF Spec
<1> QED BY <1>2 DEF CascadeEvicts, A

----------------------------------------------------------------------------
(* No event is duplicated.                                                 *)

\* A copy of a user's events is one of the ready copies of one message.
LEMMA CopiesMembers ==
    ASSUME NEW f \in [Published -> Nat], NEW u \in Users, NEW x, NEW i
    PROVE  <<x, i>> \in Copies(f, u) <=>
               x \in Published /\ x.user = u /\ i \in 1..f[x]
BY DEF Copies

LEMMA CopiesArePairs ==
    ASSUME NEW f \in [Published -> Nat], NEW u \in Users, NEW p \in Copies(f, u)
    PROVE  p = <<p[1], p[2]>>
BY DEF Copies

LEMMA SamePairs ==
    ASSUME NEW A, NEW B,
           \A p \in A : p = <<p[1], p[2]>>, \A p \in B : p = <<p[1], p[2]>>,
           \A x, i : <<x, i>> \in A <=> <<x, i>> \in B
    PROVE  A = B
<1>1. ASSUME NEW p \in A PROVE p \in B
    BY p = <<p[1], p[2]>>
<1>2. ASSUME NEW p \in B PROVE p \in A
    BY p = <<p[1], p[2]>>
<1> QED BY <1>1, <1>2

\* One more copy of a message is one more copy of its user's events.
LEMMA OneMoreCopy ==
    ASSUME NEW f \in [Published -> Nat], NEW m \in Published,
           NEW u \in Users, IsFiniteSet(Copies(f, u))
    PROVE  LET g == [f EXCEPT ![m] = @ + 1] IN
           /\ IsFiniteSet(Copies(g, u))
           /\ Cardinality(Copies(g, u)) =
                  IF m.user = u THEN Cardinality(Copies(f, u)) + 1
                                ELSE Cardinality(Copies(f, u))
<1> DEFINE g == [f EXCEPT ![m] = @ + 1]
           new == <<m, f[m] + 1>>
<1>1. g \in [Published -> Nat] /\ f[m] \in Nat
    OBVIOUS
<1>2. CASE m.user = u
    <2>1. new \notin Copies(f, u)
        BY <1>1, CopiesMembers
    <2>2. ASSUME NEW x, NEW i
          PROVE  <<x, i>> \in Copies(g, u) <=> <<x, i>> \in Copies(f, u) \cup {new}
        <3>1. x \in Published => (i \in 1..g[x] <=> i \in 1..f[x] \/ <<x, i>> = new)
            <4>1. CASE x = m
                BY <1>1, <4>1
            <4>2. CASE x # m
                BY <4>2
            <4> QED BY <4>1, <4>2
        <3>2. <<x, i>> \in Copies(g, u) <=> x \in Published /\ x.user = u /\ i \in 1..g[x]
            <4> HIDE DEF g
            <4> QED BY <1>1, CopiesMembers
        <3>3. <<x, i>> \in Copies(f, u) <=> x \in Published /\ x.user = u /\ i \in 1..f[x]
            BY CopiesMembers
        <3>4. <<x, i>> = new => x.user = u /\ x \in Published
            BY <1>2
        <3> HIDE DEF g, new
        <3> QED BY <3>1, <3>2, <3>3, <3>4
    <2>3. /\ \A p \in Copies(g, u) : p = <<p[1], p[2]>>
          /\ \A p \in Copies(f, u) : p = <<p[1], p[2]>>
        BY <1>1, CopiesArePairs
    <2>4. \A p \in Copies(f, u) \cup {new} : p = <<p[1], p[2]>>
        BY <2>3
    <2>5. Copies(g, u) = Copies(f, u) \cup {new}
        <3> HIDE DEF new
        <3> QED BY <2>2, <2>3, <2>4, SamePairs
    <2> DEFINE C == Copies(f, u)
    <2> HIDE DEF new, C, g
    <2>6. IsFiniteSet(C)
        BY DEF C
    <2>7. new \notin C /\ Copies(g, u) = C \cup {new}
        BY <2>1, <2>5 DEF C
    <2>8. IsFiniteSet(C \cup {new}) /\ Cardinality(C \cup {new}) = Cardinality(C) + 1
        BY <2>6, <2>7, FS_AddElement
    <2> QED BY <1>2, <2>7, <2>8 DEF C, g
<1>3. CASE m.user # u
    BY <1>3 DEF Copies
<1> QED BY <1>2, <1>3

\* One copy of a message fewer is one copy fewer of its user's events.
LEMMA OneCopyLess ==
    ASSUME NEW f \in [Published -> Nat], NEW m \in Published, f[m] > 0,
           NEW u \in Users, IsFiniteSet(Copies(f, u))
    PROVE  LET g == [f EXCEPT ![m] = @ - 1] IN
           /\ IsFiniteSet(Copies(g, u))
           /\ Cardinality(Copies(g, u)) =
                  IF m.user = u THEN Cardinality(Copies(f, u)) - 1
                                ELSE Cardinality(Copies(f, u))
<1> DEFINE g == [f EXCEPT ![m] = @ - 1]
           old == <<m, f[m]>>
<1>1. g \in [Published -> Nat] /\ f[m] \in Nat
    OBVIOUS
<1>2. CASE m.user = u
    <2>1. old \in Copies(f, u)
        BY <1>1, <1>2, CopiesMembers
    <2>2. ASSUME NEW x, NEW i
          PROVE  <<x, i>> \in Copies(g, u) <=> <<x, i>> \in Copies(f, u) \ {old}
        <3>1. x \in Published => (i \in 1..g[x] <=> i \in 1..f[x] /\ <<x, i>> # old)
            <4>1. CASE x = m
                BY <1>1, <4>1
            <4>2. CASE x # m
                BY <4>2
            <4> QED BY <4>1, <4>2
        <3>2. <<x, i>> \in Copies(g, u) <=> x \in Published /\ x.user = u /\ i \in 1..g[x]
            BY <1>1, CopiesMembers
        <3>3. <<x, i>> \in Copies(f, u) <=> x \in Published /\ x.user = u /\ i \in 1..f[x]
            BY CopiesMembers
        <3> HIDE DEF old
        <3> QED BY <3>1, <3>2, <3>3
    <2>3. /\ \A p \in Copies(g, u) : p = <<p[1], p[2]>>
          /\ \A p \in Copies(f, u) : p = <<p[1], p[2]>>
        BY <1>1, CopiesArePairs
    <2>4. \A p \in Copies(f, u) \ {old} : p = <<p[1], p[2]>>
        BY <2>3
    <2>5. Copies(g, u) = Copies(f, u) \ {old}
        <3> HIDE DEF old
        <3> QED BY <2>2, <2>3, <2>4, SamePairs
    <2> DEFINE C == Copies(f, u)
    <2> HIDE DEF old, C, g
    <2>6. IsFiniteSet(C)
        BY DEF C
    <2>7. old \in C /\ Copies(g, u) = C \ {old}
        BY <2>1, <2>5 DEF C
    <2>8. IsFiniteSet(C \ {old}) /\ Cardinality(C \ {old}) = Cardinality(C) - 1
        BY <2>6, <2>7, FS_RemoveElement
    <2> QED BY <1>1, <1>2, <2>7, <2>8 DEF C, g
<1>3. CASE m.user # u
    BY <1>1, <1>3 DEF Copies
<1> QED BY <1>2, <1>3

Duplicating == {"crash", "disconnect", "brokerRestart"}

\* The events of a user are counted: ready copies and the one in hand.
Counted(u) ==
    /\ IsFiniteSet(Copies(msgs, u))
    /\ Cardinality(Copies(msgs, u)) + Cardinality(Held(u))
            <= requests[u] - publishing[u]

\* NoDuplicateEvents, with the finiteness that makes its count meaningful.
CountInv == happened \cap Duplicating = {} => \A u \in Users : Counted(u)

\* Held(u), of any delivery in hand and any place of the consumer.
HeldOf(j, p, u) == IF j.user = u /\ p # "republished" THEN 1 ELSE 0

LEMMA NoneHeld ==
    ASSUME NEW p, NEW u
    PROVE  Cardinality({j \in {} : j.user = u /\ p # "republished"}) = 0
<1>1. {j \in {} : j.user = u /\ p # "republished"} = {}
    OBVIOUS
<1> QED BY <1>1, FS_EmptySet

LEMMA OneHeld ==
    ASSUME NEW c, NEW p, NEW u, NEW j \in c, \A k \in c : k = j
    PROVE  Cardinality({k \in c : k.user = u /\ p # "republished"}) = HeldOf(j, p, u)
<1> DEFINE H == {k \in c : k.user = u /\ p # "republished"}
<1>1. CASE j.user = u /\ p # "republished"
    <2>1. H = {j}
        BY <1>1
    <2> HIDE DEF H
    <2>2. Cardinality(H) = 1
        BY <2>1, FS_Singleton
    <2> QED BY <1>1, <2>2 DEF HeldOf, H
<1>2. CASE ~(j.user = u /\ p # "republished")
    <2>1. H = {}
        BY <1>2
    <2> HIDE DEF H
    <2>2. Cardinality(H) = 0
        BY <2>1, FS_EmptySet
    <2> QED BY <1>2, <2>2 DEF HeldOf, H
<1> QED BY <1>1, <1>2

LEMMA CountInit == Init => CountInv
<1> SUFFICES ASSUME Init, NEW u \in Users PROVE Counted(u)
    BY DEF CountInv
<1>1. Copies(msgs, u) = {} /\ Held(u) = {}
    BY DEF Init, Copies, Held
<1>2. IsFiniteSet(Copies(msgs, u)) /\ Cardinality(Copies(msgs, u)) = 0
    BY <1>1, FS_EmptySet
<1>3. Cardinality(Held(u)) = 0
    BY <1>1, FS_EmptySet
<1>4. requests[u] = 0 /\ publishing[u] = 0
    BY DEF Init
<1> QED BY <1>2, <1>3, <1>4 DEF Counted

LEMMA CountStep ==
    TypeOK /\ TypeOK' /\ Holding /\ Holding' /\ CountInv /\ [Next]_vars => CountInv'
<1> SUFFICES ASSUME TypeOK, TypeOK', Holding, Holding', CountInv, [Next]_vars,
                    happened' \cap Duplicating = {}, NEW u \in Users
             PROVE  Counted(u)'
    BY DEF CountInv
<1> USE DEF auth, broker, consumer, urls, cache, faulty
<1>a. ASSUME NEW kind, Fault(kind) PROVE happened' = happened \cup {kind}
    BY <1>a DEF Fault
<1> DEFINE n == Cardinality(Copies(msgs, u))
           np == Cardinality(Copies(msgs', u))
           h == Cardinality(Held(u))
           hp == Cardinality(Held(u)')
<1>b. ASSUME happened \subseteq happened'
      PROVE  /\ IsFiniteSet(Copies(msgs, u))
             /\ n \in Nat
             /\ n + h <= requests[u] - publishing[u]
    <2>1. Counted(u)
        BY <1>b DEF CountInv
    <2> QED BY <2>1, FS_CardinalityType DEF Counted
<1>c. /\ msgs \in [Published -> Nat] /\ msgs' \in [Published -> Nat]
      /\ requests \in [Users -> Nat] /\ requests[u] \in Nat
      /\ publishing \in [Users -> Nat] /\ publishing[u] \in Nat
    BY DEF TypeOK
<1>d. /\ current = {} => h = 0
      /\ \A j \in current : h = HeldOf(j, pc, u)
    <2>1. Held(u) = {j \in current : j.user = u /\ pc # "republished"}
        BY DEF Held
    <2>2. \A j \in current : \A k \in current : k = j
        BY DEF Holding
    <2> QED BY <2>1, <2>2, NoneHeld, OneHeld
<1>e. /\ current' = {} => hp = 0
      /\ \A j \in current' : hp = HeldOf(j, pc', u)
    <2>1. Held(u)' = {j \in current' : j.user = u /\ pc' # "republished"}
        BY DEF Held
    <2>2. \A j \in current' : \A k \in current' : k = j
        BY DEF Holding
    <2> QED BY <2>1, <2>2, NoneHeld, OneHeld
<1>f. h \in Nat /\ hp \in Nat
    BY <1>d, <1>e DEF HeldOf
<1>g. ASSUME IsFiniteSet(Copies(msgs', u)), np + hp <= requests'[u] - publishing'[u]
      PROVE  Counted(u)'
    BY <1>g DEF Counted
<1> HIDE DEF n, np, h, hp
<1>h. ASSUME UNCHANGED <<msgs, requests, publishing>>, happened \subseteq happened',
             hp <= h
      PROVE  Counted(u)'
    <2>1. np = n /\ Copies(msgs', u) = Copies(msgs, u)
        BY <1>h DEF n, np
    <2> QED BY <1>b, <1>c, <1>f, <1>g, <1>h, <2>1
<1>i. ASSUME UNCHANGED <<current, pc>> PROVE hp = h
    BY <1>i DEF Held, h, hp
<1>1. ASSUME NEW c \in Codes, Redirects(c) \/ Evict(c) PROVE Counted(u)'
    <2>1. UNCHANGED <<msgs, requests, publishing, current, pc>> /\ happened \subseteq happened'
        BY <1>1, <1>a DEF Redirects, Shorten, ReadRow, EndFill, Replay, Evict
    <2> QED BY <2>1, <1>f, <1>h, <1>i
<1>2. ASSUME NEW v \in Users, DeleteAccount(v) PROVE Counted(u)'
    <2>1. /\ requests' = [requests EXCEPT ![v] = @ + 1]
          /\ publishing' = [publishing EXCEPT ![v] = @ + 1]
          /\ UNCHANGED <<msgs, current, pc, happened>>
        BY <1>2 DEF DeleteAccount
    <2>2. np = n /\ Copies(msgs', u) = Copies(msgs, u)
        BY <2>1 DEF n, np
    <2>3. requests'[u] - publishing'[u] = requests[u] - publishing[u]
        BY <1>c, <2>1
    <2> QED BY <1>b, <1>g, <1>i, <2>1, <2>2, <2>3
<1>3. ASSUME NEW v \in Users, PublishFails(v) PROVE Counted(u)'
    <2>1. /\ publishing' = [publishing EXCEPT ![v] = @ - 1] /\ publishing[v] > 0
          /\ UNCHANGED <<msgs, requests, current, pc>> /\ happened \subseteq happened'
        BY <1>3, <1>a DEF PublishFails
    <2>2. np = n /\ Copies(msgs', u) = Copies(msgs, u)
        BY <2>1 DEF n, np
    <2>3. requests'[u] - publishing'[u] >= requests[u] - publishing[u]
        BY <1>c, <2>1
    <2>4. requests'[u] - publishing'[u] \in Int /\ requests[u] - publishing[u] \in Int
        BY <1>c, <2>1
    <2> QED BY <1>b, <1>f, <1>g, <1>i, <2>1, <2>2, <2>3, <2>4
<1>4. ASSUME NEW v \in Users, PublishEvent(v) PROVE Counted(u)'
    <2> DEFINE m == Msg("user_deleted_queue", v, 0)
    <2>1. m \in Published /\ m.user = v
        BY MainMessage DEF MaxRetries
    <2>2. /\ publishing' = [publishing EXCEPT ![v] = @ - 1] /\ publishing[v] > 0
          /\ msgs' = [msgs EXCEPT ![m] = @ + 1]
          /\ UNCHANGED <<requests, current, pc, happened>>
        BY <1>4 DEF PublishEvent, Put
    <2> HIDE DEF m
    <2>3. IsFiniteSet(Copies(msgs', u)) /\ np = IF v = u THEN n + 1 ELSE n
        <3> DEFINE g == [msgs EXCEPT ![m] = @ + 1]
        <3>1. IsFiniteSet(Copies(msgs, u))
            BY <1>b, <2>2
        <3>2. /\ IsFiniteSet(Copies(g, u))
              /\ Cardinality(Copies(g, u)) = IF m.user = u
                    THEN Cardinality(Copies(msgs, u)) + 1 ELSE Cardinality(Copies(msgs, u))
            <4>1. msgs \in [Published -> Nat] /\ m \in Published
                BY <1>c, <2>1
            <4> QED BY <3>1, <4>1, OneMoreCopy
        <3> HIDE DEF g
        <3> QED BY <2>1, <2>2, <3>2 DEF n, np, g
    <2>4. publishing'[u] = IF v = u THEN publishing[u] - 1 ELSE publishing[u]
        BY <1>c, <2>2
    <2>5. n \in Nat /\ n + h <= requests[u] - publishing[u] /\ requests'[u] = requests[u]
        BY <1>b, <2>2
    <2>6. np + hp <= requests'[u] - publishing'[u]
        BY <1>c, <1>f, <1>i, <2>2, <2>3, <2>4, <2>5
    <2> QED BY <1>g, <2>3, <2>6
<1>5. ASSUME NEW m \in Published, DeadLetter(m) PROVE Counted(u)'
    <2> DEFINE g == [msgs EXCEPT ![m] = @ - 1]
    <2>1. PICK to \in Message :
            /\ to.user = m.user /\ to # m
            /\ msgs' = [msgs EXCEPT ![m] = @ - 1, ![to] = @ + 1]
        BY <1>5, DeadLetterCopies
    <2>2. to \in Published
        BY <2>1, MessagePublished
    <2>3. /\ msgs[m] > 0
          /\ UNCHANGED <<requests, publishing, current, pc, happened>>
        BY <1>5 DEF DeadLetter
    <2>4. msgs' = [g EXCEPT ![to] = @ + 1]
        BY <2>1, <2>2, <1>c
    <2>5. /\ g \in [Published -> Nat] /\ IsFiniteSet(Copies(g, u))
          /\ Cardinality(Copies(g, u)) = IF m.user = u THEN n - 1 ELSE n
        <3>1. IsFiniteSet(Copies(msgs, u))
            BY <1>b, <2>3
        <3>2. g \in [Published -> Nat]
            BY <1>c, <2>3
        <3>3. msgs \in [Published -> Nat] /\ msgs[m] > 0
            BY <1>c, <2>3
        <3>4. /\ IsFiniteSet(Copies(g, u))
              /\ Cardinality(Copies(g, u)) = IF m.user = u
                    THEN Cardinality(Copies(msgs, u)) - 1 ELSE Cardinality(Copies(msgs, u))
            BY <3>1, <3>3, OneCopyLess
        <3> HIDE DEF g
        <3> QED BY <3>2, <3>4 DEF n
    <2> HIDE DEF g
    <2>6. /\ IsFiniteSet(Copies(msgs', u))
          /\ np = IF m.user = u THEN Cardinality(Copies(g, u)) + 1
                                ELSE Cardinality(Copies(g, u))
        <3> DEFINE k == [g EXCEPT ![to] = @ + 1]
        <3>1. /\ IsFiniteSet(Copies(k, u))
              /\ Cardinality(Copies(k, u)) = IF to.user = u
                    THEN Cardinality(Copies(g, u)) + 1 ELSE Cardinality(Copies(g, u))
            BY <2>1, <2>2, <2>5, OneMoreCopy
        <3> HIDE DEF k
        <3> QED BY <2>1, <2>4, <3>1 DEF np, k
    <2>7. np = n
        BY <1>b, <2>3, <2>5, <2>6
    <2> QED BY <1>b, <1>g, <1>i, <2>3, <2>6, <2>7
<1>6. CASE Take
    <2>1. PICK m \in Message, j \in Job :
            /\ m.user = j.user
            /\ msgs[m] > 0 /\ msgs' = [msgs EXCEPT ![m] = @ - 1] /\ current' = {j}
        BY <1>6, TakeCopies
    <2>2. m \in Published /\ m.user = j.user
        BY <2>1, MessagePublished
    <2>3. msgs[m] > 0 /\ msgs' = [msgs EXCEPT ![m] = @ - 1]
        BY <2>1
    <2>4. /\ current = {} /\ pc' = "delete" /\ current' = {j}
          /\ UNCHANGED <<requests, publishing, happened>>
        BY <1>6, <2>1 DEF Take, Holding
    <2>5. IsFiniteSet(Copies(msgs', u)) /\ np = IF j.user = u THEN n - 1 ELSE n
        <3> DEFINE g == [msgs EXCEPT ![m] = @ - 1]
        <3>1. IsFiniteSet(Copies(msgs, u))
            BY <1>b, <2>4
        <3>2. /\ IsFiniteSet(Copies(g, u))
              /\ Cardinality(Copies(g, u)) = IF m.user = u
                    THEN Cardinality(Copies(msgs, u)) - 1 ELSE Cardinality(Copies(msgs, u))
            <4>1. msgs \in [Published -> Nat] /\ msgs[m] > 0
                BY <1>c, <2>3
            <4> QED BY <2>2, <3>1, <4>1, OneCopyLess
        <3> HIDE DEF g
        <3> QED BY <2>2, <2>3, <3>2 DEF n, np, g
    <2>6. h = 0 /\ hp = IF j.user = u THEN 1 ELSE 0
        BY <1>d, <1>e, <2>4 DEF HeldOf
    <2>7. np + hp = n + h
        BY <1>b, <2>4, <2>5, <2>6
    <2> QED BY <1>b, <1>g, <2>4, <2>5, <2>7
<1>7. CASE DeleteUrls \/ DeleteUrlsFails
    <2>1. /\ UNCHANGED <<msgs, requests, publishing, current>>
          /\ pc = "delete" /\ pc' # "republished"
        BY <1>7 DEF DeleteUrls, DeleteUrlsFails
    <2>2. happened \subseteq happened'
        BY <1>7, <1>a DEF DeleteUrls, DeleteUrlsFails
    <2>3. hp = h
        BY <1>d, <1>e, <2>1 DEF HeldOf
    <2> QED BY <1>f, <1>h, <2>1, <2>2, <2>3
<1>8. CASE Republish
    <2>1. PICK j \in current : IF connected THEN Put(RetryOrDlq(j)) ELSE UNCHANGED msgs
        BY <1>8 DEF Republish
    <2>2. /\ pc = "republish" /\ pc' = "republished"
          /\ UNCHANGED <<requests, publishing, current, happened>>
        BY <1>8 DEF Republish
    <2>3. (h = IF j.user = u THEN 1 ELSE 0) /\ hp = 0
        BY <1>d, <1>e, <2>2 DEF HeldOf
    <2>4. CASE UNCHANGED msgs
        BY <1>h, <2>2, <2>3, <2>4
    <2>5. CASE Put(RetryOrDlq(j))
        <3>1. RetryOrDlq(j) \in Published /\ RetryOrDlq(j).user = j.user
            BY InHand, RetryOrDlqDeclared, MessagePublished
        <3>2. msgs' = [msgs EXCEPT ![RetryOrDlq(j)] = @ + 1]
            BY <2>5 DEF Put
        <3>3. IsFiniteSet(Copies(msgs', u)) /\ np = IF j.user = u THEN n + 1 ELSE n
            <4> DEFINE m == RetryOrDlq(j)
                       g == [msgs EXCEPT ![m] = @ + 1]
            <4>1. m \in Published /\ m.user = j.user /\ IsFiniteSet(Copies(msgs, u))
                BY <1>b, <2>2, <3>1
            <4> HIDE DEF m
            <4>2. /\ IsFiniteSet(Copies(g, u))
                  /\ Cardinality(Copies(g, u)) = IF m.user = u
                        THEN Cardinality(Copies(msgs, u)) + 1
                        ELSE Cardinality(Copies(msgs, u))
                <5>1. msgs \in [Published -> Nat]
                    BY <1>c
                <5> QED BY <4>1, <5>1, OneMoreCopy
            <4>3. msgs' = g
                BY <3>2 DEF m
            <4> HIDE DEF g
            <4> QED BY <4>1, <4>2, <4>3 DEF n, np
        <3>4. np + hp = n + h
            BY <1>b, <2>2, <2>3, <3>3
        <3> QED BY <1>b, <1>g, <2>2, <3>3, <3>4
    <2> QED BY <2>1, <2>4, <2>5
<1>9. CASE Ack
    <2>1. UNCHANGED <<msgs, requests, publishing, happened>> /\ current' = {}
        BY <1>9 DEF Ack
    <2> QED BY <1>e, <1>f, <1>h, <2>1
<1>10. CASE Disconnect \/ BrokerRestart \/ Crash
    <2>1. happened' \cap Duplicating # {}
        BY <1>10, <1>a DEF Disconnect, BrokerRestart, Crash, Duplicating
    <2> QED BY <2>1
<1>11. CASE Restart
    <2>1. current = {} /\ UNCHANGED <<msgs, requests, publishing, current, happened>>
        BY <1>11 DEF Restart, Holding
    <2> QED BY <1>e, <1>f, <1>h, <2>1
<1>12. CASE UNCHANGED vars
    <2>1. UNCHANGED <<msgs, requests, publishing, current, pc, happened>>
        BY <1>12 DEF vars
    <2> QED BY <2>1, <1>f, <1>h, <1>i
<1> QED
    BY <1>1, <1>2, <1>3, <1>4, <1>5, <1>6, <1>7, <1>8, <1>9, <1>10, <1>11, <1>12
       DEF Next, Loop, Redirects

\* While no crash and no lost channel happens, the copies of a user's events,
\* the one in the consumer's hands included, are no more than were published.
THEOREM EventsAreNotMultiplied == Spec => []NoDuplicateEvents
<1>1. CountInv => NoDuplicateEvents
    BY DEF CountInv, Counted, NoDuplicateEvents, Duplicating
<1>2. IInv => TypeOK /\ Holding
    BY DEF IInv
<1> QED BY Invariance, CountInit, CountStep, <1>1, <1>2, PTL DEF Spec
=============================================================================
