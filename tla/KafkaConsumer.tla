---------------------------- MODULE KafkaConsumer ----------------------------
(***************************************************************************)
(* KafkaService: how the consumers of the group ws-router-group handle the *)
(* messages of event-topic, count their failures and give them up.  The    *)
(* group, its partitions and its offsets are Kafka's and are modelled as   *)
(* KafkaJS presents them to the service: a consumer runs eachMessage for   *)
(* one message at a time and moves on to the next when it returns; what it *)
(* has moved past may be committed at any later time; a partition that     *)
(* gets another consumer continues at the committed offset.                *)
(***************************************************************************)
EXTENDS Naturals, FiniteSets

CONSTANTS
    Consumers,          \* server processes, each with its own KafkaService
    Partitions,         \* partitions of event-topic
    Ids,                \* values of messageId
    Kind,               \* Kind[m]: "empty", "malformed" or "event"
    MessageId,          \* MessageId[m]: the key of m or its timestamp and offset
    MAX_RETRY_ATTEMPTS,
    MaxOffset,          \* bound on the messages of a partition
    MaxMoves,           \* bound on crashes and on partitions taken over
    None                \* nobody, no message, no offset

\* A message is known by its partition and its place in it.
Messages == Partitions \X (1..MaxOffset)

\* Different messages may have one id: they share a key, or are of different
\* partitions and have the same timestamp and offset.
ASSUME KafkaAssumption ==
    /\ MAX_RETRY_ATTEMPTS \in Nat
    /\ MaxOffset \in Nat
    /\ MaxMoves \in Nat
    /\ Kind \in [Messages -> {"empty", "malformed", "event"}]
    /\ MessageId \in [Messages -> Ids]
    /\ None \notin Consumers \cup Messages \cup Nat

VARIABLES
    \* the topic and the group
    produced,   \* number of messages in each partition
    owner,      \* the consumer of each partition
    position,   \* the last message its consumer has moved past
    committed,  \* the committed offset, None before the first commit
    \* each KafkaService
    up,         \* the consumers that are connected and run
    current,    \* the message whose eachMessage runs
    awaiting,   \* what it awaits: "routeEvent", "deadLetter", "nothing"
    messageRetryCount,
    \* history and bounds
    moves,      \* crashes and takeovers so far
    base,       \* where the group began to read each partition
    ended,      \* messages for which eachMessage has returned
    announced,  \* "Will retry processing message": neither routed nor sent since
    failures,   \* calls of handleFailedMessage at each consumer, by id
    dead        \* messages it sent to the dead letter topic, by id

topic == <<produced, owner, position, committed>>
service == <<up, current, awaiting, messageRetryCount>>
history == <<moves, base, ended, announced, failures, dead>>
vars == <<topic, service, history>>

NoCounts == [i \in Ids |-> 0]

Init ==
    /\ produced = [p \in Partitions |-> 0]
    /\ owner = [p \in Partitions |-> None]
    /\ position = [p \in Partitions |-> 0]
    /\ committed = [p \in Partitions |-> None]
    /\ up = {}
    /\ current = [c \in Consumers |-> None]
    /\ awaiting = [c \in Consumers |-> "nothing"]
    /\ messageRetryCount = [c \in Consumers |-> NoCounts]
    /\ moves = 0
    /\ base = [p \in Partitions |-> 0]
    /\ ended = {}
    /\ announced = {}
    /\ failures = [c \in Consumers |-> NoCounts]
    /\ dead = [c \in Consumers |-> NoCounts]
-----------------------------------------------------------------------------
(***************************************************************************)
(* Kafka: producers, the group and the offsets.                            *)
(***************************************************************************)

\* A message comes to event-topic, from KafkaService.sendMessage or from anyone else.
Produce(p) ==
    /\ produced[p] < MaxOffset
    /\ produced' = [produced EXCEPT ![p] = @ + 1]
    /\ UNCHANGED <<owner, position, committed, service, history>>

\* fromBeginning: false.  A partition without a committed offset is read from
\* its end.  A takeover may find the old consumer in the middle of a message.
Assign(p, c) ==
    /\ c \in up
    /\ current[c] = None
    /\ owner[p] # c
    /\ \/ owner[p] = None /\ UNCHANGED moves
       \/ owner[p] # None /\ moves < MaxMoves /\ moves' = moves + 1
    /\ owner' = [owner EXCEPT ![p] = c]
    /\ \/ /\ committed[p] = None
          /\ position' = [position EXCEPT ![p] = produced[p]]
          /\ base' = [base EXCEPT ![p] = produced[p]]
       \/ /\ committed[p] # None
          /\ position' = [position EXCEPT ![p] = committed[p]]
          /\ UNCHANGED base
    /\ UNCHANGED <<produced, committed, service, ended, announced, failures, dead>>

Commit(p) ==
    /\ owner[p] # None
    /\ committed[p] # position[p]
    /\ committed' = [committed EXCEPT ![p] = position[p]]
    /\ UNCHANGED <<produced, owner, position, service, history>>

\* onModuleInit with connections that succeed.
Start(c) ==
    /\ c \notin up
    /\ up' = up \cup {c}
    /\ UNCHANGED <<topic, current, awaiting, messageRetryCount, history>>

\* The process ends, by onModuleDestroy or otherwise; its counts are in memory.
Stop(c) ==
    /\ c \in up
    /\ moves < MaxMoves
    /\ moves' = moves + 1
    /\ up' = up \ {c}
    /\ current' = [current EXCEPT ![c] = None]
    /\ awaiting' = [awaiting EXCEPT ![c] = "nothing"]
    /\ messageRetryCount' = [messageRetryCount EXCEPT ![c] = NoCounts]
    /\ owner' = [p \in Partitions |-> IF owner[p] = c THEN None ELSE owner[p]]
    /\ UNCHANGED <<produced, position, committed, base, ended, announced, failures, dead>>
-----------------------------------------------------------------------------
(***************************************************************************)
(* eachMessage.                                                            *)
(***************************************************************************)

\* Mutant: a consumer that lost the partition moves past m all the same.
MovePastStale(c, m) == position' = [position EXCEPT ![m[1]] = m[2]]

\* The consumer moves past m, if the partition is still its own.
MovePast(c, m) ==
    position' = [p \in Partitions |->
                    IF p = m[1] /\ owner[p] = c THEN m[2] ELSE position[p]]

\* eachMessage returns without an error, whatever became of the message.
Return(c, m) ==
    /\ current' = [current EXCEPT ![c] = None]
    /\ awaiting' = [awaiting EXCEPT ![c] = "nothing"]
    /\ MovePast(c, m)
    /\ ended' = ended \cup {m}

Count(c, m) == messageRetryCount[c][MessageId[m]]

\* Mutant: the count of a message that was given up is kept.
ForgetNot(c, m) == UNCHANGED messageRetryCount

\* messageRetryCount.delete(messageId)
Forget(c, m) ==
    messageRetryCount' = [messageRetryCount EXCEPT ![c][MessageId[m]] = 0]

\* Mutant: one attempt too many is counted.
GiveUpLate(c, m) == Count(c, m) > MAX_RETRY_ATTEMPTS

\* retryCount >= this.MAX_RETRY_ATTEMPTS
GiveUp(c, m) == Count(c, m) >= MAX_RETRY_ATTEMPTS

\* Mutant: eachMessage rejects, and KafkaJS delivers the message again.
HandleFailedThrown(c, m) ==
    /\ current' = [current EXCEPT ![c] = None]
    /\ awaiting' = [awaiting EXCEPT ![c] = "nothing"]
    /\ UNCHANGED <<position, messageRetryCount, ended, announced, failures>>

\* Mutant: the dead letter is not awaited, and the consumer moves past.
HandleFailedUnawaited(c, m) ==
    /\ failures' = [failures EXCEPT ![c][MessageId[m]] = @ + 1]
    /\ \/ /\ GiveUp(c, m)
          /\ current' = [current EXCEPT ![c] = m]
          /\ awaiting' = [awaiting EXCEPT ![c] = "deadLetter"]
          /\ MovePast(c, m)
          /\ UNCHANGED <<messageRetryCount, ended, announced>>
       \/ /\ ~GiveUp(c, m)
          /\ messageRetryCount' = [messageRetryCount EXCEPT ![c][MessageId[m]] = @ + 1]
          /\ announced' = announced \cup {m}
          /\ Return(c, m)

\* handleFailedMessage: counts the failure, or sends to the dead letter topic.
HandleFailed(c, m) ==
    /\ failures' = [failures EXCEPT ![c][MessageId[m]] = @ + 1]
    /\ \/ /\ GiveUp(c, m)
          /\ current' = [current EXCEPT ![c] = m]
          /\ awaiting' = [awaiting EXCEPT ![c] = "deadLetter"]
          /\ UNCHANGED <<position, messageRetryCount, ended, announced>>
       \/ /\ ~GiveUp(c, m)
          /\ messageRetryCount' = [messageRetryCount EXCEPT ![c][MessageId[m]] = @ + 1]
          /\ announced' = announced \cup {m}
          /\ Return(c, m)

\* The next message of a partition, as far as eachMessage runs without await.
Receive(c, p, m) ==
    /\ c \in up
    /\ owner[p] = c
    /\ current[c] = None
    /\ position[p] < produced[p]
    /\ m = <<p, position[p] + 1>>
    /\ \/ /\ Kind[m] = "empty"
          /\ Return(c, m)
          /\ UNCHANGED <<messageRetryCount, announced, failures>>
       \/ /\ Kind[m] = "malformed"
          /\ HandleFailed(c, m)
       \/ /\ Kind[m] = "event"
          /\ current' = [current EXCEPT ![c] = m]
          /\ awaiting' = [awaiting EXCEPT ![c] = "routeEvent"]
          /\ UNCHANGED <<position, messageRetryCount, ended, announced, failures>>
    /\ UNCHANGED <<produced, owner, committed, up, moves, base, dead>>

Routed(c) ==
    /\ awaiting[c] = "routeEvent"
    /\ Forget(c, current[c])
    /\ announced' = announced \ {current[c]}
    /\ Return(c, current[c])
    /\ UNCHANGED <<produced, owner, committed, up, moves, base, failures, dead>>

RouteFails(c) ==
    /\ awaiting[c] = "routeEvent"
    /\ HandleFailed(c, current[c])
    /\ UNCHANGED <<produced, owner, committed, up, moves, base, dead>>

DeadLetterSent(c) ==
    /\ awaiting[c] = "deadLetter"
    /\ Forget(c, current[c])
    /\ dead' = [dead EXCEPT ![c][MessageId[current[c]]] = @ + 1]
    /\ announced' = announced \ {current[c]}
    /\ Return(c, current[c])
    /\ UNCHANGED <<produced, owner, committed, up, moves, base, failures>>

\* The error is logged and the message is dropped.
DeadLetterFails(c) ==
    /\ awaiting[c] = "deadLetter"
    /\ Return(c, current[c])
    /\ UNCHANGED <<produced, owner, committed, up, messageRetryCount, moves, base,
                   announced, failures, dead>>

Answered(c) == Routed(c) \/ RouteFails(c) \/ DeadLetterSent(c) \/ DeadLetterFails(c)

Next ==
    \/ \E p \in Partitions :
          \/ Produce(p) \/ Commit(p)
          \/ \E c \in Consumers :
                Assign(p, c) \/ (\E m \in Messages : Receive(c, p, m))
    \/ \E c \in Consumers : Start(c) \/ Stop(c) \/ Answered(c)

Spec == Init /\ [][Next]_vars

\* Processes are started again and partitions get a consumer; a consumer reads
\* on, and what it awaits is answered.
FairSpec ==
    /\ Spec
    /\ \A c \in Consumers : WF_vars(Start(c)) /\ WF_vars(Answered(c))
    /\ \A p \in Partitions :
          /\ WF_vars(\E c \in Consumers : owner[p] = None /\ Assign(p, c))
          /\ SF_vars(\E c \in Consumers, m \in Messages : Receive(c, p, m))
-----------------------------------------------------------------------------
(***************************************************************************)
(* Properties.                                                             *)
(***************************************************************************)

\* Every variable has its type; a failure is counted up to MAX_RETRY_ATTEMPTS.
TypeOK ==
    /\ produced \in [Partitions -> 0..MaxOffset]
    /\ owner \in [Partitions -> Consumers \cup {None}]
    /\ position \in [Partitions -> 0..MaxOffset]
    /\ committed \in [Partitions -> 0..MaxOffset \cup {None}]
    /\ up \in SUBSET Consumers
    /\ current \in [Consumers -> Messages \cup {None}]
    /\ awaiting \in [Consumers -> {"routeEvent", "deadLetter", "nothing"}]
    /\ messageRetryCount \in [Consumers -> [Ids -> 0..MAX_RETRY_ATTEMPTS]]
    /\ moves \in 0..MaxMoves
    /\ base \in [Partitions -> 0..MaxOffset]
    /\ ended \in SUBSET Messages
    /\ announced \in SUBSET Messages
    /\ failures \in [Consumers -> [Ids -> Nat]]
    /\ dead \in [Consumers -> [Ids -> Nat]]

\* The group never commits past a message for which no consumer has finished
\* eachMessage, whatever is taken over or crashes in the middle.
CommittedAreHandled ==
    \A p \in Partitions : committed[p] # None =>
        \A o \in (base[p] + 1)..committed[p] : <<p, o>> \in ended

\* Every dead letter of a consumer stands for MAX_RETRY_ATTEMPTS + 1 failures it
\* met itself under that id and that no other dead letter has used up, although
\* it may have been stopped, and lost its counts, in between.
DeadLettersAreEarned ==
    \A c \in Consumers, i \in Ids :
        failures[c][i] >= (MAX_RETRY_ATTEMPTS + 1) * dead[c][i]

\* The group implements the delivery of the messages of each partition: first
\* handled in order, and committed once handled, in the order of the offsets, by
\* the consumers that come and go and those that lost a partition in mid-message.
Delivery == INSTANCE GroupDelivery WITH handled <- ended
ImplementsDelivery == Delivery!Spec

\* A message that fails every time does not keep the later ones from being
\* handled: eachMessage returns for every message the group began to read.
EveryMessageEnds ==
    \A m \in Messages :
        produced[m[1]] >= m[2] ~> m \in ended \/ m[2] <= base[m[1]]

\* kafka.service.ts:103, "Will retry processing message": a message for which
\* this was announced is not committed before it was routed or sent to the dead
\* letter topic.  Not kept: eachMessage returns, and KafkaJS moves on.
AnnouncedRetriesHappen ==
    \A m \in announced : m[2] <= base[m[1]] \/ committed[m[1]] = None \/ committed[m[1]] < m[2]

=============================================================================
