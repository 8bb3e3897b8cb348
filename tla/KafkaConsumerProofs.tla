------------------------- MODULE KafkaConsumerProofs -------------------------
(***************************************************************************)
(* Theorems of KafkaConsumer, for any number of consumers, partitions,     *)
(* messages, crashes and takeovers.                                        *)
(***************************************************************************)
EXTENDS KafkaConsumer, TLAPS

\* All messages of p from the first the group read up to o have been handled.
HandledUpTo(p, o) == \A n \in (base[p] + 1)..o : <<p, n>> \in ended

\* A consumer that handles a message of a partition of its own handles the next
\* one of it: a partition is not given back to a consumer in mid-message.
InHand(c) ==
    /\ awaiting[c] # "nothing" => current[c] # None
    /\ current[c] # None => current[c] \in Messages
    /\ \A p \in Partitions : current[c] # None /\ current[c][1] = p /\ owner[p] = c =>
          current[c][2] = position[p] + 1

ReadInv(p) ==
    /\ owner[p] # None => HandledUpTo(p, position[p])
    /\ committed[p] # None => HandledUpTo(p, committed[p])

\* What the failures of a consumer are for: the dead letters it sent, those it
\* still counts, and the dead letter it is sending.
Pending(c, i) == IF awaiting[c] = "deadLetter" /\ MessageId[current[c]] = i THEN 1 ELSE 0
Paid(c, i) == (MAX_RETRY_ATTEMPTS + 1) * dead[c][i]

CountInv(c) ==
    /\ awaiting[c] = "deadLetter" =>
          messageRetryCount[c][MessageId[current[c]]] >= MAX_RETRY_ATTEMPTS
    /\ \A i \in Ids :
          failures[c][i] >= Paid(c, i) + messageRetryCount[c][i] + Pending(c, i)

KafkaInv ==
    /\ TypeOK
    /\ \A c \in Consumers : InHand(c)
    /\ \A p \in Partitions : ReadInv(p)

-----------------------------------------------------------------------------
LEMMA InitKafka ==
    ASSUME Init PROVE KafkaInv
<1>1. TypeOK
  BY KafkaAssumption DEF Init, TypeOK, NoCounts
<1>2. QED
  BY <1>1 DEF Init, KafkaInv, InHand, ReadInv

LEMMA KafkaTypes ==
    ASSUME TypeOK
    PROVE  /\ \A m \in Messages : m[1] \in Partitions /\ m[2] \in 1..MaxOffset /\ m # None
           /\ \A m \in Messages : m = <<m[1], m[2]>>
           /\ \A m \in Messages : MessageId[m] \in Ids
           /\ \A p \in Partitions : /\ position[p] \in 0..MaxOffset /\ produced[p] \in 0..MaxOffset
                                    /\ base[p] \in 0..MaxOffset
                                    /\ position[p] \in Nat /\ base[p] \in Nat
           /\ \A p \in Partitions : committed[p] # None => committed[p] \in Nat
           /\ \A c \in Consumers : c # None
           /\ MaxOffset \in Nat
BY KafkaAssumption DEF TypeOK, Messages

-----------------------------------------------------------------------------
(***************************************************************************)
(* Kafka's own steps.                                                      *)
(***************************************************************************)

LEMMA ProduceKept ==
    ASSUME KafkaInv, NEW p \in Partitions, Produce(p) PROVE KafkaInv'
<1>1. TypeOK'
  BY KafkaTypes DEF KafkaInv, TypeOK, Produce, service, history
<1>2. QED
  BY <1>1 DEF KafkaInv, Produce, service, history, InHand, ReadInv, HandledUpTo

LEMMA CommitKept ==
    ASSUME KafkaInv, NEW p \in Partitions, Commit(p) PROVE KafkaInv'
<1>1. TypeOK'
  BY DEF KafkaInv, TypeOK, Commit, service, history
<1>2. ASSUME NEW q \in Partitions PROVE ReadInv(q)'
  BY <1>2 DEF KafkaInv, TypeOK, Commit, service, history, ReadInv, HandledUpTo
<1>3. QED
  BY <1>1, <1>2 DEF KafkaInv, Commit, service, history, InHand

LEMMA AssignKept ==
    ASSUME KafkaInv, NEW p \in Partitions, NEW c \in Consumers, Assign(p, c) PROVE KafkaInv'
<1>1. /\ owner' = [owner EXCEPT ![p] = c] /\ current[c] = None
      /\ UNCHANGED <<produced, committed, service, ended, announced, failures, dead>>
      /\ \/ /\ committed[p] = None
            /\ position' = [position EXCEPT ![p] = produced[p]]
            /\ base' = [base EXCEPT ![p] = produced[p]]
         \/ /\ committed[p] # None
            /\ position' = [position EXCEPT ![p] = committed[p]]
            /\ UNCHANGED base
  BY DEF Assign
<1>2. TypeOK'
  <2>1. moves' \in 0..MaxMoves
    BY KafkaAssumption DEF Assign, KafkaInv, TypeOK
  <2>2. position' \in [Partitions -> 0..MaxOffset] /\ base' \in [Partitions -> 0..MaxOffset]
    BY <1>1, KafkaTypes DEF KafkaInv, TypeOK
  <2>3. QED
    BY <1>1, <2>1, <2>2 DEF KafkaInv, TypeOK, service
<1>3. ASSUME NEW d \in Consumers PROVE InHand(d)'
  <2>1. InHand(d)
    BY DEF KafkaInv
  <2>2. QED
    BY <1>1, <2>1 DEF InHand, KafkaInv, TypeOK, service
<1>4. ASSUME NEW q \in Partitions PROVE ReadInv(q)'
  <2>1. ReadInv(q)
    BY DEF KafkaInv
  <2>2. CASE q # p
    BY <1>1, <2>1, <2>2 DEF ReadInv, HandledUpTo, KafkaInv, TypeOK
  <2>3. CASE q = p /\ committed[p] # None
    BY <1>1, <2>1, <2>3 DEF ReadInv, HandledUpTo, KafkaInv, TypeOK
  <2>4. CASE q = p /\ committed[p] = None
    <3>1. position'[p] = produced[p] /\ base'[p] = produced[p] /\ produced[p] \in Nat
      BY <1>1, <2>4, KafkaTypes DEF KafkaInv, TypeOK
    <3>2. (base'[p] + 1)..position'[p] = {}
      BY <3>1
    <3>3. QED
      BY <1>1, <2>4, <3>2 DEF ReadInv, HandledUpTo
  <2>5. QED
    BY <2>2, <2>3, <2>4
<1>5. QED
  BY <1>2, <1>3, <1>4 DEF KafkaInv

LEMMA StartKept ==
    ASSUME KafkaInv, NEW c \in Consumers, Start(c) PROVE KafkaInv'
<1>1. TypeOK'
  BY DEF KafkaInv, TypeOK, Start, topic, history
<1>2. QED
  BY <1>1 DEF KafkaInv, Start, topic, history, InHand, ReadInv, HandledUpTo

LEMMA StopKept ==
    ASSUME KafkaInv, NEW c \in Consumers, Stop(c) PROVE KafkaInv'
<1>1. TypeOK'
  <2>1. moves' \in 0..MaxMoves
    BY KafkaAssumption DEF Stop, KafkaInv, TypeOK
  <2>2. messageRetryCount' \in [Consumers -> [Ids -> 0..MAX_RETRY_ATTEMPTS]]
    BY KafkaAssumption DEF Stop, KafkaInv, TypeOK, NoCounts
  <2>3. QED
    BY <2>1, <2>2 DEF KafkaInv, TypeOK, Stop
<1>2. ASSUME NEW d \in Consumers PROVE InHand(d)'
  <2>1. InHand(d)
    BY DEF KafkaInv
  <2>2. QED
    BY <2>1, KafkaTypes DEF Stop, InHand, KafkaInv, TypeOK
<1>3. ASSUME NEW p \in Partitions PROVE ReadInv(p)'
  BY <1>3 DEF KafkaInv, Stop, ReadInv, HandledUpTo
<1>4. QED
  BY <1>1, <1>2, <1>3 DEF KafkaInv

-----------------------------------------------------------------------------
(***************************************************************************)
(* eachMessage.                                                            *)
(***************************************************************************)

\* eachMessage returns for a message that is the next of the partition, if that
\* is still the consumer's.
LEMMA ReturnKept ==
    ASSUME KafkaInv, NEW c \in Consumers, NEW m \in Messages, Return(c, m),
           owner[m[1]] = c => m[2] = position[m[1]] + 1,
           UNCHANGED <<owner, committed, base>>,
           TypeOK'
    PROVE  KafkaInv'
<1>1. /\ current' = [current EXCEPT ![c] = None]
      /\ awaiting' = [awaiting EXCEPT ![c] = "nothing"]
      /\ ended' = ended \cup {m}
      /\ \A p \in Partitions :
            position'[p] = IF p = m[1] /\ owner[p] = c THEN m[2] ELSE position[p]
  BY DEF Return, MovePast
<1>2. ASSUME NEW d \in Consumers PROVE InHand(d)'
  <2>1. InHand(d)
    BY DEF KafkaInv
  <2>2. CASE d = c
    BY <1>1, <2>2 DEF InHand, KafkaInv, TypeOK
  <2>3. CASE d # c
    <3>1. current'[d] = current[d] /\ awaiting'[d] = awaiting[d]
      BY <1>1, <2>3 DEF KafkaInv, TypeOK
    <3>2. \A p \in Partitions : owner[p] = d => position'[p] = position[p]
      BY <1>1, <2>3
    <3>3. QED
      BY <2>1, <3>1, <3>2 DEF InHand
  <2>4. QED
    BY <2>2, <2>3
<1>3. ASSUME NEW p \in Partitions PROVE ReadInv(p)'
  <2>1. ReadInv(p) /\ position[p] \in Nat /\ base[p] \in Nat
    BY KafkaTypes DEF KafkaInv
  <2>2. CASE p = m[1] /\ owner[p] = c
    <3>1. position'[p] = position[p] + 1 /\ m = <<p, position[p] + 1>> /\ c # None
      BY <1>1, <2>2, KafkaTypes DEF KafkaInv
    <3>2. HandledUpTo(p, position[p])
      BY <2>1, <2>2, <3>1 DEF ReadInv
    <3>3. ASSUME NEW n \in (base[p] + 1)..(position[p] + 1) PROVE <<p, n>> \in ended'
      <4>1. n \in (base[p] + 1)..position[p] \/ n = position[p] + 1
        BY <2>1
      <4>2. QED
        BY <1>1, <3>1, <3>2, <4>1 DEF HandledUpTo
    <3>4. HandledUpTo(p, position[p])'
      BY <3>1, <3>3 DEF HandledUpTo
    <3>5. QED
      BY <1>1, <2>1, <3>4 DEF ReadInv, HandledUpTo
  <2>3. CASE ~(p = m[1] /\ owner[p] = c)
    BY <1>1, <2>1, <2>3 DEF ReadInv, HandledUpTo
  <2>4. QED
    BY <2>2, <2>3
<1>4. QED
  BY <1>2, <1>3 DEF KafkaInv

\* eachMessage goes on to await something for a message it has in hand.
LEMMA AwaitKept ==
    ASSUME KafkaInv, NEW c \in Consumers, NEW m \in Messages, NEW what,
           current' = [current EXCEPT ![c] = m],
           awaiting' = [awaiting EXCEPT ![c] = what],
           owner[m[1]] = c => m[2] = position[m[1]] + 1,
           UNCHANGED <<owner, committed, position, base, ended>>,
           TypeOK'
    PROVE  KafkaInv'
<1>1. ASSUME NEW d \in Consumers PROVE InHand(d)'
  <2>1. InHand(d)
    BY DEF KafkaInv
  <2>2. CASE d = c
    BY <2>2, KafkaTypes DEF InHand, KafkaInv, TypeOK
  <2>3. CASE d # c
    BY <2>1, <2>3 DEF InHand, KafkaInv, TypeOK
  <2>4. QED
    BY <2>2, <2>3
<1>2. ASSUME NEW p \in Partitions PROVE ReadInv(p)'
  BY <1>2 DEF KafkaInv, ReadInv, HandledUpTo
<1>3. QED
  BY <1>1, <1>2 DEF KafkaInv

\* What eachMessage changes keeps its type.
LEMMA ReturnTypes ==
    ASSUME TypeOK, NEW c \in Consumers, NEW m \in Messages, Return(c, m)
    PROVE  /\ current' \in [Consumers -> Messages \cup {None}]
           /\ awaiting' \in [Consumers -> {"routeEvent", "deadLetter", "nothing"}]
           /\ position' \in [Partitions -> 0..MaxOffset]
           /\ ended' \in SUBSET Messages
<1>1. m[2] \in 0..MaxOffset
  BY KafkaTypes
<1>2. position' \in [Partitions -> 0..MaxOffset]
  BY <1>1 DEF Return, MovePast, TypeOK
<1>3. QED
  BY <1>2 DEF Return, TypeOK

LEMMA HandleFailedKept ==
    ASSUME KafkaInv, NEW c \in Consumers, NEW m \in Messages, HandleFailed(c, m),
           owner[m[1]] = c => m[2] = position[m[1]] + 1,
           UNCHANGED <<produced, owner, committed, up, moves, base, dead>>
    PROVE  KafkaInv'
<1>1. TypeOK /\ MessageId[m] \in Ids
  BY KafkaTypes DEF KafkaInv
<1>2. failures' \in [Consumers -> [Ids -> Nat]]
  <2>1. failures' = [failures EXCEPT ![c] =
                        [failures[c] EXCEPT ![MessageId[m]] = failures[c][MessageId[m]] + 1]]
    BY DEF HandleFailed
  <2>2. failures[c] \in [Ids -> Nat] /\ failures[c][MessageId[m]] + 1 \in Nat
    BY <1>1 DEF TypeOK
  <2>3. QED
    BY <1>1, <2>1, <2>2 DEF TypeOK
<1>3. CASE GiveUp(c, m)
  <2>1. /\ current' = [current EXCEPT ![c] = m]
        /\ awaiting' = [awaiting EXCEPT ![c] = "deadLetter"]
        /\ UNCHANGED <<position, messageRetryCount, ended, announced>>
    BY <1>3 DEF HandleFailed
  <2>2. TypeOK'
    BY <1>1, <1>2, <2>1 DEF TypeOK
  <2>3. QED
    BY <2>1, <2>2, AwaitKept
<1>4. CASE ~GiveUp(c, m)
  <2>1. /\ messageRetryCount' = [messageRetryCount EXCEPT ![c] =
              [messageRetryCount[c] EXCEPT ![MessageId[m]] = messageRetryCount[c][MessageId[m]] + 1]]
        /\ announced' = announced \cup {m}
        /\ Return(c, m)
    BY <1>4 DEF HandleFailed
  <2>2. messageRetryCount[c][MessageId[m]] + 1 \in 0..MAX_RETRY_ATTEMPTS
    BY <1>1, <1>4, KafkaAssumption DEF GiveUp, Count, TypeOK
  <2>3. messageRetryCount' \in [Consumers -> [Ids -> 0..MAX_RETRY_ATTEMPTS]]
    BY <1>1, <2>1, <2>2 DEF TypeOK
  <2>4. TypeOK'
    BY <1>1, <1>2, <2>1, <2>3, ReturnTypes DEF TypeOK
  <2>5. QED
    BY <2>1, <2>4, ReturnKept
<1>5. QED
  BY <1>3, <1>4

LEMMA ReceiveKept ==
    ASSUME KafkaInv, NEW c \in Consumers, NEW p \in Partitions, NEW m \in Messages,
           Receive(c, p, m)
    PROVE  KafkaInv'
<1>1. /\ TypeOK /\ m[1] = p /\ m[2] = position[p] + 1
      /\ UNCHANGED <<produced, owner, committed, up, moves, base, dead>>
  BY DEF Receive, KafkaInv
<1>2. CASE Return(c, m) /\ UNCHANGED <<messageRetryCount, announced, failures>>
  <2>1. TypeOK'
    BY <1>1, <1>2, ReturnTypes DEF TypeOK
  <2>2. QED
    BY <1>1, <1>2, <2>1, ReturnKept
<1>3. CASE HandleFailed(c, m)
  BY <1>1, <1>3, HandleFailedKept
<1>4. CASE /\ current' = [current EXCEPT ![c] = m]
           /\ awaiting' = [awaiting EXCEPT ![c] = "routeEvent"]
           /\ UNCHANGED <<position, messageRetryCount, ended, announced, failures>>
  <2>1. TypeOK'
    BY <1>1, <1>4 DEF TypeOK
  <2>2. QED
    BY <1>1, <1>4, <2>1, AwaitKept
<1>5. QED
  BY <1>2, <1>3, <1>4 DEF Receive

LEMMA ForgetTypes ==
    ASSUME TypeOK, NEW c \in Consumers, NEW m \in Messages, Forget(c, m)
    PROVE  messageRetryCount' \in [Consumers -> [Ids -> 0..MAX_RETRY_ATTEMPTS]]
<1>1. MessageId[m] \in Ids /\ 0 \in 0..MAX_RETRY_ATTEMPTS
  BY KafkaTypes, KafkaAssumption
<1>2. messageRetryCount' = [messageRetryCount EXCEPT ![c] =
                               [messageRetryCount[c] EXCEPT ![MessageId[m]] = 0]]
  BY DEF Forget
<1>3. QED
  BY <1>1, <1>2 DEF TypeOK

LEMMA AnsweredKept ==
    ASSUME KafkaInv, NEW c \in Consumers, Answered(c) PROVE KafkaInv'
<1> DEFINE m == current[c]
<1>1. /\ TypeOK /\ m \in Messages
      /\ owner[m[1]] = c => m[2] = position[m[1]] + 1
  <2>1. InHand(c) /\ awaiting[c] # "nothing"
    BY DEF KafkaInv, Answered, Routed, RouteFails, DeadLetterSent, DeadLetterFails
  <2>2. m \in Messages /\ m # None
    BY <2>1 DEF InHand
  <2>3. m[1] \in Partitions
    BY <2>2, KafkaTypes DEF KafkaInv
  <2>4. QED
    BY <2>1, <2>2, <2>3 DEF InHand, KafkaInv
<1> HIDE DEF m
<1>2. CASE Routed(c)
  <2>1. /\ Forget(c, m) /\ Return(c, m) /\ announced' = announced \ {m}
        /\ UNCHANGED <<produced, owner, committed, up, moves, base, failures, dead>>
    BY <1>2 DEF Routed, m
  <2>2. TypeOK'
    BY <1>1, <2>1, ForgetTypes, ReturnTypes DEF TypeOK
  <2>3. QED
    BY <1>1, <2>1, <2>2, ReturnKept
<1>3. CASE RouteFails(c)
  BY <1>1, <1>3, HandleFailedKept DEF RouteFails, m
<1>4. CASE DeadLetterSent(c)
  <2>1. /\ Forget(c, m) /\ Return(c, m) /\ announced' = announced \ {m}
        /\ dead' = [dead EXCEPT ![c] = [dead[c] EXCEPT ![MessageId[m]] = dead[c][MessageId[m]] + 1]]
        /\ UNCHANGED <<produced, owner, committed, up, moves, base, failures>>
    BY <1>4 DEF DeadLetterSent, m
  <2>2. dead' \in [Consumers -> [Ids -> Nat]]
    <3>1. MessageId[m] \in Ids
      BY <1>1, KafkaTypes
    <3>2. dead[c] \in [Ids -> Nat] /\ dead[c][MessageId[m]] + 1 \in Nat
      BY <1>1, <3>1 DEF TypeOK
    <3>3. QED
      BY <1>1, <2>1, <3>2 DEF TypeOK
  <2>3. TypeOK'
    BY <1>1, <2>1, <2>2, ForgetTypes, ReturnTypes DEF TypeOK
  <2>4. QED
    BY <1>1, <2>1, <2>3, ReturnKept
<1>5. CASE DeadLetterFails(c)
  <2>1. /\ Return(c, m)
        /\ UNCHANGED <<produced, owner, committed, up, messageRetryCount, moves, base,
                       announced, failures, dead>>
    BY <1>5 DEF DeadLetterFails, m
  <2>2. TypeOK'
    BY <1>1, <2>1, ReturnTypes DEF TypeOK
  <2>3. QED
    BY <1>1, <2>1, <2>2, ReturnKept
<1>6. QED
  BY <1>2, <1>3, <1>4, <1>5 DEF Answered

-----------------------------------------------------------------------------
(***************************************************************************)
(* Failures and dead letters.                                              *)
(***************************************************************************)
LEMMA CountTypes ==
    ASSUME TypeOK, NEW c \in Consumers, NEW i \in Ids
    PROVE  /\ failures[c][i] \in Nat /\ dead[c][i] \in Nat
           /\ messageRetryCount[c][i] \in Nat /\ MAX_RETRY_ATTEMPTS \in Nat
           /\ Paid(c, i) \in Nat /\ Pending(c, i) \in 0..1
<1>1. /\ failures[c][i] \in Nat /\ dead[c][i] \in Nat
      /\ messageRetryCount[c][i] \in Nat /\ MAX_RETRY_ATTEMPTS \in Nat
  BY KafkaAssumption DEF TypeOK
<1>2. Paid(c, i) \in Nat
  BY <1>1 DEF Paid
<1>3. QED
  BY <1>1, <1>2 DEF Pending

LEMMA CountFrame ==
    ASSUME NEW c \in Consumers, CountInv(c), awaiting'[c] = awaiting[c],
           current'[c] = current[c], messageRetryCount'[c] = messageRetryCount[c],
           failures'[c] = failures[c], dead'[c] = dead[c]
    PROVE  CountInv(c)'
BY DEF CountInv, Paid, Pending

\* A consumer that counts fewer failures, and sends no dead letter.
LEMMA CountLess ==
    ASSUME TypeOK, NEW c \in Consumers, CountInv(c), awaiting'[c] # "deadLetter",
           failures'[c] = failures[c], dead'[c] = dead[c],
           \A i \in Ids : messageRetryCount'[c][i] \in {0, messageRetryCount[c][i]}
    PROVE  CountInv(c)'
<1>1. ASSUME NEW i \in Ids
      PROVE  failures'[c][i] >= Paid(c, i)' + messageRetryCount'[c][i] + Pending(c, i)'
  <2>1. Paid(c, i)' = Paid(c, i) /\ Pending(c, i)' = 0
    BY DEF Paid, Pending
  <2>2. failures[c][i] >= Paid(c, i) + messageRetryCount[c][i] + Pending(c, i)
    BY DEF CountInv
  <2>3. QED
    BY <2>1, <2>2, CountTypes
<1>2. QED
  BY <1>1 DEF CountInv

LEMMA HandleFailedCounts ==
    ASSUME TypeOK, NEW c \in Consumers, NEW m \in Messages, HandleFailed(c, m),
           CountInv(c), awaiting[c] # "deadLetter", UNCHANGED dead
    PROVE  CountInv(c)'
<1> DEFINE id == MessageId[m]
<1>1. id \in Ids /\ m # None
  BY KafkaTypes
<1>2. /\ failures'[c][id] = failures[c][id] + 1
      /\ \A i \in Ids : i # id => failures'[c][i] = failures[c][i]
  BY <1>1 DEF HandleFailed, TypeOK
<1>3. \A i \in Ids : /\ failures[c][i] >= Paid(c, i) + messageRetryCount[c][i]
                     /\ Paid(c, i)' = Paid(c, i)
  BY CountTypes DEF CountInv, Pending, Paid
<1>4. CASE GiveUp(c, m)
  <2>1. /\ current'[c] = m /\ awaiting'[c] = "deadLetter"
        /\ messageRetryCount' = messageRetryCount
        /\ messageRetryCount[c][id] >= MAX_RETRY_ATTEMPTS
    BY <1>4 DEF HandleFailed, TypeOK, GiveUp, Count
  <2>2. \A i \in Ids : Pending(c, i)' = IF i = id THEN 1 ELSE 0
    BY <2>1 DEF Pending
  <2>3. ASSUME NEW i \in Ids
        PROVE  failures'[c][i] >= Paid(c, i)' + messageRetryCount'[c][i] + Pending(c, i)'
    BY <1>1, <1>2, <1>3, <2>1, <2>2, CountTypes
  <2>4. QED
    BY <2>1, <2>3 DEF CountInv
<1>5. CASE ~GiveUp(c, m)
  <2>1. /\ awaiting'[c] = "nothing"
        /\ messageRetryCount'[c][id] = messageRetryCount[c][id] + 1
        /\ \A i \in Ids : i # id => messageRetryCount'[c][i] = messageRetryCount[c][i]
    BY <1>1, <1>5 DEF HandleFailed, Return, TypeOK
  <2>2. \A i \in Ids : Pending(c, i)' = 0
    BY <2>1 DEF Pending
  <2>3. ASSUME NEW i \in Ids
        PROVE  failures'[c][i] >= Paid(c, i)' + messageRetryCount'[c][i] + Pending(c, i)'
    BY <1>1, <1>2, <1>3, <2>1, <2>2, CountTypes
  <2>4. QED
    BY <2>1, <2>3 DEF CountInv
<1>6. QED
  BY <1>4, <1>5

\* A dead letter uses up the failures that were counted for it.
LEMMA DeadLetterCounts ==
    ASSUME TypeOK, NEW c \in Consumers, current[c] \in Messages, CountInv(c),
           DeadLetterSent(c)
    PROVE  CountInv(c)'
<1> DEFINE id == MessageId[current[c]]
<1>1. id \in Ids
  BY KafkaTypes
<1>2. /\ dead'[c][id] = dead[c][id] + 1 /\ messageRetryCount'[c][id] = 0
      /\ \A i \in Ids : i # id => /\ dead'[c][i] = dead[c][i]
                                  /\ messageRetryCount'[c][i] = messageRetryCount[c][i]
      /\ awaiting[c] = "deadLetter" /\ awaiting'[c] = "nothing" /\ failures' = failures
  BY <1>1 DEF DeadLetterSent, Forget, Return, TypeOK
<1>3. \A i \in Ids : Pending(c, i)' = 0
  BY <1>2 DEF Pending
<1>4. ASSUME NEW i \in Ids
      PROVE  failures'[c][i] >= Paid(c, i)' + messageRetryCount'[c][i] + Pending(c, i)'
  <2>1. failures[c][i] >= Paid(c, i) + messageRetryCount[c][i] + Pending(c, i)
    BY DEF CountInv
  <2>2. CASE i = id
    <3>1. Paid(c, i)' = Paid(c, i) + MAX_RETRY_ATTEMPTS + 1
      BY <1>2, <2>2, CountTypes DEF Paid
    <3>2. messageRetryCount[c][i] >= MAX_RETRY_ATTEMPTS /\ Pending(c, i) = 1
      BY <1>2, <2>2 DEF CountInv, Pending
    <3>3. QED
      BY <1>2, <1>3, <2>1, <2>2, <3>1, <3>2, CountTypes
  <2>3. CASE i # id
    <3>1. Paid(c, i)' = Paid(c, i) /\ messageRetryCount'[c][i] = messageRetryCount[c][i]
      BY <1>2, <2>3 DEF Paid
    <3>2. QED
      BY <1>2, <1>3, <2>1, <3>1, CountTypes
  <2>4. QED
    BY <2>2, <2>3
<1>5. QED
  BY <1>2, <1>4 DEF CountInv

LEMMA AnsweredCounts ==
    ASSUME TypeOK, NEW c \in Consumers, InHand(c), CountInv(c), Answered(c)
    PROVE  CountInv(c)'
<1> DEFINE m == current[c]
<1>1. m \in Messages
  BY DEF InHand, Answered, Routed, RouteFails, DeadLetterSent, DeadLetterFails
<1>2. CASE Routed(c)
  <2>1. /\ awaiting'[c] = "nothing" /\ UNCHANGED <<failures, dead>>
        /\ \A i \in Ids : messageRetryCount'[c][i] \in {0, messageRetryCount[c][i]}
    BY <1>1, <1>2, KafkaTypes DEF Routed, Forget, Return, TypeOK
  <2>2. QED
    BY <2>1, CountLess
<1>3. CASE RouteFails(c)
  BY <1>1, <1>3, HandleFailedCounts DEF RouteFails
<1>4. CASE DeadLetterSent(c)
  BY <1>1, <1>4, DeadLetterCounts
<1>5. CASE DeadLetterFails(c)
  <2>1. awaiting'[c] = "nothing" /\ UNCHANGED <<failures, dead, messageRetryCount>>
    BY <1>5 DEF DeadLetterFails, Return, TypeOK
  <2>2. QED
    BY <2>1, CountLess
<1>6. QED
  BY <1>2, <1>3, <1>4, <1>5 DEF Answered

LEMMA ReceiveCounts ==
    ASSUME TypeOK, NEW c \in Consumers, NEW p \in Partitions, NEW m \in Messages,
           InHand(c), CountInv(c), Receive(c, p, m)
    PROVE  CountInv(c)'
<1>1. awaiting[c] = "nothing" /\ UNCHANGED dead
  BY DEF Receive, InHand
<1>2. CASE Return(c, m) /\ UNCHANGED <<messageRetryCount, announced, failures>>
  <2>1. awaiting'[c] = "nothing"
    BY <1>2 DEF Return, TypeOK
  <2>2. QED
    BY <1>1, <1>2, <2>1, CountLess
<1>3. CASE HandleFailed(c, m)
  BY <1>1, <1>3, HandleFailedCounts
<1>4. CASE /\ awaiting' = [awaiting EXCEPT ![c] = "routeEvent"]
           /\ UNCHANGED <<position, messageRetryCount, ended, announced, failures>>
  <2>1. awaiting'[c] = "routeEvent"
    BY <1>4 DEF TypeOK
  <2>2. QED
    BY <1>1, <1>4, <2>1, CountLess
<1>5. QED
  BY <1>2, <1>3, <1>4 DEF Receive

\* What one consumer does is not counted at another.
LEMMA OthersCount ==
    ASSUME TypeOK, NEW c \in Consumers, NEW d \in Consumers, d # c, CountInv(d),
           \/ Answered(c) \/ Stop(c)
           \/ \E p \in Partitions, m \in Messages : Receive(c, p, m)
    PROVE  CountInv(d)'
<1>1. awaiting'[d] = awaiting[d] /\ current'[d] = current[d]
  BY DEF Answered, Routed, RouteFails, DeadLetterSent, DeadLetterFails, Stop, Receive,
         Return, HandleFailed, TypeOK
<1>2. /\ messageRetryCount'[d] = messageRetryCount[d]
      /\ failures'[d] = failures[d] /\ dead'[d] = dead[d]
  BY DEF Answered, Routed, RouteFails, DeadLetterSent, DeadLetterFails, Stop, Receive,
         Forget, HandleFailed, TypeOK
<1>3. QED
  BY <1>1, <1>2, CountFrame

LEMMA NextCounts ==
    ASSUME TypeOK, \A c \in Consumers : InHand(c) /\ CountInv(c), [Next]_vars,
           NEW d \in Consumers
    PROVE  CountInv(d)'
<1>1. CASE UNCHANGED <<awaiting, current, messageRetryCount, failures, dead>>
  BY <1>1, CountFrame
<1>2. ASSUME NEW c \in Consumers, Stop(c) PROVE CountInv(d)'
  <2>1. CASE d = c
    <3>1. /\ awaiting'[c] = "nothing" /\ UNCHANGED <<failures, dead>>
          /\ \A i \in Ids : messageRetryCount'[c][i] = 0
      BY <1>2 DEF Stop, NoCounts, TypeOK
    <3>2. QED
      BY <2>1, <3>1, CountLess
  <2>2. QED
    BY <1>2, <2>1, OthersCount
<1>3. ASSUME NEW c \in Consumers, NEW p \in Partitions, NEW m \in Messages, Receive(c, p, m)
      PROVE  CountInv(d)'
  BY <1>3, ReceiveCounts, OthersCount
<1>4. ASSUME NEW c \in Consumers, Answered(c) PROVE CountInv(d)'
  BY <1>4, AnsweredCounts, OthersCount
<1>5. CASE \/ UNCHANGED vars
           \/ \E p \in Partitions : \/ Produce(p) \/ Commit(p)
                                    \/ \E c \in Consumers : Assign(p, c)
           \/ \E c \in Consumers : Start(c)
  BY <1>1, <1>5 DEF vars, service, history, Produce, Commit, Assign, Start
<1>6. QED
  BY <1>2, <1>3, <1>4, <1>5 DEF Next

\* The whole of the invariant.
CountedInv == KafkaInv /\ \A c \in Consumers : CountInv(c)

LEMMA InitCounts ==
    ASSUME Init PROVE CountedInv
<1>1. KafkaInv
  BY InitKafka
<1>2. ASSUME NEW c \in Consumers PROVE CountInv(c)
  <2>1. \A i \in Ids : /\ failures[c][i] = 0 /\ dead[c][i] = 0
                       /\ messageRetryCount[c][i] = 0 /\ Pending(c, i) = 0
    BY DEF Init, NoCounts, Pending
  <2>2. \A i \in Ids : Paid(c, i) = 0
    BY <2>1, KafkaAssumption DEF Paid
  <2>3. QED
    BY <2>1, <2>2 DEF CountInv, Init
<1>3. QED
  BY <1>1, <1>2 DEF CountedInv

-----------------------------------------------------------------------------
(***************************************************************************)
(* Every step.                                                             *)
(***************************************************************************)
LEMMA NextKafka ==
    ASSUME KafkaInv, [Next]_vars PROVE KafkaInv'
<1>1. CASE UNCHANGED vars
  BY <1>1 DEF vars, topic, service, history, KafkaInv, TypeOK, InHand, ReadInv, HandledUpTo
<1>2. QED
  BY <1>1, ProduceKept, CommitKept, AssignKept, StartKept, StopKept, ReceiveKept, AnsweredKept
     DEF Next

-----------------------------------------------------------------------------
(***************************************************************************)
(* The group implements GroupDelivery.  Two more facts are needed: how the *)
(* offsets of a partition are ordered, and that a message in hand, even of *)
(* a consumer that lost its partition, has all earlier ones behind it.     *)
(***************************************************************************)
OffsetsInv(p) ==
    /\ base[p] <= position[p]
    /\ position[p] <= produced[p]
    /\ committed[p] # None => base[p] <= committed[p] /\ committed[p] <= position[p]

Ready(m) == m[2] <= produced[m[1]] /\ HandledUpTo(m[1], m[2] - 1)

DeliveryInv ==
    /\ KafkaInv
    /\ \A p \in Partitions : OffsetsInv(p)
    /\ \A c \in Consumers : current[c] # None => Ready(current[c])

\* What a step does to the messages, the offsets and what is in hand.
Keeps ==
    /\ UNCHANGED <<produced, base, ended, position, committed>>
    /\ \A d \in Consumers : current'[d] \in {None, current[d]}

Takes(c, m) ==
    /\ Ready(m)
    /\ UNCHANGED <<produced, base, ended, position, committed>>
    /\ current' = [current EXCEPT ![c] = m]

Finishes(c, m) ==
    /\ Ready(m)
    /\ owner[m[1]] = c => m[2] = position[m[1]] + 1
    /\ Return(c, m)
    /\ UNCHANGED <<produced, base, committed>>

LEMMA FailedShape ==
    ASSUME NEW c \in Consumers, NEW m \in Messages, Ready(m), HandleFailed(c, m),
           owner[m[1]] = c => m[2] = position[m[1]] + 1,
           UNCHANGED <<produced, base, committed>>
    PROVE  Takes(c, m) \/ Finishes(c, m)
BY DEF HandleFailed, Takes, Finishes

LEMMA ReceiveShape ==
    ASSUME DeliveryInv, NEW c \in Consumers, NEW p \in Partitions, NEW m \in Messages,
           Receive(c, p, m)
    PROVE  Takes(c, m) \/ Finishes(c, m)
<1>1. /\ m[1] = p /\ m[2] = position[p] + 1 /\ owner[p] = c /\ c # None
      /\ position[p] < produced[p] /\ position[p] \in Nat /\ produced[p] \in Nat
      /\ UNCHANGED <<produced, base, committed>>
  BY KafkaTypes DEF Receive, DeliveryInv, KafkaInv
<1>2. HandledUpTo(p, position[p]) /\ m[2] - 1 = position[p] /\ m[2] <= produced[p]
  BY <1>1 DEF DeliveryInv, KafkaInv, ReadInv
<1>3. Ready(m)
  BY <1>1, <1>2 DEF Ready
<1>4. CASE HandleFailed(c, m)
  BY <1>1, <1>3, <1>4, FailedShape
<1>5. CASE Return(c, m)
  BY <1>1, <1>3, <1>5 DEF Finishes
<1>6. CASE current' = [current EXCEPT ![c] = m] /\ UNCHANGED <<position, ended>>
  BY <1>1, <1>3, <1>6 DEF Takes
<1>7. QED
  BY <1>4, <1>5, <1>6 DEF Receive

LEMMA AnsweredShape ==
    ASSUME DeliveryInv, NEW c \in Consumers, Answered(c)
    PROVE  \E m \in Messages : Takes(c, m) \/ Finishes(c, m)
<1> DEFINE m == current[c]
<1>1. InHand(c) /\ awaiting[c] # "nothing" /\ UNCHANGED <<produced, base, committed>>
  BY DEF DeliveryInv, KafkaInv, Answered, Routed, RouteFails, DeadLetterSent, DeadLetterFails
<1>2. m \in Messages /\ m # None /\ Ready(m)
  BY <1>1 DEF InHand, DeliveryInv
<1>3. owner[m[1]] = c => m[2] = position[m[1]] + 1
  <2>1. m[1] \in Partitions
    BY <1>2, KafkaTypes DEF DeliveryInv, KafkaInv
  <2>2. QED
    BY <1>1, <1>2, <2>1 DEF InHand
<1>4. CASE RouteFails(c)
  <2>1. HandleFailed(c, m)
    BY <1>4 DEF RouteFails
  <2>2. QED
    BY <1>1, <1>2, <1>3, <2>1, FailedShape
<1>5. CASE Return(c, m)
  BY <1>1, <1>2, <1>3, <1>5 DEF Finishes
<1>6. QED
  BY <1>4, <1>5 DEF Answered, Routed, DeadLetterSent, DeadLetterFails

LEMMA StepShape ==
    ASSUME DeliveryInv, [Next]_vars
    PROVE  \/ Keeps
           \/ \E p \in Partitions :
                 Produce(p) \/ Commit(p) \/ (\E c \in Consumers : Assign(p, c))
           \/ \E c \in Consumers, m \in Messages : Takes(c, m) \/ Finishes(c, m)
<1>1. CASE UNCHANGED vars
  BY <1>1 DEF vars, topic, service, history, Keeps
<1>2. ASSUME NEW c \in Consumers, Start(c) \/ Stop(c) PROVE Keeps
  BY <1>2 DEF Start, Stop, topic, history, Keeps, DeliveryInv, KafkaInv, TypeOK
<1>3. QED
  BY <1>1, <1>2, ReceiveShape, AnsweredShape DEF Next

\* More messages and more of them handled: what was ready stays so.
LEMMA ReadyStays ==
    ASSUME DeliveryInv, NEW m \in Messages, Ready(m),
           produced'[m[1]] \in Nat, produced'[m[1]] >= produced[m[1]],
           base'[m[1]] = base[m[1]], ended \subseteq ended'
    PROVE  Ready(m)'
BY KafkaTypes DEF Ready, HandledUpTo, DeliveryInv, KafkaInv

LEMMA DeliveryLater ==
    ASSUME KafkaInv', \A p \in Partitions : OffsetsInv(p)',
           \A c \in Consumers, m \in Messages : current'[c] = m => Ready(m)'
    PROVE  DeliveryInv'
<1>1. ASSUME NEW c \in Consumers, current'[c] # None PROVE Ready(current[c])'
  <2>1. current'[c] \in Messages
    BY <1>1 DEF KafkaInv, InHand
  <2>2. PICK m \in Messages : current'[c] = m
    BY <2>1
  <2>3. Ready(m)'
    BY <2>2
  <2>4. QED
    BY <2>2, <2>3 DEF Ready, HandledUpTo
<1>2. QED
  BY <1>1 DEF DeliveryInv

LEMMA NextDelivery ==
    ASSUME DeliveryInv, [Next]_vars PROVE DeliveryInv'
<1>1. KafkaInv' /\ TypeOK /\ TypeOK'
  BY NextKafka DEF DeliveryInv, KafkaInv
<1>2. \A c \in Consumers, m \in Messages : current[c] = m => Ready(m)
  BY <1>1, KafkaTypes DEF DeliveryInv
<1>3. \A p \in Partitions :
         /\ OffsetsInv(p)
         /\ base[p] \in Nat /\ position[p] \in Nat /\ produced[p] \in Nat
         /\ committed[p] # None => committed[p] \in Nat
         /\ produced'[p] \in Nat
  BY <1>1, KafkaTypes DEF DeliveryInv, TypeOK
<1>4. CASE Keeps
  <2>1. ASSUME NEW p \in Partitions PROVE OffsetsInv(p)'
    BY <1>3, <1>4 DEF OffsetsInv, Keeps
  <2>2. ASSUME NEW c \in Consumers, NEW m \in Messages, current'[c] = m PROVE Ready(m)'
    BY <1>1, <1>2, <1>4, <2>2, KafkaTypes DEF Ready, HandledUpTo, Keeps
  <2>3. QED
    BY <1>1, <2>1, <2>2, DeliveryLater
<1>5. ASSUME NEW q \in Partitions, Produce(q) PROVE DeliveryInv'
  <2>1. /\ \A p \in Partitions : produced'[p] >= produced[p]
        /\ UNCHANGED <<position, committed, base, ended, current>>
    <3>1. \A p \in Partitions : produced'[p] = IF p = q THEN produced[p] + 1 ELSE produced[p]
      BY <1>1, <1>5 DEF Produce, TypeOK
    <3>2. QED
      BY <1>3, <1>5, <3>1 DEF Produce, service, history
  <2>2. ASSUME NEW p \in Partitions PROVE OffsetsInv(p)'
    BY <1>3, <2>1 DEF OffsetsInv
  <2>3. ASSUME NEW c \in Consumers, NEW m \in Messages, current'[c] = m PROVE Ready(m)'
    BY <1>1, <1>2, <1>3, <2>1, <2>3, ReadyStays, KafkaTypes
  <2>4. QED
    BY <1>1, <2>2, <2>3, DeliveryLater
<1>6. ASSUME NEW q \in Partitions, Commit(q) PROVE DeliveryInv'
  <2>1. ASSUME NEW p \in Partitions PROVE OffsetsInv(p)'
    BY <1>1, <1>3, <1>6 DEF OffsetsInv, Commit, TypeOK, history
  <2>2. ASSUME NEW c \in Consumers, NEW m \in Messages, current'[c] = m PROVE Ready(m)'
    BY <1>2, <1>6, <2>2 DEF Commit, service, history, Ready, HandledUpTo
  <2>3. QED
    BY <1>1, <2>1, <2>2, DeliveryLater
<1>7. ASSUME NEW q \in Partitions, NEW d \in Consumers, Assign(q, d) PROVE DeliveryInv'
  <2>1. ASSUME NEW p \in Partitions PROVE OffsetsInv(p)'
    BY <1>1, <1>3, <1>7 DEF OffsetsInv, Assign, TypeOK, service
  <2>2. ASSUME NEW c \in Consumers, NEW m \in Messages, current'[c] = m PROVE Ready(m)'
    <3>1. Ready(m) /\ m[1] \in Partitions /\ m[2] \in Nat /\ UNCHANGED <<produced, ended>>
      BY <1>1, <1>2, <1>7, <2>2, KafkaTypes DEF Assign, service
    <3>2. CASE base'[m[1]] = base[m[1]]
      BY <1>3, <3>1, <3>2, ReadyStays
    <3>3. CASE base'[m[1]] # base[m[1]]
      <4>1. base'[m[1]] = produced[m[1]]
        BY <1>1, <1>7, <3>1, <3>3 DEF Assign, TypeOK
      <4>2. (base'[m[1]] + 1)..(m[2] - 1) = {}
        BY <1>3, <3>1, <4>1 DEF Ready
      <4>3. QED
        BY <3>1, <4>2 DEF Ready, HandledUpTo
    <3>4. QED
      BY <3>2, <3>3
  <2>3. QED
    BY <1>1, <2>1, <2>2, DeliveryLater
<1>8. ASSUME NEW d \in Consumers, NEW n \in Messages, Takes(d, n) PROVE DeliveryInv'
  <2>1. ASSUME NEW p \in Partitions PROVE OffsetsInv(p)'
    BY <1>3, <1>8 DEF OffsetsInv, Takes
  <2>2. ASSUME NEW c \in Consumers, NEW m \in Messages, current'[c] = m PROVE Ready(m)'
    <3>1. Ready(m)
      BY <1>1, <1>2, <1>8, <2>2 DEF Takes, TypeOK
    <3>2. QED
      BY <1>8, <3>1 DEF Takes, Ready, HandledUpTo
  <2>3. QED
    BY <1>1, <2>1, <2>2, DeliveryLater
<1>9. ASSUME NEW d \in Consumers, NEW n \in Messages, Finishes(d, n) PROVE DeliveryInv'
  <2>1. /\ current' = [current EXCEPT ![d] = None] /\ ended' = ended \cup {n}
        /\ UNCHANGED <<produced, base, committed>>
        /\ \A p \in Partitions :
              position'[p] = IF p = n[1] /\ owner[p] = d THEN n[2] ELSE position[p]
    BY <1>9 DEF Finishes, Return, MovePast
  <2>2. ASSUME NEW p \in Partitions PROVE OffsetsInv(p)'
    <3>1. CASE p = n[1] /\ owner[p] = d
      <4>1. position'[p] = position[p] + 1 /\ position'[p] <= produced[p]
        BY <1>9, <2>1, <3>1 DEF Finishes, Ready
      <4>2. QED
        BY <1>3, <2>1, <4>1 DEF OffsetsInv
    <3>2. CASE ~(p = n[1] /\ owner[p] = d)
      BY <1>3, <2>1, <3>2 DEF OffsetsInv
    <3>3. QED
      BY <3>1, <3>2
  <2>3. ASSUME NEW c \in Consumers, NEW m \in Messages, current'[c] = m PROVE Ready(m)'
    <3>1. Ready(m)
      BY <1>1, <1>2, <2>1, <2>3, KafkaTypes DEF TypeOK
    <3>2. QED
      BY <2>1, <3>1 DEF Ready, HandledUpTo
  <2>4. QED
    BY <1>1, <2>2, <2>3, DeliveryLater
<1>10. QED
  BY <1>4, <1>5, <1>6, <1>7, <1>8, <1>9, StepShape

-----------------------------------------------------------------------------
(***************************************************************************)
(* The theorems.                                                           *)
(***************************************************************************)
\* The inductive invariant.
THEOREM KafkaInvariant == Spec => []CountedInv
<1>1. Init => CountedInv
  BY InitCounts
<1>2. CountedInv /\ [Next]_vars => CountedInv'
  BY NextKafka, NextCounts DEF CountedInv, KafkaInv
<1>3. QED
  BY <1>1, <1>2, PTL DEF Spec

\* Every variable keeps its type: no message is counted as failed more than
\* MAX_RETRY_ATTEMPTS times.
THEOREM KafkaTypeCorrect == Spec => []TypeOK
<1>1. CountedInv => TypeOK
  BY DEF CountedInv, KafkaInv
<1>2. QED
  BY <1>1, KafkaInvariant, PTL

\* What is committed has been handled, whoever crashed or lost its partition.
THEOREM CommittedHandled == Spec => []CommittedAreHandled
<1>1. CountedInv => CommittedAreHandled
  BY DEF CountedInv, KafkaInv, ReadInv, HandledUpTo, CommittedAreHandled
<1>2. QED
  BY <1>1, KafkaInvariant, PTL

\* A consumer sends a dead letter for no fewer than MAX_RETRY_ATTEMPTS + 1
\* failures of its own, each used for one dead letter only.
THEOREM DeadLettersEarned == Spec => []DeadLettersAreEarned
<1>1. ASSUME CountedInv PROVE DeadLettersAreEarned
  <2>1. SUFFICES ASSUME NEW c \in Consumers, NEW i \in Ids
                 PROVE  failures[c][i] >= Paid(c, i)
    BY DEF DeadLettersAreEarned, Paid
  <2>2. /\ TypeOK
        /\ failures[c][i] >= Paid(c, i) + messageRetryCount[c][i] + Pending(c, i)
    BY <1>1 DEF CountedInv, KafkaInv, CountInv
  <2>3. QED
    BY <2>2, CountTypes
<1>2. QED
  BY <1>1, KafkaInvariant, PTL

\* The messages, offsets and commits of the group are those of GroupDelivery:
\* first handled in their order, committed once handled, the commit never taken
\* back, for any number of consumers, partitions, crashes and takeovers.
THEOREM GroupImplementsDelivery == Spec => ImplementsDelivery
<1>1. ASSUME Init PROVE DeliveryInv /\ Delivery!Init
  <2>1. KafkaInv
    BY <1>1, InitKafka
  <2>2. QED
    BY <1>1, <2>1 DEF Init, Delivery!Init, DeliveryInv, OffsetsInv
<1>2. ASSUME DeliveryInv, [Next]_vars
      PROVE  [Delivery!Next]_(Delivery!deliveryVars)
  <2>1. TypeOK /\ TypeOK'
    BY <1>2, NextKafka DEF DeliveryInv, KafkaInv
  <2>2. CASE Keeps \/ \E c \in Consumers, m \in Messages : Takes(c, m)
    BY <2>2 DEF Keeps, Takes, Delivery!deliveryVars
  <2>3. ASSUME NEW p \in Partitions, Produce(p) PROVE Delivery!Publish(p)
    BY <2>3 DEF Produce, history, Delivery!Publish
  <2>4. ASSUME NEW p \in Partitions, Commit(p)
        PROVE  \E o \in 0..MaxOffset : Delivery!Commit(p, o)
    <3> DEFINE o == position[p]
    <3>1. /\ o \in 0..MaxOffset /\ o \in base[p]..produced[p]
          /\ committed[p] # None => committed[p] \in Nat /\ committed[p] <= o
      BY <1>2, <2>1, KafkaTypes DEF DeliveryInv, OffsetsInv
    <3>2. committed[p] = None \/ committed[p] < o
      BY <2>4, <3>1 DEF Commit
    <3>3. Delivery!HandledUpTo(p, o)
      BY <1>2, <2>4 DEF Commit, DeliveryInv, KafkaInv, ReadInv, HandledUpTo,
                        Delivery!HandledUpTo
    <3>4. Delivery!Commit(p, o)
      BY <2>4, <3>1, <3>2, <3>3 DEF Commit, history, Delivery!Commit
    <3>5. QED
      BY <3>1, <3>4
  <2>5. ASSUME NEW p \in Partitions, NEW c \in Consumers, Assign(p, c)
        PROVE  Delivery!BeginAtEnd(p) \/ UNCHANGED Delivery!deliveryVars
    BY <2>5 DEF Assign, service, Delivery!BeginAtEnd, Delivery!deliveryVars
  <2>6. ASSUME NEW c \in Consumers, NEW m \in Messages, Finishes(c, m)
        PROVE  m[1] \in Partitions /\ m[2] \in 1..MaxOffset /\ Delivery!Handle(m[1], m[2])
    <3>1. m[1] \in Partitions /\ m[2] \in 1..MaxOffset /\ m = <<m[1], m[2]>>
      BY <2>1, KafkaTypes
    <3>2. Ready(m) /\ ended' = ended \cup {m} /\ UNCHANGED <<produced, base, committed>>
      BY <2>6 DEF Finishes, Return
    <3>3. QED
      BY <3>1, <3>2 DEF Ready, HandledUpTo, Delivery!HandledUpTo, Delivery!Handle
  <2>7. QED
    BY <1>2, <2>2, <2>3, <2>4, <2>5, <2>6, StepShape DEF Delivery!Next
<1>3. DeliveryInv /\ [Next]_vars => DeliveryInv'
  BY NextDelivery
<1>4. QED
  BY <1>1, <1>2, <1>3, PTL DEF Spec, ImplementsDelivery, Delivery!Spec

=============================================================================
