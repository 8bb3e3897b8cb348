---------------------------- MODULE GroupDelivery ----------------------------
(***************************************************************************)
(* What the group of KafkaServices promises of each partition of           *)
(* event-topic, whoever its consumers are: the messages are handled for    *)
(* the first time in their order, and may be handled again; the committed  *)
(* offset only moves forward, and never past a message that was not        *)
(* handled; the group may leave out what was there before it began to      *)
(* read, but once an offset is committed it leaves out nothing more.       *)
(* KafkaConsumer, with its consumers, positions, crashes and takeovers, is *)
(* shown to implement this module.                                         *)
(***************************************************************************)
EXTENDS Naturals

CONSTANTS
    Partitions,
    MaxOffset,  \* bound on the messages of a partition
    None        \* no offset

VARIABLES
    produced,   \* number of messages in each partition
    base,       \* where the group began to read it
    handled,    \* messages for which some consumer has finished eachMessage
    committed   \* the committed offset, None before the first commit

deliveryVars == <<produced, base, handled, committed>>

Init ==
    /\ produced = [p \in Partitions |-> 0]
    /\ base = [p \in Partitions |-> 0]
    /\ handled = {}
    /\ committed = [p \in Partitions |-> None]

\* A message comes to event-topic, from KafkaService.sendMessage or from anyone else.
Publish(p) ==
    /\ produced[p] < MaxOffset
    /\ produced' = [produced EXCEPT ![p] = @ + 1]
    /\ UNCHANGED <<base, handled, committed>>

\* Without a committed offset a consumer reads from the end.
BeginAtEnd(p) ==
    /\ committed[p] = None
    /\ base' = [base EXCEPT ![p] = produced[p]]
    /\ UNCHANGED <<produced, handled, committed>>

\* All messages from the first the group reads up to o.
HandledUpTo(p, o) == \A n \in (base[p] + 1)..o : <<p, n>> \in handled

Handle(p, o) ==
    /\ o <= produced[p]
    /\ HandledUpTo(p, o - 1)
    /\ handled' = handled \cup {<<p, o>>}
    /\ UNCHANGED <<produced, base, committed>>

Commit(p, o) ==
    /\ o \in base[p]..produced[p]
    /\ committed[p] = None \/ committed[p] < o
    /\ HandledUpTo(p, o)
    /\ committed' = [committed EXCEPT ![p] = o]
    /\ UNCHANGED <<produced, base, handled>>

Next ==
    \E p \in Partitions :
        \/ Publish(p) \/ BeginAtEnd(p)
        \/ \E o \in 1..MaxOffset : Handle(p, o)
        \/ \E o \in 0..MaxOffset : Commit(p, o)

Spec == Init /\ [][Next]_deliveryVars

=============================================================================
