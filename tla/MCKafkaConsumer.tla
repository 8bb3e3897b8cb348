--------------------------- MODULE MCKafkaConsumer ---------------------------
(***************************************************************************)
(* Small instances of KafkaConsumer: an event with a key of its own, then  *)
(* a malformed message, an event and an empty message that share a key.    *)
(***************************************************************************)
EXTENDS KafkaConsumer, TLC

CONSTANT p1     \* the partition

MCPartitions == {p1}
MCIds == {"shared", "own"}
MCKind ==
    [m \in MCPartitions \X (1..MaxOffset) |->
        CASE m[2] = 2 -> "malformed" [] m[2] = 4 -> "empty" [] OTHER -> "event"]
MCMessageId ==
    [m \in MCPartitions \X (1..MaxOffset) |-> IF m[2] = 1 THEN "own" ELSE "shared"]

=============================================================================
