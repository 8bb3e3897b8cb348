\* Two consumers, four messages, two crashes or takeovers.
SPECIFICATION FairSpec
CONSTANTS
    p1 = p1
    Consumers = {c1, c2}
    Partitions <- MCPartitions
    Ids <- MCIds
    Kind <- MCKind
    MessageId <- MCMessageId
    MAX_RETRY_ATTEMPTS = 1
    MaxOffset = 4
    MaxMoves = 2
    None = None
INVARIANTS
    TypeOK
    CommittedAreHandled
    DeadLettersAreEarned
PROPERTIES
    ImplementsDelivery
    EveryMessageEnds
CHECK_DEADLOCK FALSE
