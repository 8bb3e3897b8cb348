\* A failed message is committed although its retry was announced.
SPECIFICATION Spec
CONSTANTS
    p1 = p1
    Consumers = {c1, c2}
    Partitions <- MCPartitions
    Ids <- MCIds
    Kind <- MCKind
    MessageId <- MCMessageId
    MAX_RETRY_ATTEMPTS = 1
    MaxOffset = 4
    MaxMoves = 2
    None = None
INVARIANT AnnouncedRetriesHappen
CHECK_DEADLOCK FALSE
