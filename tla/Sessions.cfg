\* Batches smaller and larger than BatchSize, two contexts one after the other,
\* nothing failing or submits and waits failing; chunks smaller and larger than
\* the output buffer; codes that expand to more and to less than a block.
CONSTANTS
    QueueSize = 2
    BatchSize = 1
    Retries = 1
    MaxReqs = 3
    MaxInits = 2
    BufSize = 2
    MaxChunk = 3
    MaxInput = 3
    MaxStarts = 2
    BlockSize = 2
    MaxCodes = 3
    MaxExpansion = 3
    AsyncCalls = {1, 2}
SPECIFICATION SessionsSpec
CHECK_DEADLOCK FALSE
INVARIANTS
    RequestsSettled
    StreamsComplete
    QuietAfterCancel
PROPERTIES
    CallsReturn
