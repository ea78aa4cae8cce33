\* Messages of up to 4 chunks, await loops that give up at the third sleep.
SPECIFICATION FairSpec
CONSTANTS
    MaxChunks = 4
    AwaitIter = 1
INVARIANTS
    TypeOK
    ReceivedIsPrefix
    OnlyLastChunkLost
    SenderDoneMeansDelivered
PROPERTIES
    NoOverwriteWhileTaking
    BothReturn
    ImplementsTransfer
