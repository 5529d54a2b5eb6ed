SPECIFICATION FairSpec
CONSTANTS
    NumMpdu = 4
    GeneralLimit = 2
    MaxPending = 2
    MailboxDepth = 2
INVARIANTS
    OneTokenPerBuffer
    HandoverAsExpected
    NoDataRace
    IInv
PROPERTIES
    ImplementsService
    EveryBufferReturns
