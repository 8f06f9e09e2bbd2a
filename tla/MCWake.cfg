CONSTANTS
    d1 = d1
    d2 = d2
    c1 = c1
    c2 = c2
    None = None
    Device <- MCDevice
    Checksum <- MCChecksum
    Delays <- MCDelays
    PollSeconds = 2
    StablePolls = 2
    SettleLimit = 3
    MaxTurn = 2
SPECIFICATION Spec
INVARIANTS
    TypeOK
    WakesOnWhatHeldStill
    IntervalHoldsForARender
    NeverHeldPastSettleLimit
    StableMoveWakes
PROPERTIES
    ContractSpec
