CONSTANTS
    webhook = webhook
    retry = retry
    Check = check
    None = None
    Delivery <- MCDelivery
SPECIFICATION FairSpec
INVARIANTS
    TypeOK
    RecordNeverAhead
    ResolvedMeansSubmitted
    OneThread

    
CHECK_DEADLOCK FALSE
