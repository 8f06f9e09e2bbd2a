CONSTANTS
    dev = dev
    r1 = r1
    r2 = r2
    Unsafe = Unsafe
    Empty = Empty
    Foreign = Foreign
    None = None
    Device <- MCDevice
    Eos = {}
    Firewall = {}
    Render <- MCRender
    Offer <- MCOffer
    Tampered <- MCDevice
    Operable <- MCDevice
    Flaky <- MCDevice
    MayCalm = FALSE
    MaxStranded = 1
SPECIFICATION Spec
INVARIANTS
    TypeOK
    RecordCoherent
    StrandedSessionsBounded
PROPERTIES
    ConfirmationIsEarned
    DriftMeansTheDeviceMoved
    DryRunLeavesNoTrace
