CONSTANTS
    leaf = leaf
    r1 = r1
    Unsafe = Unsafe
    Empty = Empty
    Foreign = Foreign
    None = None
    Device <- MCDevice
    Eos <- MCDevice
    Firewall = {}
    Render <- MCRender
    Offer <- MCOffer
    Tampered = {}
    Operable <- MCDevice
    Flaky <- MCDevice
    MayCalm = FALSE
    MaxStranded = 0
SPECIFICATION Spec
PROPERTIES
    SuspendedIsNeverReached
