CONSTANTS
    fw = fw
    r1 = r1
    r2 = r2
    Unsafe = Unsafe
    Empty = Empty
    Foreign = Foreign
    None = None
    Device <- MCDevice
    Eos = {}
    Firewall <- MCDevice
    Render <- MCRender
    Offer <- MCOffer
    Tampered <- MCDevice
    Operable <- MCDevice
    Flaky <- MCDevice
    MayCalm = TRUE
    MaxStranded = 0
SPECIFICATION FairSpec
PROPERTIES
    Converges
    CyclesSettle
