CONSTANTS
    leaf = leaf
    fw = fw
    r1 = r1
    Unsafe = Unsafe
    Empty = Empty
    Foreign = Foreign
    None = None
    Device <- MCDevice
    Eos <- MCEos
    Firewall <- MCFirewall
    Render <- MCRender
    Offer <- MCOffer
    Tampered = {}
    Operable <- MCEos
    Flaky <- MCEos
    MayCalm = FALSE
    MaxStranded = 0
SPECIFICATION Spec
INVARIANTS
    NeverErased
    FirewallsRunAlone
    
PROPERTIES
    SuspendedIsLeftAlone
