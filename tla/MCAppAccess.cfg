CONSTANTS
    alice = alice
    bob = bob
    first = first
    second = second
    vip = vip
    https = https
    api = api
    desk = desk
    hq = hq
    Grant <- MCGrant
    Run <- MCRun
    Item <- MCItem
    Vip = vip
    Prefix <- MCPrefix
    Baseline = baseline
    Predefined <- MCPredefined
    Declared <- MCDeclared
    MaxEvents = 2
    Merged <- MCMerged
    Changes <- MCChanges
    Asked <- MCAsked
    Sources <- MCSources
    None = None
SPECIFICATION FairSpec
INVARIANTS
    TypeOK
    
    LiveIsBuilt
    
PROPERTIES
    LoneRunIsRight
    ComesToRest
CHECK_DEADLOCK FALSE
