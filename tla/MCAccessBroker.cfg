CONSTANTS
    p1 = p1
    p2 = p2
    http = http
    ssh = ssh
    None = None
    Grant <- MCGrant
    Pair <- MCPair
    Port <- MCPort
    DefaultPair = p1
    Catalogue <- MCCatalogue
    NeedsApproval <- MCNeedsApproval
    Rejected <- MCRejected
SPECIFICATION FairSpec
INVARIANTS
    TypeOK
    NothingUnapproved
    RuleHasItsObject
PROPERTIES
    LiveGrantKeepsItsRule
    ComesToRest
