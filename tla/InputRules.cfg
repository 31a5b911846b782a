SPECIFICATION Spec
CONSTANTS
    Addresses <- MCAddresses
    Peers <- MCPeers
    WANLists <- MCWANLists
    NetworkSets <- MCNetworkSets
    Settings <- MCSettings
    Names <- MCNames
INVARIANTS
    ScopeDocumented
    NATDocumented
    PeerEvidenceOnce
    NamesStayPut
    AdditionsKeepNames
    OrderIrrelevant
