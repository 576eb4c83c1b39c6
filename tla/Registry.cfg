SPECIFICATION Spec
CONSTANTS
    Threads = {t1, t2}
    Names <- MCNames
    Texts <- MCTexts
    Signatures <- TwoServices
    AnySignature <- Star
    Hosts <- MCHosts
    Ports <- MCPorts
    Providers <- TwoProviders
    Requests <- Calls
INVARIANTS
    TypeOK
    WritersAreAlone
    CandidateExists
    MapIsConsistent
PROPERTIES
    SignatureIsFixed
    ActsAtomically
