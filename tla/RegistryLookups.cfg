SPECIFICATION HistorySpec
CONSTANTS
    Threads = {t1, t2}
    Names <- MCNames
    Texts <- MCTexts
    Signatures <- MCSignatures
    AnySignature <- Star
    Hosts <- MCHosts
    Ports <- MCPorts
    Providers <- MCProviders
    Requests <- MCRequests
SYMMETRY ThreadSymmetry
INVARIANTS
    LoneAnswerIsRegistered
    RoundRobin
