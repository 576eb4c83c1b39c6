SPECIFICATION Spec
CONSTANTS
    Threads = {t1, t2}
    Names <- MCNames
    Texts <- MCTexts
    Signatures <- OneService
    AnySignature <- Star
    Hosts <- MCHosts
    Ports <- MCPorts
    Providers <- TwoProviders
    Requests <- Calls
INVARIANTS
    AnswerIsRegistered
