SPECIFICATION Spec
CONSTANTS
    Threads = {t1, t2, t3}
    Names <- MCNames
    Texts <- MCTexts
    Signatures <- PlainService
    AnySignature <- Star
    Hosts <- MCHosts
    Ports <- MCPorts
    Providers <- OneProvider
    Requests <- FlipRequests
PROPERTIES
    CallsReturn
    RefinesRegistrySpec
