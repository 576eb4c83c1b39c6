SPECIFICATION Spec
CONSTANTS
    provider = provider
    other = other
    Peers = {provider, other}
    Threads = {t1, t2}
    Connections = {c1, c2}
    Asked <- Little
    Received <- MCReceived
    None = None
    Names <- MCNames
    Texts <- MCTexts
    Signatures <- MCSignatures
    AnySignature <- Star
    Hosts <- MCHosts
    Ports <- MCPorts
    Providers <- MCProviders
    Requests <- Calls
PROPERTIES
    EveryCallEnds
    StopsOnSignal
