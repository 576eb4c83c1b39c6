SPECIFICATION Spec
CONSTANTS
    provider = provider
    other = other
    Peers = {provider, other}
    Threads = {t1}
    Connections = {c1, c2}
    Asked <- WholeProvider
    Received <- MCReceived
    None = None
    Names <- MCNames
    Texts <- MCTexts
    Signatures <- MCSignatures
    AnySignature <- Star
    Hosts <- MCHosts
    Ports <- MCPorts
    Providers <- MCProviders
    Requests <- Calls
INVARIANTS
    ProviderIsDeregistered
