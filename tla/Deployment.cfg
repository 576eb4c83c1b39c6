SPECIFICATION FairSpec
CONSTANTS
    Clients = {"client1", "client2"}
    Services <- MCServices
    Threads = {1}
    Launched <- MCLaunched
    None = None
    Provided <- MCProvided
    Iterations <- MCIterations
    DefaultThreads = 2
    MaxRestarts = 1
INVARIANTS
    TypeOK
    SuccessIsOneInvocation
    NeverUnavailable
    SuccessLeavesNothing
    ClientsKeepRunning
    StopsInOrder
PROPERTIES
    RunningServicesFinish
    EveryCallComesToItsEnd
    LauncherStops
CHECK_DEADLOCK FALSE
