SPECIFICATION Spec
CONSTANTS
    Clients = {"client1", "client2"}
    Services <- MCServices
    Threads = {1}
    Launched <- MCLaunched
    None = None
    Provided <- MCProvided
    Iterations <- MCIterations
    DefaultThreads = 2
    MaxRestarts = 1
PROPERTIES
    RunsUntilStopped
CHECK_DEADLOCK FALSE
