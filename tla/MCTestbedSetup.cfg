SPECIFICATION Spec
CONSTANTS
    MaxFaults = 2
    PowerTimeout = 2
    PingTimeout = 2
    OffTimeout = 1
    PowerTime = 2
    BootTime = 2
    MaxRetries = 2
    MaxSource = 2
    Fiber <- MCFiber
    Copper <- MCCopper
    StoreForward <- MCStoreForward
    Vlans = 2
    SwitchTimes = {1}
    UnitTimes = {1, 4}
    DefaultSwitch = 2
    LoopbackLimit = 2
    Threshold = 2
    Early = {1, 10}
    Tested = {"DTN", "VMC", "CMC", "HSN"}
    MaxRuns = 2
    MaxByHand = 1
INVARIANT InUseIsUp SetUpHolds NothingStale PassedIsTrue
PROPERTY HealthyNotReset
CHECK_DEADLOCK FALSE
