CONSTANTS
    Job = {j1, j2, j3}
    Request <- MCRequests
    NoRequest <- MCNoRequest
    MaxFinished = 1
    MaxServers = 2
    HistorySize = 1
    IperfRun <- MCRun
    MaxSamples = 2
    MaxEmitted = 2
    Nothing = Nothing
    Stopped = Stopped
SPECIFICATION MenuSpec
SYMMETRY JobSymmetry
INVARIANTS
    OneTestAtATime
    TableBounded
    FinishedHasNoProcess
    LiveIsListed
    ShutdownLeavesNoProcess
    SamplesAreWhole
    PollerHasAll
PROPERTIES
    OutcomeIsFinal
CHECK_DEADLOCK FALSE
