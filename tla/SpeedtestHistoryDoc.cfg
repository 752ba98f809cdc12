CONSTANTS
    Job = {j1, j2}
    Request <- MCMixedRequests
    NoRequest <- MCNoRequest
    MaxFinished = 1
    MaxServers = 1
    HistorySize = 1
SPECIFICATION Spec
PROPERTIES
    EveryFinishedTestIsStored
CHECK_DEADLOCK FALSE
