SPECIFICATION MCSpec
CONSTANTS
    rtl = rtl
    spy = spy
    None = None
    Rtl = rtl
    Sources = {rtl, spy}
    Shapes = {1, 2}
    Configs <- MCConfigs
    Pids = {1, 2, 3}
    MaxFaults = 2
    MaxCalls = 3
    MaxTx = 2
    MaxTs = 3
    MaxPipe = 3
    Retention = 1
    Cooldown = 1
    Mishaps <- MCMishaps
INVARIANTS HelperSound RowsSound
PROPERTIES ErrorLiftedByHelper EventuallyHealthy AlertsShown
CHECK_DEADLOCK FALSE
