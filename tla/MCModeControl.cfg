SPECIFICATION MCSpec
CONSTANTS
    f1 = f1
    f2 = f2
    tor = tor
    svr = svr
    rwt = rwt
    None = None
    Freqs = {f1, f2}
    Configs <- MCConfigs
    Alerts = {tor, svr, rwt}
    Covered = {tor, svr, rwt}
    Tests = {rwt}
    ShowTests = TRUE
    Hold <- MCHold
    MinHold = 2
    Grace = 1
    Dedupe = 1
    Windows = 2
    WallModes = {"scan", "cb", "hf"}
    Stations = {p, q}
    NoStation = NoStation
    Still = FALSE
    MaxChanges = 3
    MaxFails = 1
INVARIANTS ChoiceKept EngineOnMode StageSound
PROPERTIES ShedOnEveryTune BreakInEnds WallFollowsServer
CHECK_DEADLOCK FALSE
