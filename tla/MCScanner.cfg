SPECIFICATION MCSpec
CONSTANTS
    prio = prio
    plain = plain
    mute = mute
    wx = wx
    cc = cc
    NoId = NoId
    LaneCount = 3
    Channels <- MCChannels
    Priority = {prio}
    SeeOnly = {mute}
    Background = {wx}
    SubGated = {mute}
    Discoveries = {cc}
    TuneCmds <- MCTunes
    Readings <- MCReadings
    OpenPolls = 2
    Warmup = 1
    Hang = 1
    ToneLoss = 1
    Holdoffs = {4}
    AlertHolds = {1}
    Freq = {f1, f2}
    Channel = {c1}
    Ring = 3
    Cap = 5
    MinClip = 2
    Flap = 2
    Budget = 1
    Lag = 1
    MaxTime = 6
    MaxDeeds = 1
    MaxTurns = 3
INVARIANTS SpeakerSound LanesAsTold ClipsSound
PROPERTIES HandedOn
SYMMETRY FreqSymmetry
CHECK_DEADLOCK FALSE
