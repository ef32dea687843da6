SPECIFICATION PlayingSpec
CONSTANTS
    a = a
    s = s
    wx = wx
    None = None
    Channels = {a, s, wx}
    WindowOf <- MCWindowOf
    Windows = {1, 2}
    Weather = 3
    Silent = {s}
    MaxLines = 1
    MaxInbox = 0
    Troubles <- FewTroubles
    Most = 3
 
PROPERTIES ErrorGoes
CHECK_DEADLOCK FALSE
