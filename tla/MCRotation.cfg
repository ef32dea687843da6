SPECIFICATION FairSpec
CONSTANTS
  a = a
  s = s
  p = p
  CC = CC
  None = None
  Channels = {a, s, p}
  Audible = {a, p, CC}
  Priority = {p}
  Plans <- MCPlans
  Dwell = 2
  MinDwell = 2
  MaxDwell = 2
  Look = 1
  Every = 1
  MaxHold = 2
  AlertHold = 1
  Deltas = {1}
  MaxPipe = 2
  MaxCalls = 1
  MaxFaults = 1
INVARIANTS RotationSound
PROPERTIES NeverCutOff RotationCompletes
CHECK_DEADLOCK FALSE
