CONSTANTS
    Windows = 2
    Sees <- SeesDef
    Band <- BandDef
    Name = {"radio"}
    Listed = {2}
    Window = 3
    Empty = 1
    Fade = 2
    Cooldown = 4
    MaxAsked = 2
    MaxSeason = 2
    MaxBad = 2
    MaxBoots = 2
    DayHours = 3
    DayMinutes = 3
    WeekDays = 3
    MonthEnds <- MCMonthEnds
    Years = 3
    Listings <- MCListings
SPECIFICATION MCSpec
INVARIANTS StationSound OnAirAsListed
PROPERTIES CooldownKept SweepGoesRound LastGoodCopy SchedulesCatchUp
CHECK_DEADLOCK FALSE
