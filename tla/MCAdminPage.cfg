SPECIFICATION PageSpec
CONSTANTS
    Fields = {"l", "s", "h"}
    Cost <- Costs
    Sliders = {"l", "s"}
    Values = {"a", "b", "bad"}
    Invalid = {"bad"}
    Nothing = Nothing
    Plans <- SomePlans
INVARIANTS PageSound
PROPERTIES PageConverges
CHECK_DEADLOCK FALSE
