SPECIFICATION IntegrationFair
CONSTANTS
    MaxCandidates = 2
    MaxRetries = 1
    MaxTurns = 2
    MaxEpoch = 1
    MaxMoves = 2
    MaxStops = 1
    MaxUpsets = 2
    Starts <- Troubles
INVARIANT StopHolds OneMergePerSource IntegratedIsTrue
PROPERTY CycleSettles
