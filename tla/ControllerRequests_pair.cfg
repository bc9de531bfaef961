SPECIFICATION RequestFair
CONSTANTS
    RequestCount = 2
    Scenarios <- Pairs
    MaxSends = 2
    TickSize = 1
    MaxTroubles = 1
INVARIANT EffectsFenced ResultsTrue
PROPERTY RequestSettles
