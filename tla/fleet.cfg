SPECIFICATION FairSpec
CONSTANTS
    Tasks = {t1}
    Hands = {h1}
    Pausers = {h1}
    Daemon = d
    MaxHolds = 2
    MaxMoves = 1
    MaxLaunches = 2
INVARIANT TypeOK
INVARIANT StopIsOwed
INVARIANT PauseIsOwed
PROPERTY StoppedGoesOn
PROPERTY PausedGoesOn
PROPERTY RoundEnds
