SPECIFICATION MCSpec
CONSTANTS
    MaxTurns = 4
    FdLimit = 3
    PktCountMod = 4
    MaxLost = 1
    MaxCopies = 1
    Clients = {c1, c2, c3}
    Nobody = Nobody
    Bodies <- MCBodies
    MaxRuns = 2
INVARIANTS
    ReplyIsMine
    ObeyedCountsDistinct
    ShowsWhatWasMeant
PROPERTIES
    TurnEnds
    TakenIsAnswered
CHECK_DEADLOCK FALSE
