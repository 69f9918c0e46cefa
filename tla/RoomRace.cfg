SPECIFICATION FairSpec
CONSTANTS
    Players = {p1, p2, p3}
    Capacity = 3
    MaxForced = 2
INVARIANTS
    PlayersFollow
    NoGameWithoutPlayers
PROPERTIES
    EndsAreProcessed
    StartingEnds
    LostGamesEnd
    OverForGood
    ServesUnlessUndone
