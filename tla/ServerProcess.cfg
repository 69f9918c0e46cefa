\* Two games may end in a second or in two, one process after the first.
SPECIFICATION FairSpec
CONSTANTS
    MaxMatches = 2
    MaxSeconds = 2
    MaxRestarts = 1
INVARIANTS
    ReadsAreFinished
    MatchesAreFiled
    DestroyedLast
PROPERTIES
    FilesMoveForward
    StopsWhenAsked
CHECK_DEADLOCK FALSE
