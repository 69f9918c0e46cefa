\* Two descriptors and two players, one of them named "System": each descriptor is used
\* again by the client of the other player, or by one that calls itself "System".
SPECIFICATION FairSpec
CONSTANTS
    Fds = {f1, f2}
    Nicks = {"ana", "System"}
    Unnamed = ""
    Lines <- MCLines
    Cut <- MCCut
    System = "System"
    Rooms = {r1}
    NoRoom = noRoom
    MaxId = 2
    MaxPending = 1
INVARIANTS
    SpeaksInTheNameItGave
PROPERTIES
    OnlySystemLeadsAstray
    QuittersAreRemoved
CHECK_DEADLOCK FALSE
