SPECIFICATION FairSpec
CONSTANTS
    Fds = {f1}
    Nicks = {"ana"}
    Unnamed = ""
    Lines <- MCLines
    Cut <- MCCut
    System = "System"
    Rooms = {r1}
    NoRoom = noRoom
    MaxId = 1
    MaxPending = 2
PROPERTIES
    BroadcastsReturn
CHECK_DEADLOCK FALSE
