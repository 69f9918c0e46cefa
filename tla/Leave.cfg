\* The client leaves a room by the key Q.
SPECIFICATION FairSpec
CONSTANTS
    Rooms = {r1}
    Cap = 2
    MaxRequests = 1
    MaxReplies = 2
PROPERTIES
    LeaveIsCarriedOut
CHECK_DEADLOCK FALSE
