\* One client, two rooms of two seats.  The process of the client may end.
SPECIFICATION Spec
CONSTANTS
    Rooms = {r1, r2}
    Cap = 2
    MaxRequests = 2
    MaxReplies = 3
SYMMETRY RoomSymmetry
INVARIANTS
    ScreenIsTrue
    RoomIsKnown
CHECK_DEADLOCK FALSE
