SPECIFICATION Spec
CONSTANTS
    Endpoints = {e1, e2}
    RawNames <- MCRawNames
    Sanitized <- MCSanitized
    TooShort <- MCTooShort
    Folded <- MCFolded
    Capacities = {0, 1, 2}
    MaxPlayerId = 2
    MaxRooms = 2
SYMMETRY EndpointSymmetry
INVARIANTS
    TypeOK
    UniqueIdentity
    MembershipAgrees
    RoomPopulation
    ShipsMatchCrew
    ClientsKnow
PROPERTIES
    ImplementsService
    ProvidesPlayers
