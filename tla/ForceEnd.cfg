SPECIFICATION Spec
CONSTANTS
    Players = {p1, p2, p3}
    Capacity = 3
    MaxForced = 1
SYMMETRY PlayerSymmetry
INVARIANTS
    ForcedEndHolds
