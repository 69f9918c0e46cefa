SPECIFICATION Spec
CONSTANTS
    Players = {1, 2}
    OrbBase = 3
    BulletBase = 5
    EnemyBase = 7
    ShipHp = 1
    EnemyHp = 1
    Damages = {1}
    MaxShots = 1
    MaxEnemies = 1
INVARIANTS
    FinalScoresAreKept
CHECK_DEADLOCK FALSE
