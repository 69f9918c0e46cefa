SPECIFICATION FairSpec
CONSTANTS
    Players = {1, 2}
    OrbBase = 3
    BulletBase = 5
    EnemyBase = 8
    ShipHp = 1
    EnemyHp = 1
    Damages = {1}
    MaxShots = 2
    MaxEnemies = 1
PROPERTIES
    KillsArePaid
CHECK_DEADLOCK FALSE
