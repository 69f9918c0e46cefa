SPECIFICATION Spec
CONSTANTS
    Players = {1, 2}
    OrbBase = 3
    BulletBase = 5
    EnemyBase = 7
    ShipHp = 1
    EnemyHp = 2
    Damages = {1}
    MaxShots = 2
    MaxEnemies = 1
INVARIANTS
    IndexHasOneOwner
    FleetAgrees
    NetworkIdsDiffer
PROPERTIES
    PointsGoToTheShooter
    KillsInOrderArePaid
    ImplementsGame
CHECK_DEADLOCK FALSE
