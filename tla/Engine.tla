------------------------------- MODULE Engine -------------------------------
(***************************************************************************)
(* The game of one room: Engine, over the entity registry of the ECS, with *)
(* what Room adds to it, from the first player to the scores that are      *)
(* written at the end.                                                     *)
(*                                                                         *)
(* Engine::update is a sequence of loops over the indices of the registry; *)
(* `at` and `cursor` say how far it has come.  Packets are handled between *)
(* two updates (at = "idle"), a forced end comes at any time.              *)
(*                                                                         *)
(* Abstractions.  Positions are left out: which ships fire (controls and   *)
(* cooldowns), which bullets have left the screen and which pairs are close*)
(* is a choice, made in the order of the loops.  Experience and levels are *)
(* left out: they choose a bullet's damage.  Health is counted in the      *)
(* units of Damages, and every kind of enemy is worth one point.           *)
(***************************************************************************)
EXTENDS Integers, Sequences, FiniteSets, SequencesExt, FiniteSetsExt

CONSTANTS
    Players,     \* ids of the players, the network ids of their ships
    OrbBase,     \* 50: first network id of an orb (powers_ups)
    BulletBase,  \* 100: of a bullet (ball_network)
    EnemyBase,   \* 1000: of an enemy (m_next_network_id)
    ShipHp, EnemyHp,
    Damages,     \* of a bullet
    MaxShots, MaxEnemies  \* bounds: bullets fired, enemies spawned

ASSUME PlayersAreIds == Players \subseteq Nat \ {0}
ASSUME BasesAreNat == OrbBase \in Nat /\ BulletBase \in Nat /\ EnemyBase \in Nat
ASSUME BasesAscend == OrbBase <= BulletBase /\ BulletBase <= EnemyBase
ASSUME HealthIsNat == ShipHp \in Nat \ {0} /\ EnemyHp \in Nat \ {0} /\ Damages \subseteq Nat \ {0}
ASSUME BoundsAreNat == MaxShots \in Nat /\ MaxEnemies \in Nat

VARIABLES
    entity,      \* the components at each index below next, Nothing if none
    next,        \* _next_entity_id
    dead,        \* _dead_entities, used again from the back
    fleet,       \* player_entity_set
    shipOf,      \* player_id_to_entity_map, as a partial function
    nextOrb, nextBullet, nextEnemy,   \* network ids to give out
    crew,        \* m_players of the room
    state,       \* m_currentState
    at, cursor,  \* progress of Engine::update
    written      \* the scores that were last written: <<>> or one set of them

registry == <<entity, next, dead>>
ships    == <<fleet, shipOf>>
counters == <<nextOrb, nextBullet, nextEnemy>>
loop     == <<at, cursor>>
vars     == <<registry, ships, counters, crew, state, loop, written>>

Nothing == [kind |-> "nothing"]

Ship(p)      == [kind |-> "ship", net |-> p, hp |-> ShipHp, score |-> 0]
Enemy(n)     == [kind |-> "enemy", net |-> n, hp |-> EnemyHp]
Bullet(n, p, d) == [kind |-> "bullet", net |-> n, owner |-> p, damage |-> d]
Orb(n)       == [kind |-> "orb", net |-> n]

Ships   == [kind : {"ship"}, net : Players, hp : 0..ShipHp, score : Nat]
Enemies == [kind : {"enemy"}, net : Nat, hp : 0..EnemyHp]
Bullets == [kind : {"bullet"}, net : Nat, owner : Players, damage : Damages]
Orbs    == [kind : {"orb"}, net : Nat]
Things  == Ships \cup Enemies \cup Bullets \cup Orbs \cup {Nothing}

Indices == 0..(next - 1)

TypeOK ==
    /\ next \in Nat
    /\ entity \in [Indices -> Things]
    /\ dead \in Seq(Indices)
    /\ fleet \subseteq Indices
    /\ DOMAIN shipOf \subseteq Players
    /\ \A p \in DOMAIN shipOf : shipOf[p] \in Indices
    /\ nextOrb \in Nat /\ nextBullet \in Nat /\ nextEnemy \in Nat
    /\ crew \subseteq Players
    /\ state \in {"WAITING", "STARTING", "PLAYING", "GAME_OVER", "FINISHED"}
    /\ at \in {"idle", "shoot", "screen", "kill", "collide"}
    /\ cursor \in Int \X Int

Init ==
    /\ entity = <<>>
    /\ next = 0
    /\ dead = <<>>
    /\ fleet = {}
    /\ shipOf = <<>>
    /\ nextOrb = OrbBase /\ nextBullet = BulletBase /\ nextEnemy = EnemyBase
    /\ crew = {}
    /\ state = "WAITING"
    /\ at = "idle"
    /\ cursor = <<-1, -1>>
    /\ written = <<>>

-----------------------------------------------------------------------------
(* The registry *)

\* Regression: the index given out again stays in the list.
SpawnIndexKept == [index |-> IF dead = <<>> THEN next ELSE Last(dead), left |-> dead]

\* spawn_entity: the index killed last, or a new one.
SpawnIndex ==
    IF dead = <<>> THEN [index |-> next, left |-> dead]
    ELSE [index |-> Last(dead), left |-> Front(dead)]

\* The entities once e has been spawned.
With(e) ==
    LET new == SpawnIndex.index IN
    [i \in Indices \cup {new} |-> IF i = new THEN e ELSE entity[i]]

Spawn(e) ==
    /\ entity' = With(e)
    /\ next' = IF dead = <<>> THEN next + 1 ELSE next
    /\ dead' = SpawnIndex.left

Kill(i) ==
    /\ entity' = [entity EXCEPT ![i] = Nothing]
    /\ dead' = Append(dead, i)
    /\ UNCHANGED next

Is(i, kind) == entity[i].kind = kind

-----------------------------------------------------------------------------
(* Between updates: the packets, the administrator *)

Live == {"STARTING", "PLAYING"}

\* Room::addPlayer: spawn_player, for a player who is not in the room.
Join(p) ==
    /\ at = "idle" /\ state \in {"WAITING"} \cup Live
    /\ p \notin crew
    /\ crew' = crew \cup {p}
    /\ state' = IF state = "WAITING" /\ Cardinality(crew') >= 2 THEN "STARTING" ELSE state
    /\ IF p \in DOMAIN shipOf
       THEN UNCHANGED <<registry, ships>>
       ELSE /\ Spawn(Ship(p))
            /\ fleet' = fleet \cup {SpawnIndex.index}
            /\ shipOf' = [q \in DOMAIN shipOf \cup {p} |->
                            IF q = p THEN SpawnIndex.index ELSE shipOf[q]]
    /\ UNCHANGED <<counters, loop, written>>

\* Room::removePlayer: remove_player, if the ship is still there; a game nobody
\* is left in is over.
Leave(p) ==
    /\ at = "idle"
    /\ p \in crew
    /\ crew' = crew \ {p}
    /\ IF p \in DOMAIN shipOf
       THEN /\ Kill(shipOf[p])
            /\ fleet' = fleet \ {shipOf[p]}
            /\ shipOf' = [q \in DOMAIN shipOf \ {p} |-> shipOf[q]]
       ELSE UNCHANGED <<registry, ships>>
    /\ state' = IF crew' = {} /\ state \in Live THEN "GAME_OVER" ELSE state
    /\ UNCHANGED <<counters, loop, written>>

\* The delay of 500 ms is over.
StartGame ==
    /\ at = "idle" /\ state = "STARTING"
    /\ state' = "PLAYING"
    /\ UNCHANGED <<registry, ships, counters, crew, loop, written>>

ForceEnd ==
    /\ state' = "GAME_OVER"
    /\ UNCHANGED <<registry, ships, counters, crew, loop, written>>

-----------------------------------------------------------------------------
(* Engine::update *)

Go(where) == at' = where /\ cursor' = <<-1, -1>>

\* Room::update of a game that plays, in which the next enemy is due or not.
StartUpdate ==
    /\ at = "idle" /\ state = "PLAYING"
    /\ Go("shoot")
    /\ \/ UNCHANGED <<registry, nextEnemy>>
       \/ /\ nextEnemy < EnemyBase + MaxEnemies
          /\ Spawn(Enemy(nextEnemy))
          /\ nextEnemy' = nextEnemy + 1
    /\ UNCHANGED <<ships, nextOrb, nextBullet, crew, state, written>>

\* Regression: a bullet has the network id of the ship that fires it.
BulletIdOfShip(i) == entity[i].net

BulletId(i) == nextBullet

\* shoot_bullet for the ship i, whose controls and cooldown say so.
Shoot(i, d) ==
    /\ at = "shoot"
    /\ i \in fleet /\ i > cursor[1] /\ Is(i, "ship")
    /\ nextBullet < BulletBase + MaxShots
    /\ Spawn(Bullet(BulletId(i), entity[i].net, d))
    /\ nextBullet' = nextBullet + 1
    /\ cursor' = <<i, -1>>
    /\ UNCHANGED <<ships, nextOrb, nextEnemy, crew, state, at, written>>

ShotsFired ==
    /\ at = "shoot"
    /\ Go("screen")
    /\ UNCHANGED <<registry, ships, counters, crew, state, written>>

\* bullet_system: bullet i has left the screen.
LeaveScreen(i) ==
    /\ at = "screen"
    /\ i > cursor[1] /\ Is(i, "bullet")
    /\ Kill(i)
    /\ cursor' = <<i, -1>>
    /\ UNCHANGED <<ships, counters, crew, state, at, written>>

\* All systems before the kills have run: of what they move, the bullets that left
\* the screen are all that shows here.
ScreenSwept ==
    /\ at = "screen"
    /\ Go("kill")
    /\ UNCHANGED <<registry, ships, counters, crew, state, written>>

Dying == {i \in Indices : (Is(i, "ship") \/ Is(i, "enemy")) /\ entity[i].hp <= 0}

\* killEntities_system: an orb takes the place of an enemy, before the enemy's
\* index is free.
KillEnemy(i) ==
    /\ at = "kill"
    /\ Dying # {} /\ i = Min(Dying) /\ Is(i, "enemy")
    /\ entity' = [With(Orb(nextOrb)) EXCEPT ![i] = Nothing]
    /\ next' = IF dead = <<>> THEN next + 1 ELSE next
    /\ dead' = Append(SpawnIndex.left, i)
    /\ nextOrb' = nextOrb + 1
    /\ UNCHANGED <<ships, nextBullet, nextEnemy, crew, state, loop, written>>

\* Regression: the ship shot down stays in player_entity_set.
FleetAfterNone(i) == fleet

FleetAfter(i) == fleet \ {i}

KillShip(i) ==
    /\ at = "kill"
    /\ Dying # {} /\ i = Min(Dying) /\ Is(i, "ship")
    /\ Kill(i)
    /\ fleet' = FleetAfter(i)
    /\ shipOf' = [p \in {q \in DOMAIN shipOf : shipOf[q] # i} |-> shipOf[p]]
    /\ UNCHANGED <<counters, crew, state, loop, written>>

AllKilled ==
    /\ at = "kill"
    /\ Dying = {}
    /\ Go("collide")
    /\ UNCHANGED <<registry, ships, counters, crew, state, written>>

-----------------------------------------------------------------------------
(* The collisions: every pair of entities that are still there, in order *)

\* The pair (i, j) is reached, and close.
Meet(i, j) ==
    /\ at = "collide"
    /\ i < j
    /\ i > cursor[1] \/ (i = cursor[1] /\ j > cursor[2])
    /\ cursor' = <<i, j>>
    /\ UNCHANGED <<next, counters, crew, state, at, written>>

Less(hp, damage) == IF hp > damage THEN hp - damage ELSE 0

Wounded(e, damage) == [entity[e] EXCEPT !.hp = Less(@, damage)]

\* Regression: the owner is looked up by map[id], which makes an entry for entity
\* 0 where there is none.
ScorerOrFirst(p) == IF p \in DOMAIN shipOf THEN {shipOf[p]} ELSE {0}

\* Regression: the ship is looked up by the player's id, which is no index.
ScorerById(p) == {p} \cap fleet

\* add_score: the ship of the player, if it has one now.
Scorer(p) == IF p \in DOMAIN shipOf THEN {shipOf[p]} ELSE {}

WithPoint(S, f) ==
    [i \in Indices |->
        IF i \in S /\ f[i].kind = "ship" THEN [f[i] EXCEPT !.score = @ + 1] ELSE f[i]]

\* A bullet before an enemy: the owner has a point if the enemy has no health
\* left, or had none left before.
HitScored(b, e) ==
    LET shot == Wounded(e, entity[b].damage)
        paid == IF shot.hp <= 0 THEN Scorer(entity[b].owner) ELSE {}
    IN
    /\ Meet(b, e)
    /\ Is(b, "bullet") /\ Is(e, "enemy")
    /\ entity' = WithPoint(paid, [entity EXCEPT ![b] = Nothing, ![e] = shot])
    /\ dead' = Append(dead, b)
    /\ UNCHANGED ships

\* An enemy before a bullet: nobody has a point.
HitUnscored(e, b) ==
    /\ Meet(e, b)
    /\ Is(e, "enemy") /\ Is(b, "bullet")
    /\ entity' = [entity EXCEPT ![e] = Wounded(e, entity[b].damage), ![b] = Nothing]
    /\ dead' = Append(dead, b)
    /\ UNCHANGED ships

\* A ship and an enemy, in either order, hurt each other, by n and m.
Ram(i, j) ==
    /\ Meet(i, j)
    /\ \/ i \in fleet /\ Is(i, "ship") /\ Is(j, "enemy")
       \/ j \in fleet /\ Is(j, "ship") /\ Is(i, "enemy")
    /\ \E n, m \in Damages :
        entity' = [entity EXCEPT ![i] = Wounded(i, n), ![j] = Wounded(j, m)]
    /\ UNCHANGED <<dead, ships>>

\* levelUp: the orb goes, when a ship reaches it.
Collect(i, j) ==
    LET orb == IF Is(i, "orb") THEN i ELSE j
        ship == IF Is(i, "orb") THEN j ELSE i
    IN
    /\ Meet(i, j)
    /\ Is(orb, "orb") /\ ship \in fleet /\ Is(ship, "ship")
    /\ entity' = [entity EXCEPT ![orb] = Nothing]
    /\ dead' = Append(dead, orb)
    /\ UNCHANGED ships

\* hasLost, at the end of Room::update.
EndUpdate ==
    /\ at = "collide"
    /\ Go("idle")
    /\ state' = IF fleet = {} /\ state = "PLAYING" THEN "GAME_OVER" ELSE state
    /\ UNCHANGED <<registry, ships, counters, crew, written>>

\* collect_all_player_scores, called by broadcastGameEvents.
Scores == {[id |-> entity[i].net, score |-> entity[i].score] : i \in {j \in Indices : Is(j, "ship")}}

WriteScores ==
    /\ at = "idle" /\ state = "GAME_OVER"
    /\ state' = "FINISHED"
    /\ written' = <<Scores>>
    /\ UNCHANGED <<registry, ships, counters, crew, loop>>

-----------------------------------------------------------------------------

Loops ==
    \/ ShotsFired
    \/ ScreenSwept
    \/ AllKilled
    \/ EndUpdate
    \/ \E i \in Indices :
        \/ \E d \in Damages : Shoot(i, d)
        \/ LeaveScreen(i)
        \/ KillEnemy(i)
        \/ KillShip(i)
        \/ \E j \in Indices :
            HitScored(i, j) \/ HitUnscored(i, j) \/ Ram(i, j) \/ Collect(i, j)

Next ==
    \/ \E p \in Players : Join(p) \/ Leave(p)
    \/ StartGame
    \/ ForceEnd
    \/ StartUpdate
    \/ Loops
    \/ WriteScores

Spec == Init /\ [][Next]_vars

\* An update that has begun goes on.
FairSpec == Spec /\ WF_vars(Loops)

-----------------------------------------------------------------------------
(* Properties *)

Alive == {i \in Indices : ~Is(i, "nothing")}

\* Every index has one owner: an entity, or one place in the list of indices to
\* give out again.  (A second kill of an entity in the same round of collisions
\* would give its index to two entities.)
IndexHasOneOwner ==
    /\ \A m, n \in 1..Len(dead) : dead[m] = dead[n] => m = n
    /\ \A i \in Indices : i \in Alive <=> \A m \in 1..Len(dead) : dead[m] # i

\* The set and the map of the ships know the ships there are, no others, and
\* each under the id of its player, who is in the room.
FleetAgrees ==
    /\ fleet = {i \in Indices : Is(i, "ship")}
    /\ fleet = {shipOf[p] : p \in DOMAIN shipOf}
    /\ \A p \in DOMAIN shipOf : p \in crew /\ entity[shipOf[p]].net = p

\* An id from the range of the next kind: nothing in the code keeps the counters from
\* it, nor an id of a player, and no player's id is used again.
PastItsRange(e) ==
    \/ e.kind = "ship" /\ e.net >= OrbBase
    \/ e.kind = "orb" /\ e.net >= BulletBase
    \/ e.kind = "bullet" /\ e.net >= EnemyBase

\* Whichever indices are used again, entities of one kind never have the same network
\* id, and entities of two kinds only if one of them is past its range.
NetworkIdsDiffer ==
    \A i, j \in Alive : entity[i].net = entity[j].net =>
        \/ i = j
        \/ /\ entity[i].kind # entity[j].kind
           /\ PastItsRange(entity[i]) \/ PastItsRange(entity[j])

\* No id has been given out, nor can a player have one, that is past its range: fewer
\* than 50 connections since the server's start, 50 orbs and 900 bullets in a game.
CountersInRange ==
    /\ \A p \in Players : p < OrbBase
    /\ nextOrb <= BulletBase
    /\ nextBullet <= EnemyBase

PaidForABullet ==
    \A i \in Indices :
        Is(i, "ship") /\ entity'[i].kind = "ship" /\ entity'[i].score # entity[i].score =>
            \E b \in Indices : /\ Is(b, "bullet") /\ entity'[b].kind = "nothing"
                               /\ entity[b].owner = entity[i].net

\* A point is paid for a bullet that hits, and to the player who fired it,
\* whatever has become of the index of its ship since.
PointsGoToTheShooter == [][PaidForABullet]_vars

\* Bullet b takes the last health of enemy e.
LastHit(b, e) ==
    /\ Is(b, "bullet") /\ entity'[b].kind = "nothing"
    /\ Is(e, "enemy") /\ entity[e].hp > 0
    /\ entity'[e].kind = "enemy" /\ entity'[e].hp = 0

\* Player p, if it has a ship, has a point more.
Paid(p) ==
    p \in DOMAIN shipOf => entity'[shipOf[p]].score = entity[shipOf[p]].score + 1

\* "Enemy meets bullet (symmetric)": a bullet that takes an enemy's last health is
\* paid for in either order of the two.
KillsArePaid ==
    [][\A b, e \in Indices : LastHit(b, e) => Paid(entity[b].owner)]_vars

\* It is in one: a bullet of a lower index than the enemy whose last health it
\* takes is always paid for, to the ship its owner has by then.
KillsInOrderArePaid ==
    [][\A b, e \in Indices : b < e /\ LastHit(b, e) => Paid(entity[b].owner)]_vars

-----------------------------------------------------------------------------
(* What the engine promises to those who send its game *)

World == [i \in Alive |-> [id |-> entity[i].net, type |-> entity[i].kind]]

Taken ==
    (OrbBase..(nextOrb - 1)) \cup (BulletBase..(nextBullet - 1)) \cup (EnemyBase..(nextEnemy - 1))

Stage ==
    CASE state = "WAITING"  -> "waiting"
      [] state = "STARTING" -> "starting"
      [] state = "PLAYING"  -> "playing"
      [] OTHER              -> "over"

Game == INSTANCE RoomGame WITH
    Bodies    <- OrbBase..(EnemyBase + MaxEnemies - 1),
    BodyTypes <- {"enemy", "bullet", "orb"},
    world     <- World,
    taken     <- Taken,
    stage     <- Stage

\* Through all the loops of an update, the players who come and go between two of
\* them and an end forced in their middle, the engine implements RoomGame: one
\* entity comes or goes at a time, on the one free index or the other, under an id
\* that is new, and nothing else of it is ever seen to change.
ImplementsGame == Game!GameSpec

\* The final scores, which the room collects from the engine, are those of its
\* players.
FinalScoresAreKept ==
    written # <<>> => \A p \in crew : \E s \in written[1] : s.id = p

=============================================================================
