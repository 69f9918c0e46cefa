------------------------------ MODULE RoomGame ------------------------------
(***************************************************************************)
(* The game of a room, reduced to what a snapshot can show of it: which    *)
(* entities there are, at which indices of the registry, under which       *)
(* network ids and of which types.  Engine, with its loops, its three      *)
(* counters of network ids and its lists, implements it; Snapshots sends   *)
(* it to a client.                                                         *)
(*                                                                         *)
(* An index that has been freed may be given out again in any order, but   *)
(* before any new one; the network id of anything but a ship is new in its *)
(* game; an entity keeps its index, its id and its type.                   *)
(***************************************************************************)
EXTENDS Integers, FiniteSets

CONSTANTS
    Players,      \* ids of players, the network ids of their ships
    Bodies,       \* the network ids of everything else
    BodyTypes     \* kinds of enemies, bullets and orbs (entity_state.type)

Ship == "ship"

Ids    == Players \cup Bodies
Things == [id : Ids, type : BodyTypes \cup {Ship}]

VARIABLES
    world,     \* the engine's entities, by index
    next,      \* _next_entity_id
    taken,     \* the ids of bodies that have been given out
    crew,      \* m_players
    stage      \* m_currentState; "over" is GAME_OVER or FINISHED

game == <<world, next, taken, crew, stage>>

Alive == DOMAIN world
Ships == {i \in Alive : world[i].type = Ship}
ShipOf(p) == {i \in Ships : world[i].id = p}

\* No game yet.
Grounded == stage \in {"waiting", "starting"}

GameTypeOK ==
    /\ next \in Nat
    /\ Alive \subseteq 0..(next - 1) /\ world \in [Alive -> Things]
    /\ taken \subseteq Bodies
    /\ crew \subseteq Players
    /\ stage \in {"waiting", "starting", "playing", "over"}

GameInit ==
    /\ world = <<>> /\ next = 0 /\ taken = {}
    /\ crew = {}
    /\ stage = "waiting"

-----------------------------------------------------------------------------
(* The registry *)

Free == 0..(next - 1) \ Alive

Without(I) == [j \in Alive \ I |-> world[j]]

\* registry::spawn_entity; the entities of I are killed after it.
Spawn(thing, I) ==
    \E i \in (IF Free = {} THEN {next} ELSE Free) :
        /\ world' = [j \in (Alive \ I) \cup {i} |-> IF j = i THEN thing ELSE world[j]]
        /\ next' = IF Free = {} THEN next + 1 ELSE next

-----------------------------------------------------------------------------
(* The room *)

Join(p) ==
    /\ stage # "over"
    /\ p \notin crew
    /\ crew' = crew \cup {p}
    /\ stage' = IF stage = "waiting" /\ Cardinality(crew') >= 2 THEN "starting" ELSE stage
    /\ Spawn([id |-> p, type |-> Ship], {})
    /\ UNCHANGED taken

Leave(p) ==
    /\ p \in crew
    /\ crew' = crew \ {p}
    /\ world' = Without(ShipOf(p))
    /\ stage' = IF crew' = {} /\ stage \in {"starting", "playing"} THEN "over" ELSE stage
    /\ UNCHANGED <<next, taken>>

\* The 500 ms are over.
Start ==
    /\ stage = "starting"
    /\ stage' = "playing"
    /\ UNCHANGED <<world, next, taken, crew>>

\* hasLost
Lose ==
    /\ stage = "playing" /\ Ships = {}
    /\ stage' = "over"
    /\ UNCHANGED <<world, next, taken, crew>>

\* forceEndRoom, whatever the room is doing.
ForceEnd ==
    /\ stage' = "over"
    /\ UNCHANGED <<world, next, taken, crew>>

-----------------------------------------------------------------------------
(* Engine::update, which goes on to its end if the game is ended meanwhile.  *)

\* A new entity takes the place of none, or of one: an orb that of its enemy.
Places == {{}} \cup {{i} : i \in Alive \ Ships}

\* An enemy, a bullet, or an orb in the place of the enemies of I.
SpawnBody(I) ==
    /\ ~Grounded
    /\ \E n \in Bodies \ taken, t \in BodyTypes :
        /\ Spawn([id |-> n, type |-> t], I)
        /\ taken' = taken \cup {n}
    /\ UNCHANGED <<crew, stage>>

Destroy(i) ==
    /\ ~Grounded
    /\ world' = Without({i})
    /\ UNCHANGED <<next, taken, crew, stage>>

-----------------------------------------------------------------------------

GameNext ==
    \/ \E p \in Players : Join(p) \/ Leave(p)
    \/ Start
    \/ Lose
    \/ ForceEnd
    \/ \E I \in Places : SpawnBody(I)
    \/ \E i \in Alive : Destroy(i)

GameSpec == GameInit /\ [][GameNext]_game

=============================================================================
