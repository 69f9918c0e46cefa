------------------------------ MODULE RoomRace ------------------------------
(***************************************************************************)
(* One room, between the game thread and the HTTP thread of the admin API. *)
(*                                                                         *)
(* The state of a room, m_currentState, is atomic, but Room's functions    *)
(* load it, decide, and store it again; GameManager::forceEndRoom, on the  *)
(* HTTP thread, stores GAME_OVER at any moment in between: the mutex it    *)
(* holds is taken by nobody else.  Here every load and every store is a    *)
(* step of its own; Lobby takes each of the functions as one step.         *)
(*                                                                         *)
(* Only the game thread touches the players and the ships of this room: a  *)
(* kick, which has the HTTP thread change m_players as well, is left to    *)
(* Lobby, as one step (two threads changing an unordered_map at once is    *)
(* undefined behaviour).                                                   *)
(***************************************************************************)
EXTENDS Integers, FiniteSets

CONSTANTS
    Players,     \* the players who may come to the room
    Capacity,    \* m_config.maxPlayers
    MaxForced    \* bound: how often the administrator forces the end

ASSUME PlayersAreFinite == IsFiniteSet(Players)
ASSUME CapacitySeatsOne == Capacity \in 1..255
ASSUME BoundIsNat == MaxForced \in Nat

VARIABLES
    gpc,       \* where the game thread is
    newcomer,  \* the player whose addPlayer is going on
    state,     \* m_currentState
    players,   \* m_players
    ships,     \* player_entity_set of the engine
    told,      \* the stage of the game the messages sent to a player announce
    forced     \* how often forceEndRoom has answered success

vars == <<gpc, newcomer, state, players, ships, told, forced>>

States == {"WAITING", "STARTING", "PLAYING", "GAME_OVER", "FINISHED"}
Live   == {"STARTING", "PLAYING"}

TypeOK ==
    /\ gpc \in {"inputs", "seated", "schedule", "emptied", "endEmpty", "start",
                "announceStart", "fly", "lost", "announceEnd", "events",
                "announce", "finish"}
    /\ newcomer \in Players
    /\ state \in States
    /\ players \subseteq Players
    /\ ships \subseteq Players
    /\ told \in [Players -> {"nothing", "waiting", "playing", "over"}]
    /\ forced \in 0..MaxForced

Init ==
    \E c \in Players :
        /\ gpc = "inputs"
        /\ newcomer = c
        /\ state = "WAITING"
        /\ players = {c}
        /\ ships = {c}
        /\ told = [p \in Players |-> IF p = c THEN "waiting" ELSE "nothing"]
        /\ forced = 0

TellAll(what) == told' = [p \in Players |-> IF p \in players THEN what ELSE told[p]]

-----------------------------------------------------------------------------
(* The game thread: packets.  A player joins. *)

Join(p) ==
    /\ gpc = "inputs"
    /\ p \notin players
    /\ Cardinality(players) < Capacity
    /\ state \in {"WAITING"} \cup Live
    /\ players' = players \cup {p}
    /\ ships' = ships \cup {p}
    /\ newcomer' = p
    /\ told' = [told EXCEPT ![p] = "waiting"]
    /\ gpc' = "seated"
    /\ UNCHANGED <<state, forced>>

\* Regression: the second player starts the room, whatever its state.
MustStartByCount == Cardinality(players) >= 2

MustStart == state = "WAITING" /\ Cardinality(players) >= 2

\* The load of addPlayer: a waiting room with two players is to start; the
\* newcomer to a game under way is sent GAME_STARTING at once.
JoinLoad ==
    /\ gpc = "seated"
    /\ IF MustStart
       THEN gpc' = "schedule" /\ UNCHANGED told
       ELSE /\ gpc' = "inputs"
            /\ told' = IF state \in Live
                       THEN [told EXCEPT ![newcomer] = "playing"] ELSE told
    /\ UNCHANGED <<newcomer, state, players, ships, forced>>

JoinStore ==
    /\ gpc = "schedule"
    /\ state' = "STARTING"
    /\ gpc' = "inputs"
    /\ UNCHANGED <<newcomer, players, ships, told, forced>>

(* A player leaves, disconnects or is dropped. *)

Leave(p) ==
    /\ gpc = "inputs"
    /\ p \in players
    /\ players' = players \ {p}
    /\ ships' = ships \ {p}
    /\ gpc' = IF players' = {} THEN "emptied" ELSE "inputs"
    /\ UNCHANGED <<newcomer, state, told, forced>>

\* Regression: only a room that plays ends when it empties.
EndsEmptyIfPlaying(s) == s = "PLAYING"

EndsEmpty(s) == s \in Live

LeaveLoad ==
    /\ gpc = "emptied"
    /\ gpc' = IF EndsEmpty(state) THEN "endEmpty" ELSE "inputs"
    /\ UNCHANGED <<newcomer, state, players, ships, told, forced>>

LeaveStore ==
    /\ gpc = "endEmpty"
    /\ state' = "GAME_OVER"
    /\ gpc' = "inputs"
    /\ UNCHANGED <<newcomer, players, ships, told, forced>>

-----------------------------------------------------------------------------
(* The game thread: Room::update *)

\* Regression: the game starts only if the room has filled up.
StartsIfFull == state = "STARTING" /\ Cardinality(players) = Capacity

Starts == state = "STARTING"

\* The one load of update.  A starting room may not be due yet.
UpdateLoad ==
    /\ gpc = "inputs"
    /\ \/ gpc' = "events" /\ state # "PLAYING"
       \/ gpc' = "start" /\ Starts
       \/ gpc' = "fly" /\ state = "PLAYING"
    /\ UNCHANGED <<newcomer, state, players, ships, told, forced>>

StartStore ==
    /\ gpc = "start"
    /\ state' = "PLAYING"
    /\ gpc' = "announceStart"
    /\ UNCHANGED <<newcomer, players, ships, told, forced>>

AnnounceStart ==
    /\ gpc = "announceStart"
    /\ TellAll("playing")
    /\ gpc' = "events"
    /\ UNCHANGED <<newcomer, state, players, ships, forced>>

\* Regression: the end of the game is looked for only when a ship is destroyed.
LostToEnemies(killed) == ships # {} /\ ships \subseteq killed

\* Engine::hasLost: no player's ship is left.
Lost(killed) == ships \subseteq killed

\* Engine::update, then hasLost.
Fly(killed) ==
    /\ gpc = "fly"
    /\ ships' = ships \ killed
    /\ gpc' = IF Lost(killed) THEN "lost" ELSE "events"
    /\ UNCHANGED <<newcomer, state, players, told, forced>>

\* compare_exchange_strong(PLAYING, GAME_OVER)
LostSwap ==
    /\ gpc = "lost"
    /\ IF state = "PLAYING"
       THEN state' = "GAME_OVER" /\ gpc' = "announceEnd"
       ELSE gpc' = "events" /\ UNCHANGED state
    /\ UNCHANGED <<newcomer, players, ships, told, forced>>

AnnounceEnd ==
    /\ gpc = "announceEnd"
    /\ TellAll("over")
    /\ gpc' = "events"
    /\ UNCHANGED <<newcomer, state, players, ships, forced>>

-----------------------------------------------------------------------------
(* The game thread: GameManager::broadcastGameEvents *)

\* Regression: the end counts as announced by update, and the room is just
\* finished.
AfterEndSeenSilent == "finish"

\* Regression: the end counts as dealt with by update, and nothing is done.
AfterEndSeenIgnored == "inputs"

AfterEndSeen == "announce"

EventsLoad ==
    /\ gpc = "events"
    /\ gpc' = IF state = "GAME_OVER" THEN AfterEndSeen ELSE "inputs"
    /\ UNCHANGED <<newcomer, state, players, ships, told, forced>>

EventsAnnounce ==
    /\ gpc = "announce"
    /\ TellAll("over")
    /\ gpc' = "finish"
    /\ UNCHANGED <<newcomer, state, players, ships, forced>>

EventsStore ==
    /\ gpc = "finish"
    /\ state' = "FINISHED"
    /\ gpc' = "inputs"
    /\ UNCHANGED <<newcomer, players, ships, told, forced>>

-----------------------------------------------------------------------------
(* The HTTP thread *)

ForceEnd ==
    /\ forced < MaxForced
    /\ forced' = forced + 1
    /\ state' = "GAME_OVER"
    /\ UNCHANGED <<gpc, newcomer, players, ships, told>>

-----------------------------------------------------------------------------

Update ==
    \/ UpdateLoad \/ StartStore \/ AnnounceStart
    \/ \E killed \in SUBSET Players : Fly(killed)
    \/ LostSwap \/ AnnounceEnd

Events == EventsLoad \/ EventsAnnounce \/ EventsStore

\* What the game thread has in hand it finishes, packets or no packets.
Going == JoinLoad \/ JoinStore \/ LeaveLoad \/ LeaveStore \/ Update \/ Events

Next ==
    \/ \E p \in Players : Join(p) \/ Leave(p)
    \/ Going
    \/ ForceEnd

Spec == Init /\ [][Next]_vars

\* A tick handles the packets that were queued when it began, then updates: the
\* game thread does not stay with the packets.  After 500 ms every update finds a
\* starting room due.
FairSpec ==
    /\ Spec
    /\ WF_vars(Going)
    /\ SF_vars(UpdateLoad)
    /\ SF_vars(UpdateLoad /\ gpc' = "start")

-----------------------------------------------------------------------------
(* Properties *)

\* Whenever the game thread is back at the packets, every player of the room has
\* been told the stage the room is at, however the forced ends fell: nobody plays
\* a game it was not told of, or stays in one that is finished.
PlayersFollow ==
    gpc = "inputs" =>
        \A p \in players :
            /\ state = "WAITING"  => told[p] = "waiting"
            /\ state = "STARTING" => told[p] \in {"waiting", "playing"}
            /\ state = "PLAYING"  => told[p] = "playing"
            /\ state = "FINISHED" => told[p] = "over"

\* A game is under way only in a room that has players, except while the game
\* thread is ending it because the last one left: also after a race with a forced
\* end has put the room back to STARTING or PLAYING.
NoGameWithoutPlayers ==
    /\ state \in Live /\ gpc \notin {"emptied", "endEmpty"} => players # {}
    /\ state = "WAITING" /\ gpc \notin {"seated", "schedule"} => Cardinality(players) < 2

IsOver == state \in {"GAME_OVER", "FINISHED"}

\* The stores that undo an end are the two that make a game start, and they undo
\* only an end forced between their load and themselves: any other end, however
\* the forced ones fall, is for good.
OverForGood == [](IsOver /\ gpc \notin {"schedule", "start"} => []IsOver)

\* The stage that RoomService sees: a room is live from its second player on, and
\* over when the last one of a live room has left.
Stage ==
    IF state = "WAITING" THEN (IF Cardinality(players) < 2 THEN "open" ELSE "live")
    ELSE IF state \in Live /\ players # {} THEN "live"
    ELSE "over"

Service == INSTANCE RoomService WITH
    Rooms  <- {"room"},
    stage  <- [r \in {"room"} |-> Stage],
    aboard <- [r \in {"room"} |-> players]

Undo == forced > 0 /\ state = "GAME_OVER" /\ state' \in Live /\ UNCHANGED players

\* Taken apart into its loads and stores, with the forced ends in between, the
\* room still takes RoomService's steps, as Lobby's does, and no others but one: a
\* forced end is undone.
ServesUnlessUndone == [][Service!Next \/ Undo]_vars

\* The end of a game, forced or not, does not stay unannounced: the room is
\* finished, or the game thread has undone it.
EndsAreProcessed == state = "GAME_OVER" ~> state # "GAME_OVER"

\* A room that has begun to start plays or ends, whoever comes and goes during
\* the delay and whatever forced ends fall into it.
StartingEnds == state = "STARTING" ~> state # "STARTING"

\* A game whose ships are all lost, by enemies or by departures, does not go on:
\* it ends, or a player joins it.
LostGamesEnd == state = "PLAYING" /\ ships = {} ~> state # "PLAYING" \/ ships # {}

\* "Room ended successfully", the API answers to force_end: the room's game is
\* over from then on.
ForcedEndHolds == forced > 0 => state \notin Live

=============================================================================
