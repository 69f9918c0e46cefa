----------------------------- MODULE Snapshots -----------------------------
(***************************************************************************)
(* What a client shows of a game: the snapshots that the server sends of   *)
(* the entities of a room (Room::getSnapshot, cut by broadcastSnapshots),  *)
(* over UDP, to the copy that GameClient::updateFromServer keeps of them.  *)
(*                                                                         *)
(* The server sends every snapshot once and never asks what became of it;  *)
(* a datagram may be lost, delayed behind later ones, or duplicated.  The  *)
(* one exception: when the client goes on to another game, the snapshots   *)
(* of the last one have arrived or are lost.  (They carry no game, and     *)
(* every game counts its network ids anew.)  The client leaves a game by   *)
(* the user's keys only: left out is an answer to a request for a room     *)
(* that arrives when the game has begun, which takes it to the waiting     *)
(* room or the lobby without cleanupGameEntities.                          *)
(*                                                                         *)
(* Abstractions.  The engine is reduced to RoomGame, which the module      *)
(* Engine implements; an entity to its network id and its type, which a    *)
(* client takes once.  Places and velocities, overwritten by every         *)
(* snapshot, are left out.  A new entity of the client takes a local index *)
(* that is free, as Engine's registry does.                                *)
(***************************************************************************)
EXTENDS RoomGame

CONSTANTS
    MaxEntities,  \* 40, of broadcastSnapshots
    Locals,       \* indices of the client's registry
    Slots         \* bound: datagrams on their way at once

Empty == {}

ASSUME IdsAreFinite == IsFiniteSet(Players) /\ IsFiniteSet(Bodies)
ASSUME BodiesAreNoPlayers == Players \cap Bodies = {}
ASSUME ShipIsNoBody == Ship \notin BodyTypes
ASSUME CutHoldsCrew == MaxEntities \in Nat /\ Cardinality(Players) <= MaxEntities
ASSUME EnoughLocals == IsFiniteSet(Locals) /\ Cardinality(Locals) >= 2 * Cardinality(Ids)

VARIABLES
    founders,  \* the players who have been in the room since before the game
    flying,    \* the datagrams on their way
    playing,   \* the client is in PLAYING or GAME_OVER
    map,       \* networkIdToEntityMap
    local,     \* the entities of the client's registry
    shown      \* the snapshot that the client applied last, Empty if none

room   == <<game, founders>>
client == <<playing, map, local, shown>>
vars   == <<room, flying, client>>

TypeOK ==
    /\ GameTypeOK
    /\ founders \subseteq crew
    /\ flying \in [Slots -> SUBSET Things]
    /\ playing \in BOOLEAN
    /\ DOMAIN map \subseteq Ids /\ map \in [DOMAIN map -> Locals]
    /\ DOMAIN local \subseteq Locals /\ local \in [DOMAIN local -> Things]
    /\ shown \subseteq Things

Init ==
    /\ GameInit
    /\ founders = {}
    /\ flying = [k \in Slots |-> Empty]
    /\ playing = FALSE
    /\ map = <<>> /\ local = <<>> /\ shown = Empty

-----------------------------------------------------------------------------
(* The server *)

\* Whatever happens in the room; the client hears of it by snapshots only.
RoomStep ==
    /\ GameNext
    /\ founders' = {p \in crew' : p \in founders \/ (p \notin crew /\ Grounded)}
    /\ UNCHANGED <<flying, client>>

-----------------------------------------------------------------------------
(* The snapshots *)

\* Regression: the entities that were created last are kept.
CutLast(I) == {i \in I : Cardinality({j \in I : j > i}) < MaxEntities}

\* resize(40): the first in the order of the indices.
Cut(I) == {i \in I : Cardinality({j \in I : j < i}) < MaxEntities}

\* Every entity has a position and a network id.
Snapshot == {world[i] : i \in Cut(Alive)}

\* At the end of a tick, whose update has ended the game if no ship was left.
Due == stage = "playing" /\ Ships # {}

Broadcast(k) ==
    /\ Due
    /\ flying[k] = Empty
    /\ flying' = [flying EXCEPT ![k] = Snapshot]
    /\ UNCHANGED <<room, client>>

-----------------------------------------------------------------------------
(* The client *)

IdsOf(s) == {e.id : e \in s}
Entry(s, n) == CHOOSE e \in s : e.id = n

\* The entries that the snapshot does not have.
Gone(s) == DOMAIN map \ IdsOf(s)

\* A free local index for each of the ids.
Fresh(N) ==
    CHOOSE f \in [N -> Locals \ DOMAIN local] : \A m, n \in N : f[m] = f[n] => m = n

\* updateFromServer: a known id keeps its entity, and that its type; an unknown
\* one gets an entity; the others are killed and erased.
Apply(s) ==
    LET created == IdsOf(s) \ DOMAIN map
        new     == Fresh(created)
        kept    == DOMAIN map \ Gone(s)
        left    == DOMAIN local \ {map[n] : n \in Gone(s)}
    IN
    /\ map' = [n \in kept \cup created |-> IF n \in kept THEN map[n] ELSE new[n]]
    /\ local' = [l \in left \cup {new[n] : n \in created} |->
                    IF l \in left THEN local[l]
                    ELSE Entry(s, CHOOSE n \in created : new[n] = l)]
    /\ shown' = s

\* Regression: a snapshot with nothing to create is passed over.
HandlesIfNew(s) == playing /\ IdsOf(s) \ DOMAIN map # {}

\* The state is PLAYING or GAME_OVER.
Handles(s) == playing

\* A datagram arrives; a copy of it may follow.
Deliver(k) ==
    /\ flying[k] # Empty
    /\ flying' = [flying EXCEPT ![k] = Empty]
    /\ IF Handles(flying[k])
       THEN Apply(flying[k]) /\ UNCHANGED playing
       ELSE UNCHANGED client
    /\ UNCHANGED room

DeliverCopy(k) ==
    /\ flying[k] # Empty
    /\ Handles(flying[k])
    /\ Apply(flying[k])
    /\ UNCHANGED <<room, flying, playing>>

\* GAME_STARTING is handled.
Begin ==
    /\ ~playing /\ stage # "waiting"
    /\ playing' = TRUE
    /\ UNCHANGED <<room, flying, map, local, shown>>

\* Regression: the entities are cleaned up, the map is not.
CleanMapNot == map

CleanMap == <<>>

\* The way back to the lobby, by Q or by R: cleanupGameEntities.
Quit ==
    /\ playing
    /\ playing' = FALSE
    /\ map' = CleanMap
    /\ local' = <<>>
    /\ shown' = Empty
    /\ UNCHANGED <<room, flying>>

\* The client, back in the lobby, goes to another room.
ChangeRoom ==
    /\ ~playing
    /\ stage # "waiting"
    /\ world' = <<>> /\ next' = 0 /\ taken' = {}
    /\ crew' = {} /\ founders' = {}
    /\ stage' = "waiting"
    /\ flying' = [k \in Slots |-> Empty]
    /\ UNCHANGED client

-----------------------------------------------------------------------------

Next ==
    \/ RoomStep
    \/ \E k \in Slots : Broadcast(k) \/ Deliver(k) \/ DeliverCopy(k)
    \/ Begin
    \/ Quit
    \/ ChangeRoom

Spec == Init /\ [][Next]_vars

\* A lost game is ended by its next update.  Whatever is lost, a game that goes
\* on gets a snapshot through in the end; what is on its way arrives or is lost.
Fairness ==
    /\ WF_vars(Lose /\ UNCHANGED <<founders, flying, client>>)
    /\ SF_vars(\E k \in Slots : Broadcast(k))
    /\ \A k \in Slots : WF_vars(Deliver(k))

FairSpec == Spec /\ Fairness

-----------------------------------------------------------------------------
(* Properties *)

Screen == {local[l] : l \in DOMAIN local}

\* Through whatever losses, delays and copies: what the client shows is one of
\* the server's snapshots, whole, with nothing of other snapshots or other games
\* left in it and no entity twice, though it is put together from differences.
ScreenIsASnapshot ==
    /\ Screen = shown
    /\ \A l, m \in DOMAIN local : local[l].id = local[m].id => l = m

\* Whatever has been spawned and destroyed since, the ship of a player who was
\* there when the game began is never cut off.
FoundersAreSent ==
    \A p \in founders : \A i \in ShipOf(p) : world[i] \in Snapshot

\* The snapshots that get through are enough: an entity that remains is shown for
\* good, and one that is gone disappears for good.
ScreenFollows ==
    \A n \in Ids :
        /\ <>[](playing /\ Due /\ n \in IdsOf(Snapshot)) => <>[](n \in IdsOf(Screen))
        /\ <>[](playing /\ Due /\ n \notin IdsOf(Snapshot)) => <>[](n \notin IdsOf(Screen))

=============================================================================
