--------------------------- MODULE PlayersOnline ---------------------------
(***************************************************************************)
(* What the chat can see of the players: who is connected, under which     *)
(* nickname, and in which room.  The game thread changes it; Lobby, with   *)
(* its endpoints, packets and rooms, implements it, and Chat reads it.     *)
(*                                                                         *)
(* A player who goes is taken out of PlayerManager, out of its room, or    *)
(* out of both at once: the cleanup forgets all silent players first and   *)
(* then empties their seats, one by one, while the chat looks on.          *)
(***************************************************************************)
EXTENDS Integers

CONSTANTS
    Nicks,    \* nicknames of players
    Unnamed,  \* the nickname of nobody
    Rooms,
    NoRoom,   \* the room of a player in none
    MaxId     \* bound: player ids given out

Ids == 1..MaxId

VARIABLES
    nick,    \* the nickname of each id in PlayerManager, Unnamed for the others
    nextId,  \* nextId_
    roomOf   \* m_playerToRoomMap

players == <<nick, nextId, roomOf>>

Online == {p \in Ids : nick[p] # Unnamed}

PlayersTypeOK ==
    /\ nick \in [Ids -> Nicks \cup {Unnamed}]
    /\ nextId \in 1..(MaxId + 1)
    /\ roomOf \in [Ids -> Rooms \cup {NoRoom}]

PlayersInit ==
    /\ nick = [p \in Ids |-> Unnamed]
    /\ nextId = 1
    /\ roomOf = [p \in Ids |-> NoRoom]

\* Nobody who is connected has the name; one who is gone may have had it.
Enrol(n) ==
    /\ nextId \in Ids
    /\ nextId' = nextId + 1
    /\ \A p \in Online : nick[p] # n
    /\ nick' = [nick EXCEPT ![nextId] = n]
    /\ UNCHANGED roomOf

Enter(p, r) ==
    /\ UNCHANGED nextId
    /\ roomOf' = [roomOf EXCEPT ![p] = r]
    /\ p \in Online
    /\ UNCHANGED nick

\* The players of P are forgotten, those of Q lose their rooms.
Go(P, Q) ==
    /\ UNCHANGED nextId
    /\ roomOf' = [p \in Ids |-> IF p \in Q THEN NoRoom ELSE roomOf[p]]
    /\ nick' = [p \in Ids |-> IF p \in P THEN Unnamed ELSE nick[p]]

PlayersNext ==
    \/ \E n \in Nicks : Enrol(n)
    \/ \E p \in Ids, r \in Rooms : Enter(p, r)
    \/ \E P \in SUBSET Online, Q \in SUBSET {p \in Ids : roomOf[p] # NoRoom} : Go(P, Q)

PlayersSpec == PlayersInit /\ [][PlayersNext]_players

=============================================================================
