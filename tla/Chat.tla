-------------------------------- MODULE Chat --------------------------------
(***************************************************************************)
(* The text chat: the thread runChatThread polls the TCP connections of    *)
(* ChatServer and hands what it reads to ChatManager, which maps the       *)
(* connections to players by the nickname each gives first.  The players   *)
(* and their rooms belong to the game thread and change meanwhile; the     *)
(* peers send and quit when they like.                                     *)
(*                                                                         *)
(* A connection is its file descriptor, a number the system gives out      *)
(* again once it is closed.  TCP keeps no message boundaries: one read     *)
(* takes any number of the messages pending and returns one line, of which *)
(* the loop needs to know which name it is, or begins with.  A connection  *)
(* that was reset (POLLHUP) and one that was closed (a read of 0 bytes)    *)
(* take different branches of the loop that do the same.                   *)
(*                                                                         *)
(* ChatServer reports that a client has given its name as a line "<name>   *)
(* joined the chat" by the user "System", and the loop takes the name out  *)
(* of it again: up to the first " joined", and from every line of a client *)
(* that has called itself "System".                                        *)
(*                                                                         *)
(* Left out: the lines ChatServer::removeUser writes to the others.        *)
(***************************************************************************)
EXTENDS PlayersOnline, Sequences, FiniteSets, FiniteSetsExt, SequencesExt

CONSTANTS
    Fds,          \* file descriptors
    Lines,        \* what a read returns: a name or another line, Unnamed if it is empty
    Cut,          \* what a line begins with: all of it that is before a first " joined"
    System,       \* the username "System"
    MaxPending    \* bound: messages waiting on a connection

ASSUME FdsAreFinite == IsFiniteSet(Fds)
ASSUME BoundsAreNat == MaxId \in Nat /\ MaxPending \in Nat

Nobody == 0    \* no player: getPlayerIdFromFd of an unmapped connection

NoFd == "no fd"
ASSUME NoneIsReal == NoRoom \notin Rooms /\ NoFd \notin Fds /\ Unnamed \notin Nicks

\* Players and clients may call themselves what they like, "ana joined" and "System"
\* included.
ASSUME SystemIsALine == {Unnamed, System} \subseteq Lines /\ System # Unnamed
ASSUME CutIsAPrefix ==
    /\ Cut \in [Lines -> Lines \cup Nicks]
    /\ Cut[Unnamed] = Unnamed /\ Cut[System] = System

VARIABLES
    inbox,       \* messages pending on each connection
    gone,        \* the connections whose client has quit
    table,       \* _id_tables, without the listening socket it begins with
    user,        \* _users: the username of each connection, Unnamed until it has one
    fdToPlayer,  \* m_fdToPlayerId
    playerToFd,  \* m_playerIdToFd
    pc,          \* where the chat thread is
    todo,        \* the positions of table the loop has yet to visit, 0 for the
                 \* listening socket: the entries poll found ready
    room         \* the room broadcastToRoom is called for

peers  == <<inbox, gone>>
maps   == <<fdToPlayer, playerToFd>>
vars   == <<players, peers, table, user, maps, pc, todo, room>>

TypeOK ==
    /\ PlayersTypeOK
    /\ inbox \in [Fds -> 0..MaxPending]
    /\ gone \subseteq Fds
    /\ table \in Seq(Fds)
    /\ user \in [Fds -> Lines]
    /\ fdToPlayer \in [Fds -> Ids \cup {Nobody}]
    /\ playerToFd \in [Ids -> Fds \cup {NoFd}]
    /\ pc \in {"poll", "round", "tell", "tellLeft", "getFd", "remove"}
    /\ todo \subseteq 0..Len(table)
    /\ room \in Rooms \cup {NoRoom}

Init ==
    /\ PlayersInit
    /\ inbox = [f \in Fds |-> 0]
    /\ gone = {}
    /\ table = <<>>
    /\ user = [f \in Fds |-> Unnamed]
    /\ fdToPlayer = [f \in Fds |-> Nobody]
    /\ playerToFd = [p \in Ids |-> NoFd]
    /\ pc = "poll"
    /\ todo = {}
    /\ room = NoRoom

Open == ToSet(table)

\* getIdByNickname
Player(n) ==
    IF \E p \in Online : nick[p] = n
    THEN CHOOSE p \in Online : nick[p] = n ELSE Nobody

-----------------------------------------------------------------------------
(* The game thread *)

GameThread ==
    /\ PlayersNext
    /\ UNCHANGED <<peers, table, user, maps, pc, todo, room>>

-----------------------------------------------------------------------------
(* The clients *)

Send(f) ==
    /\ f \in Open \ gone
    /\ inbox[f] < MaxPending
    /\ inbox' = [inbox EXCEPT ![f] = @ + 1]
    /\ UNCHANGED <<players, gone, table, user, maps, pc, todo, room>>

Quit(f) ==
    /\ f \in Open \ gone
    /\ gone' = gone \cup {f}
    /\ UNCHANGED <<players, inbox, table, user, maps, pc, todo, room>>

-----------------------------------------------------------------------------
(* runChatThread *)

\* Regression: only the connections with something to read are visited.
ReadableOnly == {i \in 1..Len(table) : inbox[table[i]] > 0}

Ready == {i \in 1..Len(table) : inbox[table[i]] > 0 \/ table[i] \in gone}

\* Whether a client waits at the listening socket is seen when the loop comes to it,
\* last of all: one that does may have come at any time, before poll was called or not.
\* So a round for nothing else is also what poll's end without an event does.
Poll ==
    /\ pc = "poll"
    /\ pc' = "round"
    /\ todo' = Ready \cup {0}
    /\ UNCHANGED <<peers, table, user, maps, room>>

\* The loop goes through the table from its end.
Visiting(i) == pc = "round" /\ todo # {} /\ i = Max(todo)

Visited(i) ==
    /\ todo' = todo \ {i}
    /\ pc' = IF todo' = {} THEN "poll" ELSE "round"

Accept ==
    /\ Visiting(0)
    /\ \E f \in Fds \ Open :
        /\ table' = Append(table, f)
        /\ user' = [user EXCEPT ![f] = Unnamed]
    /\ Visited(0)
    /\ UNCHANGED <<peers, maps, room>>

\* No client waits, or accept() finds no descriptor left: addUser throws and the loop
\* goes on.
NobodyAccepted ==
    /\ Visiting(0)
    /\ Visited(0)
    /\ UNCHANGED <<peers, table, user, maps, room>>

\* The end of a callback that concerns player p: it tells p's room, if any.
TellRoom(i, p) ==
    IF roomOf[p] = NoRoom
    THEN Visited(i) /\ UNCHANGED room
    ELSE pc' = "tell" /\ room' = roomOf[p] /\ UNCHANGED todo

\* readMessage returns "System" for the first line of a connection, its username, and
\* for all lines of one whose username that is.
ByTheSystem(f) == user[f] \in {Unnamed, System}

\* What runChatThread takes for the nickname in such a line.
NicknameIn(line) == Cut[line]

\* onUserConnected.  The player the connection was mapped to keeps its entry.
ReadName(i, k, line) ==
    LET f == table[i]
        p == Player(NicknameIn(line))
    IN
    /\ Visiting(i)
    /\ ByTheSystem(f)
    /\ inbox' = [inbox EXCEPT ![f] = @ - k]
    /\ user' = [user EXCEPT ![f] = IF @ = Unnamed THEN line ELSE @]
    /\ IF p = Nobody
       THEN Visited(i) /\ UNCHANGED <<maps, room>>
       ELSE /\ fdToPlayer' = [fdToPlayer EXCEPT ![f] = p]
            /\ playerToFd' = [playerToFd EXCEPT ![p] = f]
            /\ TellRoom(i, p)
    /\ UNCHANGED <<gone, table>>

\* All other lines are messages: handleMessage.  A player PlayerManager has forgotten
\* has a name there all the same, "Joueur" and its id.
ReadMessage(i, k) ==
    LET f == table[i]
        p == fdToPlayer[f]
    IN
    /\ Visiting(i)
    /\ ~ByTheSystem(f)
    /\ inbox' = [inbox EXCEPT ![f] = @ - k]
    /\ IF p # Nobody THEN TellRoom(i, p) ELSE Visited(i) /\ UNCHANGED room
    /\ UNCHANGED <<gone, table, user, maps>>

\* Regression: the connection of a player who has left the server is closed
\* without onUserDisconnected.
ForgottenIfOnline(f) == IF fdToPlayer[f] \in Online THEN {f} ELSE {}

ForgottenFds(f) == {f}

\* Regression: the inverse mapping stays.
ForgottenPlayersNone(f) == {}

ForgottenPlayers(f) == {fdToPlayer[f]}

\* onUserDisconnected: the player is told of to its room, out of the maps already.
Hangup(i) ==
    LET f == table[i]
        p == fdToPlayer[f]
    IN
    /\ Visiting(i)
    /\ f \in gone
    /\ fdToPlayer' = [g \in Fds |-> IF g \in ForgottenFds(f) THEN Nobody ELSE fdToPlayer[g]]
    /\ playerToFd' = [q \in Ids |-> IF q \in ForgottenPlayers(f) THEN NoFd ELSE playerToFd[q]]
    /\ IF p # Nobody /\ roomOf[p] # NoRoom
       THEN pc' = "tellLeft" /\ room' = roomOf[p]
       ELSE pc' = "remove" /\ UNCHANGED room
    /\ UNCHANGED <<peers, table, user, todo>>

\* broadcastToRoom, called with m_mutex locked.  A room the game thread has
\* emptied meanwhile is told nothing; otherwise sendToPlayer calls getFdForPlayer
\* for the first of its players, which locks m_mutex again.
Tell ==
    LET empty == \A p \in Ids : roomOf[p] # room IN
    /\ pc = "tell"
    /\ IF empty THEN Visited(Max(todo)) ELSE pc' = "getFd" /\ todo' = {}
    /\ room' = NoRoom
    /\ UNCHANGED <<peers, table, user, maps>>

TellLeft ==
    LET empty == \A p \in Ids : roomOf[p] # room IN
    /\ pc = "tellLeft"
    /\ IF empty THEN pc' = "remove" /\ UNCHANGED todo ELSE pc' = "getFd" /\ todo' = {}
    /\ room' = NoRoom
    /\ UNCHANGED <<peers, table, user, maps>>

\* removeUser: the loop's index becomes 0 and the round is over.
RemoveUser ==
    LET f == table[Max(todo)] IN
    /\ pc = "remove"
    /\ table' = RemoveAt(table, Max(todo))
    /\ user' = [user EXCEPT ![f] = Unnamed]
    /\ inbox' = [inbox EXCEPT ![f] = 0]
    /\ gone' = gone \ {f}
    /\ todo' = {}
    /\ pc' = "poll"
    /\ UNCHANGED <<maps, room>>

\* At pc = "getFd" the thread waits for a mutex it holds itself: it has no step.
ChatThread ==
    /\ UNCHANGED players
    /\ \/ Poll
       \/ Accept
       \/ NobodyAccepted
       \/ \E i \in 1..Len(table) :
           \/ \E k \in 1..inbox[table[i]] :
                (\E line \in Lines : ReadName(i, k, line)) \/ ReadMessage(i, k)
           \/ Hangup(i)
       \/ Tell
       \/ TellLeft
       \/ RemoveUser

Clients == \E f \in Fds : Send(f) \/ Quit(f)

Next == ChatThread \/ GameThread \/ Clients

Spec == Init /\ [][Next]_vars

\* The thread goes on; nobody has to connect.
FairSpec == Spec /\ WF_vars(ChatThread)

-----------------------------------------------------------------------------
(* Properties *)

\* A connection that is mapped is open, and speaks for a player of the name that its
\* username begins with, up to a " joined" ("ana joined" speaks as ana), or for one who
\* has left ("Joueur" and its id): never for that of an earlier connection with the same
\* descriptor, nor for one who has come since.  A client that calls itself "System"
\* is excepted: each of its lines may map it anew.
SpeaksInTheNameItGave ==
    \A f \in Fds : fdToPlayer[f] # Nobody =>
        /\ f \in Open
        /\ user[f] # System => nick[fdToPlayer[f]] \in {Cut[user[f]], Unnamed}

\* The messages for player p go to a descriptor that is closed, or that is another
\* player's connection.
Astray(p) == playerToFd[p] # NoFd /\ fdToPlayer[playerToFd[p]] # p

\* Whatever descriptors and names are used again, the messages for a player go to a
\* connection of that player, but for clients that call themselves "System": a line by
\* which one of these names another player, and no other step, leaves the messages of
\* the player it named before to a descriptor that is not that player's (and may be
\* given to anybody, once that client has quit).
OnlySystemLeadsAstray ==
    [][\A p \in Ids : Astray(p)' =>
         /\ UNCHANGED playerToFd[p]
         /\ \/ Astray(p)
            \/ user[playerToFd[p]] = System /\ fdToPlayer'[playerToFd[p]] # Nobody]_vars

\* A client that has quit is removed from the table, whatever the others do,
\* unless the thread has locked itself up.
QuittersAreRemoved ==
    \A f \in Fds : f \in Open \cap gone ~> f \notin Open \cap gone \/ pc = "getFd"

\* handleMessage's documented flow ends with "Broadcast aux joueurs de la room":
\* the broadcast is carried out, and the thread goes on.
BroadcastsReturn == pc = "tell" ~> pc = "poll"

=============================================================================
