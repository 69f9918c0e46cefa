---------------------------- MODULE RoomService ----------------------------
(***************************************************************************)
(* What the server promises the players of its rooms, whatever the order   *)
(* of packets, ticks and administrative requests: a room opens with its    *)
(* creator aboard, if it has a seat at all, goes live when a second player *)
(* boards, closes at the latest when the last one departs, and nobody      *)
(* boards it afterwards; a player is in one room at most.  Several rooms   *)
(* may move in one step: a player who joins a room leaves another one by   *)
(* the same request.                                                       *)
(***************************************************************************)
EXTENDS FiniteSets

CONSTANTS Rooms, Players

VARIABLES stage, aboard

Init ==
    /\ stage = [r \in Rooms |-> "none"]
    /\ aboard = [r \in Rooms |-> {}]

Open(r) ==
    /\ stage[r] = "none"
    /\ stage'[r] = "open"
    /\ aboard'[r] = {} \/ \E p \in Players : aboard'[r] = {p}

\* The second player aboard makes the room live; later ones find it so.
Board(r) ==
    /\ stage[r] \in {"open", "live"}
    /\ \E p \in Players \ aboard[r] : aboard'[r] = aboard[r] \cup {p}
    /\ stage'[r] = IF aboard[r] = {} THEN stage[r] ELSE "live"

\* An open room outlives its players, a live one does not.
Depart(r) ==
    /\ aboard'[r] \subseteq aboard[r]
    /\ stage'[r] = IF stage[r] = "live" /\ aboard'[r] = {} THEN "over" ELSE stage[r]

Close(r) ==
    /\ stage[r] \in {"open", "live"}
    /\ stage'[r] = "over"
    /\ aboard'[r] = aboard[r]

Stay(r) == stage'[r] = stage[r] /\ aboard'[r] = aboard[r]

RoomStep(r) == Open(r) \/ Board(r) \/ Depart(r) \/ Close(r) \/ Stay(r)

OnePlaceEach == \A r, s \in Rooms : r # s => aboard[r] \cap aboard[s] = {}

Next ==
    /\ stage' \in [Rooms -> {"none", "open", "live", "over"}]
    /\ aboard' \in [Rooms -> SUBSET Players]
    /\ \A r \in Rooms : RoomStep(r)
    /\ OnePlaceEach'

Spec == Init /\ [][Next]_<<stage, aboard>>

=============================================================================
