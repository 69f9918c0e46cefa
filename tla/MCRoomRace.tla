---------------------------- MODULE MCRoomRace ----------------------------
(* An instance of RoomRace for TLC. *)
EXTENDS RoomRace, TLC

PlayerSymmetry == Permutations(Players)

=============================================================================
