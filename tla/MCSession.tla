----------------------------- MODULE MCSession -----------------------------
(* Instances of Session for TLC.  The rooms are alike.                       *)
EXTENDS Session, TLC

RoomSymmetry == Permutations(Rooms)

=============================================================================
