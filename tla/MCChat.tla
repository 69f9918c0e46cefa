------------------------------- MODULE MCChat -------------------------------
(* Instances of Chat for TLC.  The client of the player ana sends "ana       *)
(* joined", which is what the name alone does too: a username is compared    *)
(* with "" and with "System", and with nothing else.                         *)
EXTENDS Chat

MCLines == {"", "System", "ana joined"}

MCCut == [l \in Lines |-> IF l = "ana joined" THEN "ana" ELSE l]

=============================================================================
