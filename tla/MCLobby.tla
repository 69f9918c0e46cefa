------------------------------ MODULE MCLobby ------------------------------
(* Instances of Lobby for TLC.  In MCRawNames two nicknames are spellings of *)
(* one name once trimmed, and one is too short once trimmed.                 *)
EXTENDS Lobby, TLC

MCRawNames == {"Ana", "ana ", "Bob", "Cleo", "  o "}

MCSanitized == [n \in RawNames |->
    CASE n = "ana " -> "ana" [] n = "  o " -> "o" [] OTHER -> n]

MCTooShort == {"o"} \cap Names

Lower == ("Ana" :> "ana") @@ ("ana" :> "ana") @@ ("Bob" :> "bob")
         @@ ("Cleo" :> "cleo") @@ ("o" :> "o")

MCFolded == [n \in Names |-> Lower[n]]

EndpointSymmetry == Permutations(Endpoints)

=============================================================================
