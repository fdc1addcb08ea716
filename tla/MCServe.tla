------------------------------ MODULE MCServe ------------------------------
(* Constants for checking Serve: three addresses; two players of one       *)
(* household with two rooms and a player that is no room, or the second    *)
(* player in a household of its own; one Home Assistant player.            *)
EXTENDS Serve, TLC

MCPlayers == (1 :> [id |-> 11, room |-> "den"]) @@ (2 :> [id |-> 10, room |-> "attic"])
             @@ (3 :> Nothing)

MCMember(id, name, at, seen) == [id |-> id, room |-> name, at |-> at, visible |-> seen]

MCHome == <<MCMember(11, "den", 1, TRUE), MCMember(10, "attic", 2, TRUE),
            MCMember(12, "den", Nothing, FALSE)>>
MCOther == <<MCMember(10, "attic", 2, TRUE)>>

MCHouseholds ==
    {[a \in {1, 2} |-> MCHome],
     [a \in {1, 2} |-> IF a = 1 THEN <<MCMember(11, "den", 1, TRUE)>> ELSE MCOther]}

MCConfig ==
    [http |-> 7, diag |-> 8, base |-> 1, bind |-> "any4", advertise |-> "none",
     auto |-> TRUE, static |-> {}, include |-> {}, exclude |-> {},
     players |-> <<>>, haUrl |-> FALSE, codec |-> "wav", offsets |-> {0},
     window |-> 0, deadline |-> 1]

MCConfigs ==
    {[MCConfig EXCEPT !.static = {2, 3}],
     Rendered([MCConfig EXCEPT !.players = <<20>>, !.exclude = {"attic"}], Nothing),
     [MCConfig EXCEPT !.base = 9],
     [MCConfig EXCEPT !.base = 6, !.auto = FALSE, !.static = {1}, !.codec = "mp3"]}
=============================================================================
