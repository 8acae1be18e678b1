--------------------------- MODULE MCHubSchema ---------------------------
(* An old client, a new one and one with a changed template; migrations    *)
(* like 002, 003 and 005 of the code, the last one optional.               *)
EXTENDS HubSchema, TLC

CONSTANTS old, new, odd

MCKnown == old :> 2 @@ new :> 4 @@ odd :> 4

MCScript == <<  <<"create", "create">>, <<"alter">>, <<"create">>, <<"create", "alter">> >>

MCSum == [c \in Clients |-> [v \in 1 .. 4 |-> IF c = odd /\ v = 3 THEN "x" ELSE "a"]]

MCOptional == {4}
==========================================================================
