------------------------------- MODULE MCParts -------------------------------
(***************************************************************************)
(* The constants of Parts that a configuration cannot write down: the game *)
(* has the maps of the repository's assets, addresses are tuples.          *)
(***************************************************************************)
EXTENDS Parts

(* assets/Map.json. *)
Map1 == <<
    <<1,1,1,1,1,1,1,1,1,1,1,1,1,1,1,1>>,
    <<1,0,0,1,0,1,0,0,0,0,1,1,0,0,1,1>>,
    <<1,1,0,0,0,1,0,1,0,0,0,1,0,1,0,1>>,
    <<1,0,0,0,1,0,0,0,1,1,0,0,0,0,0,1>>,
    <<1,0,0,0,0,1,0,0,0,1,1,1,0,0,0,1>>,
    <<1,1,0,1,0,0,0,0,0,1,1,0,0,1,1,1>>,
    <<1,0,0,0,0,0,1,0,0,0,1,0,1,1,0,1>>,
    <<1,3,1,0,0,0,0,1,0,1,1,0,1,0,0,1>>,
    <<1,1,0,0,0,1,0,0,0,0,1,0,0,0,0,1>>,
    <<1,1,1,1,1,1,1,1,1,1,1,1,1,1,1,1>> >>

Map2 == <<
    <<1,1,1,1,1,1,1,1,1,1,1,1,1,1,1,1>>,
    <<1,0,0,1,0,0,0,1,0,0,0,1,0,0,1,1>>,
    <<1,0,0,0,1,1,0,1,0,1,0,0,0,0,0,1>>,
    <<1,0,1,0,1,0,0,0,1,0,0,0,0,0,0,1>>,
    <<1,0,1,0,0,1,0,0,0,0,1,1,0,1,0,1>>,
    <<1,1,1,0,0,0,0,0,0,1,0,0,0,1,0,1>>,
    <<1,0,1,0,1,0,0,1,1,1,0,0,1,1,0,1>>,
    <<1,0,0,0,1,0,0,1,0,0,0,1,1,3,0,1>>,
    <<1,1,0,0,0,0,0,0,1,0,0,0,0,0,1,1>>,
    <<1,1,1,1,1,1,1,1,1,1,1,1,1,1,1,1>> >>

GameMaps ==
    [Map1 |-> [tiles |-> Map1, newX |-> 5, newY |-> 7, nextMap |-> "Map2"],
     Map2 |-> [tiles |-> Map2, newX |-> 5, newY |-> 3, nextMap |-> "Map1"]]

(* -128 to 10, both signs and the ends of the digits.                       *)
SomeInts == {-128, -10, -9, 0, 7, 10}

Localhost == <<127, 0, 0, 1>>
SomeIps == {Localhost, <<10, 0, 0, 1>>, <<10, 0, 0, 2>>}
OwnIps == {Localhost, <<10, 0, 0, 1>>}
SomeIps6 == {<<65152, 0, 0, 0, 0, 0, 0, 1>>}
=============================================================================
