-------------------------------- MODULE Game --------------------------------
(***************************************************************************)
(* SDLRe: the main loop of Game.cpp, the player of Player.cpp and the maps *)
(* of MapManager.cpp and TileMap.cpp, without the drawing.  One Frame is   *)
(* one turn of the loop in main.cpp: an event is taken, the keys that are  *)
(* down move the player, and a portal takes it to the other map.           *)
(*                                                                         *)
(* Map is what TileMap reads from assets/Map.json: rows of tiles, 1 a wall *)
(* and 3 the portal, and where the portal leads.  Positions are in pixels  *)
(* (TileSize is Size * Scale of the code), rows and columns count from 0.  *)
(***************************************************************************)
EXTENDS Integers, Sequences

CONSTANTS Map,              \* by name: [tiles, newX, newY, nextMap]
          FirstMap,         \* "Map1"
          RoleX, RoleY,     \* "locate" of assets/Role.json, in tiles
          TileSize, speed,
          FramePeriod       \* frames per picture of a step

VARIABLES x_, y_, direction_, frame_, frameCounter_,
          trigerZone_,    \* the hitbox the player tests for the portal
          currentMap_,
          isRunning_, at

vars == <<x_, y_, direction_, frame_, frameCounter_, trigerZone_, currentMap_,
          isRunning_, at>>

Hitbox(x, y) == [x |-> x, y |-> y]
TileBox(col, row) == Hitbox(col * TileSize, row * TileSize)

(* Where the tiles of a kind are.                                           *)
Places(map) == (DOMAIN Map[map].tiles) \X (DOMAIN Map[map].tiles[1])
IsTile(map, p, kind) == Map[map].tiles[p[1]][p[2]] = kind
Box(p) == TileBox(p[2] - 1, p[1] - 1)

tpPoint(map) == Box(CHOOSE p \in Places(map) : IsTile(map, p, 3))

check_x(a, b) == a.x < b.x + TileSize /\ a.x + TileSize > b.x
check_y(a, b) == a.y < b.y + TileSize /\ a.y + TileSize > b.y
Touches(a, b) == check_x(a, b) /\ check_y(a, b)

is_blocked(map, player) ==
    \E p \in Places(map) : IsTile(map, p, 1) /\ Touches(player, Box(p))

(* The player starts and arrives on free tiles, and a map has one portal.   *)
ConstantsOK ==
    /\ TileSize \in Nat \ {0} /\ speed \in Nat /\ FramePeriod \in Nat \ {0}
    /\ FirstMap \in DOMAIN Map
    /\ ~is_blocked(FirstMap, TileBox(RoleX, RoleY))
    /\ \A map \in DOMAIN Map :
          /\ Map[map].nextMap \in DOMAIN Map
          /\ ~is_blocked(Map[map].nextMap, TileBox(Map[map].newX, Map[map].newY))
          /\ \E p \in Places(map) : \A q \in Places(map) : IsTile(map, q, 3) <=> q = p

Directions == {"down", "up", "right", "left"}

TypeOK ==
    /\ {x_, y_} \subseteq Int /\ direction_ \in Directions
    /\ frame_ \in 0 .. 2 /\ frameCounter_ \in 0 .. FramePeriod - 1
    /\ currentMap_ \in DOMAIN Map /\ isRunning_ \in BOOLEAN
    /\ at \in {"init", "loop", "over", "crashed"}

Init ==
    /\ x_ = RoleX * TileSize /\ y_ = RoleY * TileSize
    /\ direction_ = "down" /\ frame_ = 0 /\ frameCounter_ = 0
    /\ currentMap_ = FirstMap
    /\ trigerZone_ = tpPoint(FirstMap)
    /\ isRunning_ = FALSE
    /\ at = "init"

scene == <<x_, y_, direction_, frame_, frameCounter_, trigerZone_, currentMap_>>

(* When SDL fails, init returns with isRunning_, mapManager_ and            *)
(* textureManager_ as they were found in memory and player null: main may   *)
(* enter its loop and crash, or leave at once through clean.                *)
init ==
    /\ at = "init"
    /\ \/ at' = "loop" /\ isRunning_' = TRUE
       \/ at' \in {"over", "crashed"} /\ UNCHANGED isRunning_
    /\ UNCHANGED scene

(* The first key that is down, in the order of the tests.                   *)
Key(keystates) ==
    CASE "down" \in keystates -> "down"
      [] "down" \notin keystates /\ "up" \in keystates -> "up"
      [] keystates \cap {"down", "up"} = {} /\ "right" \in keystates -> "right"
      [] OTHER -> "left"

Ahead(key) ==
    CASE key = "down" -> Hitbox(x_, y_ + speed)
      [] key = "up" -> Hitbox(x_, y_ - speed)
      [] key = "right" -> Hitbox(x_ + speed, y_)
      [] key = "left" -> Hitbox(x_ - speed, y_)

(* Mutant: a wall gives back x_ only.                                       *)
StoppedInX(player) ==
    IF is_blocked(currentMap_, player) THEN Hitbox(x_, player.y) ELSE player

Stopped(player) ==
    IF is_blocked(currentMap_, player) THEN Hitbox(x_, y_) ELSE player

(* The portal is tested with the place the player wanted to be at, also     *)
(* when a wall kept it from there.                                          *)
Teleports(player) == Touches(player, trigerZone_)

Tp == currentMap_' = Map[currentMap_].nextMap

Walk(key) ==
    LET player == Ahead(key)
        here == Map[currentMap_]
        stand == IF Teleports(player) THEN TileBox(here.newX, here.newY)
                                      ELSE Stopped(player)
    IN  /\ direction_' = key
        /\ IF frameCounter_ + 1 >= FramePeriod
           THEN frame_' = (frame_ + 1) % 3 /\ frameCounter_' = 0
           ELSE frame_' = frame_ /\ frameCounter_' = frameCounter_ + 1
        /\ x_' = stand.x /\ y_' = stand.y
        /\ IF Teleports(player)
           THEN Tp /\ trigerZone_' = tpPoint(here.nextMap)
           ELSE UNCHANGED <<currentMap_, trigerZone_>>

Stand == frame_' = 1 /\ UNCHANGED <<x_, y_, direction_, frameCounter_, trigerZone_, currentMap_>>

(* SDL_PollEvent writes no event when there is none, and the type compared  *)
(* with SDL_QUIT is then whatever lay on the stack: any frame may be last.  *)
Frame(keystates) ==
    /\ at = "loop" /\ isRunning_
    /\ isRunning_' \in BOOLEAN
    /\ IF keystates = {} THEN Stand ELSE Walk(Key(keystates))
    /\ UNCHANGED at

clean ==
    /\ at = "loop" /\ ~isRunning_
    /\ at' = "over"
    /\ UNCHANGED <<scene, isRunning_>>

Next == init \/ clean \/ \E keystates \in SUBSET Directions : Frame(keystates)

Spec == Init /\ [][Next]_vars

-----------------------------------------------------------------------------
(* The player overlaps no wall of the map it is on, whatever keys are down, *)
(* also in the frame of a teleport, where handleEvent writes x_ and y_ twice*)
(* and changes the map between (Player.cpp:73-89); and the portal it tests  *)
(* for is the one of that map.                                              *)
NotInWall ==
    /\ ~is_blocked(currentMap_, Hitbox(x_, y_))
    /\ trigerZone_ = tpPoint(currentMap_)
=============================================================================
