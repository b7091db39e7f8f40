----------------------------- MODULE GridWorld -----------------------------
(***************************************************************************)
(* The simulator's world (class GridWorld): where the robot is, which      *)
(* cells are cleaned and where dust lies; what the sensors report; what a  *)
(* drive command does.                                                     *)
(*                                                                         *)
(* A map is its floor, the robot's first cell and the first dust.  All     *)
(* that is not floor is wall, the outside of the map included.             *)
(***************************************************************************)
EXTENDS Integers, FiniteSets

CONSTANT Maps      \* the map presets

ASSUME MapsAssumption ==
    \A m \in Maps :
        /\ m.floor \subseteq Nat \X Nat /\ IsFiniteSet(m.floor)
        /\ m.robot \in m.floor /\ m.dust \subseteq m.floor \ {m.robot}

VARIABLES
    map,       \* _initial_walls, _initial_robot and _initial_dust
    reachable, \* _reachable_floor: what the robot can get to
    robot,     \* the cell the robot is in
    heading,   \* _direction
    dust,      \* the cells with dust
    cleaned    \* the cells the robot has been in

worldVars == <<map, reachable, robot, heading, dust, cleaned>>

Directions == <<"N", "E", "S", "W">>
Headings == {"N", "E", "S", "W"}
Deltas == [N |-> <<0, -1>>, E |-> <<1, 0>>, S |-> <<0, 1>>, W |-> <<-1, 0>>]

WorldTypeOK ==
    /\ map \in Maps
    /\ reachable \subseteq map.floor
    /\ robot \in map.floor
    /\ heading \in Headings
    /\ dust \subseteq map.floor
    /\ cleaned \subseteq map.floor

-----------------------------------------------------------------------------
Step(cell, direction) ==
    <<cell[1] + Deltas[direction][1], cell[2] + Deltas[direction][2]>>

Adjacent(cell) == {Step(cell, d) : d \in Headings}

\* The floor of m no more than one step from a set of cells of it.
Spread(m, cells) ==
    cells \cup ((UNION {Adjacent(c) : c \in cells}) \cap m.floor)

\* _compute_reachable_floor
Reachable[m \in Maps] ==
    LET reached[cells \in SUBSET m.floor] ==
          LET more == Spread(m, cells)
          IN  IF more = cells THEN cells ELSE reached[more]
    IN  reached[{m.robot}]

WorldInit ==
    /\ map \in Maps
    /\ reachable = Reachable[map]
    /\ robot = map.robot
    /\ heading = "N"
    /\ dust = map.dust
    /\ cleaned = {map.robot}

\* Offsets count quarter turns to the right.
RelativeDirection(offset) ==
    LET index == CHOOSE i \in 1..4 : Directions[i] = heading
    IN  Directions[((index - 1 + offset) % 4) + 1]

CoverageComplete ==
    /\ reachable \subseteq cleaned
    /\ dust \cap reachable = {}

CoverageTargets ==
    (reachable \ cleaned) \cup (dust \cap reachable)

FreeNeighbours == Adjacent(robot) \cap map.floor

(***************************************************************************)
(* The neighbours nearest to a target, or all of them when there is no     *)
(* target or none that a neighbour leads to.  The code measures each       *)
(* neighbour's distance; the same neighbours are the first that a search   *)
(* starting from the targets comes to.                                     *)
(***************************************************************************)
CoverageOpenNeighbours ==
    LET first[cells \in SUBSET map.floor] ==
          LET more == Spread(map, cells)
          IN  IF cells \cap FreeNeighbours # {} \/ more = cells THEN cells
              ELSE first[more]
        nearest == first[CoverageTargets] \cap FreeNeighbours
    IN  IF nearest = {} THEN FreeNeighbours ELSE nearest

\* Mutant: the assist is passed on but not used.
OpenWithoutAssist(assist) == FreeNeighbours

\* With the coverage assist a free neighbour may be reported as an obstacle.
OpenNeighbours(assist) ==
    IF assist THEN CoverageOpenNeighbours ELSE FreeNeighbours

ObstacleInRelativeDirection(offset, open) ==
    Step(robot, RelativeDirection(offset)) \notin open

\* sensor_values: what SET_OBSTACLES reports (the right side is not sent).
SensorValues(assist) ==
    LET open == OpenNeighbours(assist)
    IN  [front |-> ObstacleInRelativeDirection(0, open),
         left |-> ObstacleInRelativeDirection(-1, open),
         back |-> IF ObstacleInRelativeDirection(2, open) THEN "Blocked"
                  ELSE "Clear"]

-----------------------------------------------------------------------------
\* Mutant: nothing keeps the robot out of a wall.
MoveThroughWalls(direction) ==
    /\ robot' = Step(robot, direction) /\ cleaned' = cleaned \cup {robot'}
    /\ UNCHANGED <<map, reachable, heading, dust>>

\* The robot does not move into a wall; the cell it is in then is cleaned.
MoveByDirection(direction) ==
    LET next == Step(robot, direction)
    IN  /\ IF next \in map.floor
           THEN robot' = next /\ cleaned' = cleaned \cup {next}
           ELSE UNCHANGED <<robot, cleaned>>
        /\ UNCHANGED <<map, reachable, heading, dust>>

TurnBy(offset) ==
    /\ heading' = RelativeDirection(offset)
    /\ UNCHANGED <<map, reachable, robot, dust, cleaned>>

\* Mutant: a turn to the right is taken for one to the left.
ApplyDriveTurningLeft(drv) ==
    \/ drv = "MOVE_FORWARD" /\ MoveByDirection(heading)
    \/ drv = "MOVE_BACKWARD" /\ MoveByDirection(RelativeDirection(2))
    \/ drv \in {"TURN_LEFT", "TURN_RIGHT"} /\ TurnBy(-1)
    \/ drv \in {"STOP", "NONE"} /\ UNCHANGED worldVars

ApplyDrive(drv) ==
    \/ drv = "MOVE_FORWARD" /\ MoveByDirection(heading)
    \/ drv = "MOVE_BACKWARD" /\ MoveByDirection(RelativeDirection(2))
    \/ drv = "TURN_LEFT" /\ TurnBy(-1)
    \/ drv = "TURN_RIGHT" /\ TurnBy(1)
    \/ drv \in {"STOP", "NONE"} /\ UNCHANGED worldVars

\* Would the drive command push the robot against a wall?
Bumps(drv) ==
    \/ drv = "MOVE_FORWARD" /\ Step(robot, heading) \notin map.floor
    \/ /\ drv = "MOVE_BACKWARD"
       /\ Step(robot, RelativeDirection(2)) \notin map.floor

ReplaceMap(m) ==
    /\ map' = m /\ reachable' = Reachable[m]
    /\ robot' = m.robot /\ heading' = "N"
    /\ dust' = m.dust /\ cleaned' = {m.robot}

ResetWorld == ReplaceMap(map)

ResetDust ==
    /\ dust' = map.dust
    /\ cleaned' = {robot}
    /\ UNCHANGED <<map, reachable, robot, heading>>

ClearCurrentDust ==
    /\ dust' = dust \ {robot}
    /\ cleaned' = cleaned \cup {robot}
    /\ UNCHANGED <<map, reachable, robot, heading>>

=============================================================================
