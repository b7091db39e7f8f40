-------------------------- MODULE GridWorld_proofs --------------------------
(***************************************************************************)
(* Proofs about the simulator's world, for every set of maps: what the     *)
(* flood fill of the floor computes, and that the robot keeps to it.       *)
(***************************************************************************)
EXTENDS GridWorld, FiniteSetTheorems, WellFoundedInduction, TLAPS

-----------------------------------------------------------------------------
(***************************************************************************)
(* The reference definition of the flood fill: a set of cells is closed    *)
(* when no step leads out of it, and the fill is the least closed set of   *)
(* floor around the cells it starts from.                                  *)
(***************************************************************************)
ClosedSets(m) == {R \in SUBSET m.floor : Spread(m, R) = R}

LeastClosed(m, cells) ==
    {c \in m.floor : \A R \in ClosedSets(m) : cells \subseteq R => c \in R}

\* Spreading grows a set of floor within the floor, and keeps inclusions.
LEMMA SpreadGrows ==
    ASSUME NEW m, NEW cells \in SUBSET m.floor
    PROVE  /\ cells \subseteq Spread(m, cells)
           /\ Spread(m, cells) \in SUBSET m.floor
           /\ \A R : cells \subseteq R => Spread(m, cells) \subseteq Spread(m, R)
  BY DEF Spread

\* The least closed set is closed, and is one of floor around its cells.
LEMMA LeastClosedIsClosed ==
    ASSUME NEW m, NEW cells \in SUBSET m.floor
    PROVE  /\ cells \subseteq LeastClosed(m, cells)
           /\ LeastClosed(m, cells) \in ClosedSets(m)
<1> DEFINE L == LeastClosed(m, cells)
<1>1. cells \subseteq L /\ L \in SUBSET m.floor
  BY DEF LeastClosed
<1>2. ASSUME NEW c \in Spread(m, L), NEW R \in ClosedSets(m),
             cells \subseteq R
      PROVE  c \in R
  <2>1. L \subseteq R
    BY <1>2 DEF LeastClosed
  <2>2. Spread(m, L) \subseteq Spread(m, R)
    BY <1>1, <2>1, SpreadGrows
  <2> QED BY <1>2, <2>2 DEF ClosedSets
<1>3. Spread(m, L) \in SUBSET m.floor /\ L \subseteq Spread(m, L)
  BY <1>1, SpreadGrows
<1>4. Spread(m, L) \subseteq L
  BY <1>2, <1>3 DEF LeastClosed
<1> QED BY <1>1, <1>3, <1>4 DEF ClosedSets

\* Spreading once more on the way to the least closed set changes nothing.
LEMMA LeastClosedSpreads ==
    ASSUME NEW m, NEW cells \in SUBSET m.floor
    PROVE  LeastClosed(m, cells) =
             IF Spread(m, cells) = cells THEN cells
             ELSE LeastClosed(m, Spread(m, cells))
<1>1. CASE Spread(m, cells) = cells
  <2>1. cells \in ClosedSets(m)
    BY <1>1 DEF ClosedSets
  <2>2. LeastClosed(m, cells) \subseteq cells
    BY <2>1 DEF LeastClosed
  <2> QED BY <1>1, <2>2, LeastClosedIsClosed
<1>2. CASE Spread(m, cells) # cells
  <2>1. ASSUME NEW R \in ClosedSets(m)
        PROVE  cells \subseteq R <=> Spread(m, cells) \subseteq R
    BY SpreadGrows DEF ClosedSets
  <2>2. LeastClosed(m, cells) = LeastClosed(m, Spread(m, cells))
    BY <2>1 DEF LeastClosed
  <2> QED BY <1>2, <2>2
<1> QED BY <1>1, <1>2

(***************************************************************************)
(* A function that satisfies the recursion of the fill is the least closed *)
(* set: on a finite floor the fill comes to an end.  A largest set of      *)
(* cells on which the two differ would not be closed, and on its spread,   *)
(* which is larger, they agree.                                            *)
(***************************************************************************)
LEMMA FillIsLeastClosed ==
    ASSUME NEW m, IsFiniteSet(m.floor), NEW f,
           f = [cells \in SUBSET m.floor |->
                  IF Spread(m, cells) = cells THEN cells
                  ELSE f[Spread(m, cells)]],
           NEW start \in SUBSET m.floor
    PROVE  f[start] = LeastClosed(m, start)
<1> DEFINE F == m.floor
           Differ == {cells \in SUBSET F : f[cells] # LeastClosed(m, cells)}
           Rest == {F \ cells : cells \in Differ}
<1> SUFFICES ASSUME Differ # {} PROVE FALSE
  OBVIOUS
<1>1. IsWellFoundedOn(StrictSubsetOrdering(F), SUBSET F)
  <2>1. FiniteSubsetsOf(F) = SUBSET F
    BY FS_FiniteSubsetsOfFinite
  <2>2. IsWellFoundedOn(StrictSubsetOrdering(F), FiniteSubsetsOf(F))
    BY FS_StrictSubsetOrderingWellFounded
  <2> QED BY <2>1, <2>2
<1>2. Rest \subseteq SUBSET F /\ Rest # {}
  <2>1. PICK cells : cells \in Differ
    OBVIOUS
  <2>2. F \ cells \in Rest
    BY <2>1
  <2>3. Rest \subseteq SUBSET F
    OBVIOUS
  <2> QED BY <2>2, <2>3
<1>3. PICK x \in Rest :
        \A y \in Rest : <<y, x>> \notin StrictSubsetOrdering(F)
  <2> HIDE DEF Rest, F
  <2> QED BY <1>1, <1>2, WFMin
<1>4. PICK cells \in Differ : x = F \ cells
  BY <1>3
<1> DEFINE more == Spread(m, cells)
<1>5. cells \subseteq more /\ more \in SUBSET F
  BY <1>4, SpreadGrows
<1>6. f[cells] = IF more = cells THEN cells ELSE f[more]
  BY <1>4
<1>7. LeastClosed(m, cells) =
        IF more = cells THEN cells ELSE LeastClosed(m, more)
  BY <1>4, LeastClosedSpreads
<1>8. more # cells /\ more \in Differ
  BY <1>4, <1>5, <1>6, <1>7
<1>9. F \ more \in Rest /\ <<F \ more, x>> \in StrictSubsetOrdering(F)
  <2>1. F \ more \in Rest
    BY <1>8
  <2>2. F \ more \subseteq x /\ F \ more # x
    <3> HIDE DEF more
    <3> QED BY <1>4, <1>5, <1>8
  <2>3. F \ more \in SUBSET F /\ x \in SUBSET F
    BY <1>4
  <2> QED BY <2>1, <2>2, <2>3 DEF StrictSubsetOrdering
<1> QED BY <1>3, <1>9

(***************************************************************************)
(* _compute_reachable_floor: what it returns is the least set of floor     *)
(* that holds the robot's first cell and that no step leads out of.        *)
(***************************************************************************)
THEOREM ReachableIsLeast ==
    ASSUME NEW m \in Maps
    PROVE  /\ Reachable[m] = LeastClosed(m, {m.robot})
           /\ m.robot \in Reachable[m]
           /\ Reachable[m] \in ClosedSets(m)
<1>1. IsFiniteSet(m.floor) /\ {m.robot} \in SUBSET m.floor
  BY MapsAssumption
<1> DEFINE body(f) == [cells \in SUBSET m.floor |->
                         IF Spread(m, cells) = cells THEN cells
                         ELSE f[Spread(m, cells)]]
           least == [cells \in SUBSET m.floor |-> LeastClosed(m, cells)]
           fill == CHOOSE f : f = body(f)
<1>2. least = body(least)
  BY LeastClosedSpreads, SpreadGrows
<1>3. fill = body(fill)
  <2> HIDE DEF least, body
  <2> QED BY <1>2
<1>4. Reachable[m] = fill[{m.robot}]
  BY DEF Reachable
<1> HIDE DEF fill
<1>5. fill[{m.robot}] = LeastClosed(m, {m.robot})
  BY <1>1, <1>3, FillIsLeastClosed
<1> QED BY <1>1, <1>4, <1>5, LeastClosedIsClosed
-----------------------------------------------------------------------------
(***************************************************************************)
(* Directions.                                                             *)
(***************************************************************************)

\* The names of the directions are told apart, so one index fits a heading.
LEMMA HeadingIndex ==
    ASSUME heading \in Headings
    PROVE  \E i \in 1..4 : Directions[i] = heading
  BY DEF Headings, Directions

\* A relative direction is one of the four; offset 0 is the heading itself.
LEMMA RelativeDirections ==
    ASSUME heading \in Headings
    PROVE  /\ \A offset \in Int : RelativeDirection(offset) \in Headings
           /\ RelativeDirection(0) = heading
<1> DEFINE index == CHOOSE i \in 1..4 : Directions[i] = heading
<1>1. index \in 1..4 /\ Directions[index] = heading
  BY HeadingIndex
<1>2. \A offset : RelativeDirection(offset) =
                    Directions[((index - 1 + offset) % 4) + 1]
  BY DEF RelativeDirection
<1> HIDE DEF index
<1>3. \A i \in 1..4 : Directions[i] \in Headings
  BY DEF Directions, Headings
<1>4. \A offset \in Int : ((index - 1 + offset) % 4) + 1 \in 1..4
  BY <1>1
<1>5. ((index - 1 + 0) % 4) + 1 = index
  BY <1>1
<1> QED BY <1>1, <1>2, <1>3, <1>4, <1>5

\* The cells beside one cell.
LEMMA AdjacentCells ==
    ASSUME NEW cell, NEW d \in Headings
    PROVE  Step(cell, d) \in Adjacent(cell)
  BY DEF Adjacent

-----------------------------------------------------------------------------
(***************************************************************************)
(* The invariant of the world.  That the robot keeps to what it can reach  *)
(* is inductive because no step leads out of the reachable floor.          *)
(***************************************************************************)
KeepsToReachable ==
    /\ reachable = Reachable[map]
    /\ cleaned \subseteq reachable
    /\ robot \in cleaned

WorldInv == WorldTypeOK /\ KeepsToReachable

\* Setting up a map, at the start or with ReplaceMap.
LEMMA FreshWorld ==
    ASSUME NEW m \in Maps
    PROVE  /\ Reachable[m] \subseteq m.floor /\ m.robot \in Reachable[m]
           /\ m.robot \in m.floor /\ m.dust \subseteq m.floor
<1>1. m.robot \in Reachable[m] /\ Reachable[m] \subseteq m.floor
  BY ReachableIsLeast DEF ClosedSets
<1> QED BY <1>1, MapsAssumption

\* At the start.
LEMMA WorldInitEstablishes == WorldInit => WorldInv
<1> SUFFICES ASSUME WorldInit PROVE WorldInv
  OBVIOUS
<1>1. /\ Reachable[map] \subseteq map.floor /\ map.robot \in Reachable[map]
      /\ map.robot \in map.floor /\ map.dust \subseteq map.floor
  BY FreshWorld DEF WorldInit
<1> QED
  BY <1>1 DEF WorldInit, WorldInv, WorldTypeOK, KeepsToReachable, Headings

\* A floor cell beside the robot is one it can reach.
LEMMA StepsAreReachable ==
    ASSUME WorldInv, NEW d \in Headings, Step(robot, d) \in map.floor
    PROVE  Step(robot, d) \in reachable
<1>1. robot \in reachable /\ Spread(map, reachable) = reachable
  BY ReachableIsLeast
  DEF WorldInv, WorldTypeOK, KeepsToReachable, ClosedSets
<1>2. Step(robot, d) \in UNION {Adjacent(c) : c \in reachable}
  BY <1>1, AdjacentCells
<1> QED BY <1>1, <1>2 DEF Spread

\* A move, into the cell or against the wall.
LEMMA MoveKeepsWorldInv ==
    ASSUME WorldInv, NEW d \in Headings, MoveByDirection(d)
    PROVE  WorldInv'
<1>1. UNCHANGED <<map, reachable, heading, dust>>
  BY DEF MoveByDirection
<1>2. CASE Step(robot, d) \in map.floor
  <2>1. robot' = Step(robot, d) /\ cleaned' = cleaned \cup {Step(robot, d)}
    BY <1>2 DEF MoveByDirection
  <2>2. Step(robot, d) \in reachable
    BY <1>2, StepsAreReachable
  <2> QED
    BY <1>1, <1>2, <2>1, <2>2 DEF WorldInv, WorldTypeOK, KeepsToReachable
<1>3. CASE Step(robot, d) \notin map.floor
  <2>1. UNCHANGED <<robot, cleaned>>
    BY <1>3 DEF MoveByDirection
  <2> QED BY <1>1, <2>1 DEF WorldInv, WorldTypeOK, KeepsToReachable
<1> QED BY <1>2, <1>3

\* A turn.
LEMMA TurnKeepsWorldInv ==
    ASSUME WorldInv, NEW offset \in Int, TurnBy(offset)
    PROVE  WorldInv'
<1>1. heading' \in Headings
  BY RelativeDirections DEF TurnBy, WorldInv, WorldTypeOK
<1> QED BY <1>1 DEF TurnBy, WorldInv, WorldTypeOK, KeepsToReachable

(***************************************************************************)
(* What the client does to its world.                                      *)
(***************************************************************************)
WorldStep ==
    \/ \E drv : ApplyDrive(drv)
    \/ ClearCurrentDust
    \/ ResetDust
    \/ \E m \in Maps : ReplaceMap(m)

\* The invariant is inductive.
LEMMA WorldStepKeepsWorldInv == WorldInv /\ [WorldStep]_worldVars => WorldInv'
<1> SUFFICES ASSUME WorldInv, [WorldStep]_worldVars PROVE WorldInv'
  OBVIOUS
<1>1. CASE UNCHANGED worldVars
  BY <1>1 DEF worldVars, WorldInv, WorldTypeOK, KeepsToReachable
<1>2. ASSUME NEW drv, ApplyDrive(drv)
      PROVE  WorldInv'
  <2>1. heading \in Headings /\ RelativeDirection(2) \in Headings
    BY RelativeDirections DEF WorldInv, WorldTypeOK
  <2>2. CASE MoveByDirection(heading) \/ MoveByDirection(RelativeDirection(2))
    BY <2>1, <2>2, MoveKeepsWorldInv
  <2>3. CASE TurnBy(-1) \/ TurnBy(1)
    BY <2>3, TurnKeepsWorldInv
  <2> QED BY <1>1, <1>2, <2>2, <2>3 DEF ApplyDrive
<1>3. CASE ClearCurrentDust
  BY <1>3
  DEF ClearCurrentDust, WorldInv, WorldTypeOK, KeepsToReachable
<1>4. CASE ResetDust
  <2>1. map.dust \subseteq map.floor
    BY FreshWorld DEF WorldInv, WorldTypeOK
  <2> QED
    BY <1>4, <2>1 DEF ResetDust, WorldInv, WorldTypeOK, KeepsToReachable
<1>5. ASSUME NEW m \in Maps, ReplaceMap(m)
      PROVE  WorldInv'
  <2>1. /\ Reachable[m] \subseteq m.floor /\ m.robot \in Reachable[m]
        /\ m.robot \in m.floor /\ m.dust \subseteq m.floor
    BY FreshWorld
  <2>2. /\ map' = m /\ reachable' = Reachable[m] /\ robot' = m.robot
        /\ heading' = "N" /\ dust' = m.dust /\ cleaned' = {m.robot}
    BY <1>5 DEF ReplaceMap
  <2> QED
    BY <2>1, <2>2 DEF WorldInv, WorldTypeOK, KeepsToReachable, Headings
<1> QED BY <1>1, <1>2, <1>3, <1>4, <1>5 DEF WorldStep

-----------------------------------------------------------------------------
(***************************************************************************)
(* The sensors.  Whatever the assist leaves out, what it calls open is a   *)
(* floor cell beside the robot: it hides ways, it never invents one.       *)
(***************************************************************************)
LEMMA OpenIsFloor ==
    ASSUME NEW assist
    PROVE  OpenNeighbours(assist) \subseteq Adjacent(robot) \cap map.floor
  BY DEF OpenNeighbours, CoverageOpenNeighbours, FreeNeighbours

\* A side that is not reported as an obstacle is floor.
LEMMA ClearIsFloor ==
    ASSUME heading \in Headings, NEW assist
    PROVE  LET sensed == SensorValues(assist)
           IN  /\ sensed.front \in BOOLEAN /\ sensed.left \in BOOLEAN
               /\ sensed.back \in {"Clear", "Blocked"}
               /\ ~sensed.front => Step(robot, heading) \in map.floor
               /\ sensed.back = "Clear" =>
                    Step(robot, RelativeDirection(2)) \in map.floor
<1>1. \A offset :
        ~ObstacleInRelativeDirection(offset, OpenNeighbours(assist)) =>
           Step(robot, RelativeDirection(offset)) \in map.floor
  BY OpenIsFloor DEF ObstacleInRelativeDirection
<1>2. RelativeDirection(0) = heading
  BY RelativeDirections
<1>3. \A offset : ObstacleInRelativeDirection(offset, OpenNeighbours(assist))
                    \in BOOLEAN
  BY DEF ObstacleInRelativeDirection
<1> QED BY <1>1, <1>2, <1>3 DEF SensorValues

-----------------------------------------------------------------------------
(***************************************************************************)
(* Turning round.                                                          *)
(***************************************************************************)

\* A direction has one index.
LEMMA DirectionIndex ==
    ASSUME NEW h \in Headings
    PROVE  /\ (CHOOSE i \in 1..4 : Directions[i] = h) \in 1..4
           /\ Directions[CHOOSE i \in 1..4 : Directions[i] = h] = h
           /\ \A i \in 1..4 : Directions[i] = h =>
                i = CHOOSE j \in 1..4 : Directions[j] = h
<1>1. \E i \in 1..4 : Directions[i] = h
  BY DEF Headings, Directions
<1>2. \A i, j \in 1..4 : Directions[i] = Directions[j] => i = j
  BY DEF Directions
<1> DEFINE c == CHOOSE i \in 1..4 : Directions[i] = h
<1>3. c \in 1..4 /\ Directions[c] = h
  BY <1>1
<1> HIDE DEF c
<1>4. \A i \in 1..4 : Directions[i] = h => i = c
  BY <1>2, <1>3
<1> QED BY <1>3, <1>4 DEF c

\* Two turns to the left end where two turns to the right do.
LEMMA HalfTurn ==
    ASSUME heading \in Headings
    PROVE  RelativeDirection(-2) = RelativeDirection(2)
<1> DEFINE index == CHOOSE i \in 1..4 : Directions[i] = heading
<1>1. index \in 1..4
  BY DirectionIndex
<1>2. \A offset : RelativeDirection(offset) =
                    Directions[((index - 1 + offset) % 4) + 1]
  BY DEF RelativeDirection
<1> HIDE DEF index
<1>3. (index - 1 + (-2)) % 4 = (index - 1 + 2) % 4
  BY <1>1
<1> QED BY <1>2, <1>3

\* After a quarter turn every side is the one it was before, once removed.
LEMMA QuarterTurn ==
    ASSUME heading \in Headings, NEW j \in {-1, 1}, NEW k \in -2..2,
           heading' = RelativeDirection(j)
    PROVE  RelativeDirection(k)' = RelativeDirection(j + k)
<1> DEFINE index == CHOOSE i \in 1..4 : Directions[i] = heading
           turned == CHOOSE i \in 1..4 : Directions[i] = heading'
           to == ((index - 1 + j) % 4) + 1
<1>1. index \in 1..4
  BY DirectionIndex
<1>2. \A offset : RelativeDirection(offset) =
                    Directions[((index - 1 + offset) % 4) + 1]
  BY DEF RelativeDirection
<1>3. RelativeDirection(k)' = Directions[((turned - 1 + k) % 4) + 1]
  BY DEF RelativeDirection
<1>4. heading' = Directions[to] /\ heading' \in Headings
  <2>1. heading' \in Headings
    BY RelativeDirections
  <2> HIDE DEF index
  <2> QED BY <1>2, <2>1
<1>5. to \in 1..4
  <2> HIDE DEF index
  <2> QED BY <1>1
<1>6. turned = to
  <2> HIDE DEF to
  <2> QED BY <1>4, <1>5, DirectionIndex
<1> HIDE DEF index, turned
<1>7. (turned - 1 + k) % 4 = (index - 1 + (j + k)) % 4
  <2>1. to = ((index - 1 + j) % 4) + 1
    OBVIOUS
  <2> HIDE DEF to
  <2> QED BY <1>1, <1>6, <2>1
<1> QED BY <1>2, <1>3, <1>7

\* The cell behind has the cell itself ahead.
LEMMA BehindAndAhead ==
    ASSUME heading \in Headings, NEW cell \in Int \X Int
    PROVE  Step(Step(cell, RelativeDirection(2)), heading) = cell
<1> DEFINE index == CHOOSE i \in 1..4 : Directions[i] = heading
           back == RelativeDirection(2)
<1>1. index \in 1..4 /\ Directions[index] = heading
  BY DirectionIndex
<1>2. back = Directions[((index - 1 + 2) % 4) + 1]
  BY DEF RelativeDirection
<1> HIDE DEF index
<1>3. <<heading, back>> \in {<<"N", "S">>, <<"S", "N">>,
                             <<"E", "W">>, <<"W", "E">>}
  <2>1. \/ index = 1 /\ ((index - 1 + 2) % 4) + 1 = 3
        \/ index = 2 /\ ((index - 1 + 2) % 4) + 1 = 4
        \/ index = 3 /\ ((index - 1 + 2) % 4) + 1 = 1
        \/ index = 4 /\ ((index - 1 + 2) % 4) + 1 = 2
    BY <1>1
  <2> HIDE DEF back
  <2>2. \/ heading = Directions[1] /\ back = Directions[3]
        \/ heading = Directions[2] /\ back = Directions[4]
        \/ heading = Directions[3] /\ back = Directions[1]
        \/ heading = Directions[4] /\ back = Directions[2]
    BY <1>1, <1>2, <2>1
  <2>3. /\ Directions[1] = "N" /\ Directions[2] = "E"
        /\ Directions[3] = "S" /\ Directions[4] = "W"
    BY DEF Directions
  <2> QED BY <2>2, <2>3
<1> HIDE DEF back
<1>4. /\ Deltas[back][1] \in Int /\ Deltas[back][2] \in Int
      /\ Deltas[heading][1] = -Deltas[back][1]
      /\ Deltas[heading][2] = -Deltas[back][2]
  BY <1>3 DEF Deltas
<1>5. /\ cell[1] \in Int /\ cell[2] \in Int
      /\ cell = <<cell[1], cell[2]>>
  OBVIOUS
<1>6. (cell[1] + Deltas[back][1]) + Deltas[heading][1] = cell[1]
  BY <1>4, <1>5
<1>7. (cell[2] + Deltas[back][2]) + Deltas[heading][2] = cell[2]
  BY <1>4, <1>5
<1> QED BY <1>5, <1>6, <1>7 DEF Step, back

=============================================================================
