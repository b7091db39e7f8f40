------------------------- MODULE MCSimulatorClient -------------------------
(***************************************************************************)
(* The simulator on its own map presets (MAP_PRESETS of world.py) and two  *)
(* claims of its README.  A map is given by the columns that are floor in  *)
(* each of its rows, counted from 1 as in the code (0 is the border wall). *)
(***************************************************************************)
EXTENDS SimulatorClient

Floor(rows) == UNION {rows[y] \X {y} : y \in DOMAIN rows}

basic ==
    [floor |-> ((1..10) \X (1..6)) \ {<<5, 3>>}, robot |-> <<3, 4>>,
     dust |-> {<<3, 2>>, <<7, 5>>}]

open_room ==
    [floor |-> (1..10) \X (1..5), robot |-> <<2, 2>>,
     dust |-> {<<6, 4>>, <<3, 5>>}]

front_obstacle ==
    [floor |-> ((1..6) \X (1..4)) \ {<<3, 1>>}, robot |-> <<3, 2>>,
     dust |-> {<<4, 3>>}]

three_side_back_clear ==
    [floor |-> Floor(<<{2}, 1..3, 1..3>>), robot |-> <<2, 1>>,
     dust |-> {<<2, 3>>}]

deep_dead_end ==
    [floor |-> Floor(<<(1..12) \ {6}, {1, 5, 7, 12}, (1..12) \ {4, 8}, {3, 9},
                       (1..12) \ {9}, {1, 8, 10, 12}, (1..12) \ {11}>>),
     robot |-> <<1, 1>>, dust |-> {<<9, 3>>, <<4, 5>>, <<9, 7>>}]

busy_room ==
    [floor |-> Floor(<<(1..12) \ {9}, {1, 6, 8, 10, 12}, (1..12) \ {7, 11},
                       {3, 10, 12}, (1..12) \ {11}, {1, 5, 10, 12},
                       (1..12) \ {6}>>),
     robot |-> <<1, 1>>, dust |-> {<<4, 1>>, <<12, 3>>, <<4, 5>>, <<9, 7>>}]

obstacle_dense ==
    [floor |-> Floor(<<(1..12) \ {9}, {1, 4, 8, 10, 12}, (1..12) \ {5, 11},
                       {4, 6, 12}, (1..12) \ {5}, {1, 9, 12}, 1..12>>),
     robot |-> <<1, 1>>, dust |-> {<<5, 1>>, <<12, 3>>, <<1, 5>>, <<8, 7>>}]

MCMaps ==
    {basic, open_room, front_obstacle, three_side_back_clear, deep_dead_end,
     busy_room, obstacle_dense}

(***************************************************************************)
(* The key that starts the run and, on the smallest map, two more: start,  *)
(* reset the world with the RESET lost, start again.                       *)
(***************************************************************************)
MCMaxKeys == [m \in MCMaps |-> IF m = three_side_back_clear THEN 3 ELSE 1]

(***************************************************************************)
(* One fault on every map and, on a small one, two: an exchange fails and  *)
(* its command, given up by the client, is executed later.                 *)
(***************************************************************************)
MCMaxFaults == [m \in MCMaps |-> IF m = front_obstacle THEN 2 ELSE 1]

-----------------------------------------------------------------------------
(***************************************************************************)
(* Two claims of simulator/README.md, on a small map.                      *)
(***************************************************************************)
ClaimMaps == {front_obstacle}
OneKey == [m \in ClaimMaps |-> 1]
TwoKeys == [m \in ClaimMaps |-> 2]
NoFault == [m \in ClaimMaps |-> 0]
OneFault == [m \in ClaimMaps |-> 1]

(***************************************************************************)
(* "When GET_STATE reports TIMER_ACTIVE=1, the simulator waits about five  *)
(* seconds and sends POWER_TIMEOUT automatically": a deadline the client   *)
(* has set is not dropped while the controller's timer runs.               *)
(***************************************************************************)
SeenTimerIsExpired == timer /\ deadline = "Ahead" ~> ~timer

(***************************************************************************)
(* "This mirrors the C++ controller's default dust-response timer event":  *)
(* when a step reads the state after a command that started the            *)
(* controller's timer, the client has no older deadline, so that the one   *)
(* it sets counts from the start of the timer.                             *)
(***************************************************************************)
DeadlineCountsFromTimerStart ==
    [][task = "Step" /\ task' = "Idle" /\ Issued("StartTimer")
         => deadline = "None"]_simVars

=============================================================================
