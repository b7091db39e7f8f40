--------------------------- MODULE StateFormatter ---------------------------
(***************************************************************************)
(* The text of a GET_STATE response (StateFormatter): eight KEY=value      *)
(* words, here a record from keys to the texts of the values.  The client  *)
(* reads the same record back (parse_state_response).                      *)
(***************************************************************************)
EXTENDS Integers

MovementText ==
    [Cleaning |-> "CLEANING", AvoidingObstacle |-> "AVOIDING_OBSTACLE",
     Blocked |-> "BLOCKED", Stopped |-> "STOPPED"]

DriveText ==
    [None |-> "NONE", MoveForward |-> "MOVE_FORWARD",
     MoveBackward |-> "MOVE_BACKWARD", TurnLeft |-> "TURN_LEFT",
     TurnRight |-> "TURN_RIGHT", Stop |-> "STOP"]

PowerText ==
    [Off |-> "OFF", Normal |-> "NORMAL", Increased |-> "INCREASED"]

ToBit(value) == IF value THEN "1" ELSE "0"

\* An optional Boolean is the set of its at most one value.
ToBackText(value) == IF value = {} THEN "UNKNOWN" ELSE ToBit(TRUE \in value)

\* Mutant: TIMER_ACTIVE is taken from the dust flag.
FormatPowerByDust(snapshot) ==
    [MOVEMENT |-> MovementText[snapshot.movementStatus],
     FRONT |-> ToBit(snapshot.front),
     BACK |-> ToBackText(snapshot.back),
     LEFT |-> ToBit(snapshot.left),
     DUST |-> ToBit(snapshot.dust),
     DRIVE |-> DriveText[snapshot.driveCommand],
     CLEANING_POWER |-> PowerText[snapshot.cleaningPower],
     TIMER_ACTIVE |-> ToBit(snapshot.dust)]

Format(snapshot) ==
    [MOVEMENT |-> MovementText[snapshot.movementStatus],
     FRONT |-> ToBit(snapshot.front),
     BACK |-> ToBackText(snapshot.back),
     LEFT |-> ToBit(snapshot.left),
     DUST |-> ToBit(snapshot.dust),
     DRIVE |-> DriveText[snapshot.driveCommand],
     CLEANING_POWER |-> PowerText[snapshot.cleaningPower],
     TIMER_ACTIVE |-> ToBit(snapshot.timerActive)]

TextValues(f) == {f[x] : x \in DOMAIN f}

\* The responses docs/command-protocol.md lists under State Fields.
StateTexts ==
    [MOVEMENT : TextValues(MovementText),
     FRONT : {"0", "1"}, BACK : {"0", "1", "UNKNOWN"}, LEFT : {"0", "1"},
     DUST : {"0", "1"}, DRIVE : TextValues(DriveText),
     CLEANING_POWER : TextValues(PowerText), TIMER_ACTIVE : {"0", "1"}]

=============================================================================
