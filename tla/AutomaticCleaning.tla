------------------------- MODULE AutomaticCleaning -------------------------
(***************************************************************************)
(* The decision logic of the robot (class AutomaticCleaning and the values *)
(* it is built from: RightDirectionProbe, DustResponse, CleaningPolicy,    *)
(* CommandResult, AvoidanceDecision, SensorState).                         *)
(*                                                                         *)
(* The class is plain sequential code: every method reads the sensors,     *)
(* changes the members of the object and returns the commands the caller   *)
(* has to carry out.  A method is therefore an operator from the object's  *)
(* state (a record, always called a) and the sensors (s) to a record       *)
(* [ac, result]: the state it leaves and the CommandResult it returns.     *)
(* The modules that own the state as variables turn these into actions.    *)
(***************************************************************************)
EXTENDS Integers, Sequences

CONSTANTS
    IncreasedPowerLevel,     \* CleaningPolicy: the power of a dust response
    IncreasedPowerDuration   \* CleaningPolicy: its length in milliseconds

PowerLevels == {"Normal", "Increased"}

(***************************************************************************)
(* CleaningPolicy takes any level and any int; its defaults are Increased  *)
(* and 5000 ms.  The normal level is not configurable.                     *)
(***************************************************************************)
ASSUME PolicyAssumption ==
    /\ IncreasedPowerLevel \in PowerLevels
    /\ IncreasedPowerDuration \in Int

MovementStatus == {"Cleaning", "AvoidingObstacle", "Blocked", "Stopped"}
MovementCommands ==
    {"MoveForward", "MoveBackward", "TurnLeft", "TurnRight", "Stop"}
RightProbeResults == {"Unknown", "Open", "Blocked"}
BackStates == {"Clear", "Blocked", "Unknown"}

\* What the sensors last reported; the back sensor may not have reported yet.
SensorStates ==
    [front : BOOLEAN, back : BackStates, left : BOOLEAN, dust : BOOLEAN]

InitSensorState ==
    [front |-> FALSE, back |-> "Unknown", left |-> FALSE, dust |-> FALSE]

CanMoveBackward(s) == s.back = "Clear"

(***************************************************************************)
(* The members of the object.  restoreOriginalHeadingRequired_ of the      *)
(* probe is probeResult = "Blocked" after every one of its methods and     *)
(* duration_ of the dust response is never read: neither is kept.          *)
(***************************************************************************)
AutomaticCleaningStates ==
    [status      : MovementStatus,
     probeActive : BOOLEAN,            \* turned right, front not yet re-read
     probeResult : RightProbeResults,
     confirmed   : BOOLEAN,            \* threeSideBlockedConfirmed_
     stopIssued  : BOOLEAN,            \* threeSideStopIssued_
     dustActive  : BOOLEAN,
     dustLevel   : PowerLevels,
     pending     : BOOLEAN]            \* dustResponsePending_

InitAutomaticCleaning ==
    [status |-> "Stopped", probeActive |-> FALSE, probeResult |-> "Unknown",
     confirmed |-> FALSE, stopIssued |-> FALSE, dustActive |-> FALSE,
     dustLevel |-> "Normal", pending |-> FALSE]

(***************************************************************************)
(* CommandResult: the movements in order, an optional cleaning level and   *)
(* whether the policy's duration is to be timed.                           *)
(***************************************************************************)
NoLevel == "NoLevel"

CommandResults ==
    [moves : Seq(MovementCommands), cleaning : PowerLevels \cup {NoLevel},
     timer : BOOLEAN]

NoCommands == [moves |-> <<>>, cleaning |-> NoLevel, timer |-> FALSE]
Moving(ms) == [NoCommands EXCEPT !.moves = ms]

\* Mutant: every result counts as an effect.
AlwaysEffect(r) == TRUE

HasEffect(r) == r.moves # <<>> \/ r.cleaning # NoLevel \/ r.timer

-----------------------------------------------------------------------------
(***************************************************************************)
(* Helpers.                                                                *)
(***************************************************************************)

\* Mutant: the probe's result outlives the block it belongs to.
ClearOnlyTheBlock(a) == [a EXCEPT !.confirmed = FALSE, !.stopIssued = FALSE]

\* The probe is forgotten too, unless it is still under way.
ClearThreeSideBlock(a) ==
    [a EXCEPT !.confirmed = FALSE, !.stopIssued = FALSE,
              !.probeResult = IF a.probeActive THEN @ ELSE "Unknown"]

\* Mutant: resuming always falls back to normal power.
MaintainNormalPower(a, r) == [r EXCEPT !.cleaning = "Normal"]

MaintainCurrentCleaningPower(a, r) ==
    [r EXCEPT !.cleaning = IF a.dustActive THEN a.dustLevel ELSE "Normal"]

NormalCleaningResult(a) ==
    LET b == ClearThreeSideBlock([a EXCEPT !.status = "Cleaning"])
    IN  [ac     |-> b,
         result |-> MaintainCurrentCleaningPower(b, Moving(<<"MoveForward">>))]

StopAndAvoid(a) ==
    [ac |-> [a EXCEPT !.status = "AvoidingObstacle"],
     result |-> Moving(<<"Stop">>)]

-----------------------------------------------------------------------------
(***************************************************************************)
(* The methods the controller calls.                                       *)
(***************************************************************************)

\* Mutant: an obstacle ahead is only noticed by a robot that does not clean.
OverlookWhileCleaning(a, s) ==
    IF s.front /\ a.status # "Cleaning" THEN StopAndAvoid(a)
    ELSE NormalCleaningResult(a)

HandleSensorState(a, s) ==
    IF s.front THEN StopAndAvoid(a) ELSE NormalCleaningResult(a)

\* Forward again; the three-side block, if one is confirmed, is not cleared.
DriveOn(a) ==
    LET b == [a EXCEPT !.status = "Cleaning"]
    IN  [ac     |-> b,
         result |-> MaintainCurrentCleaningPower(b, Moving(<<"MoveForward">>))]

ResumeAfterTurn(a, s) == IF s.front THEN StopAndAvoid(a) ELSE DriveOn(a)

(***************************************************************************)
(* The decision is one of "Left", "Right" (a selected direction),          *)
(* "RightProbe" and "Backward".  A probe under way is resolved by the      *)
(* front sensor, which after the turn looks to the former right.           *)
(***************************************************************************)
ProbeFoundOpen(a) ==
    [ac |-> ClearThreeSideBlock([a EXCEPT !.probeActive = FALSE,
                                          !.probeResult = "Open",
                                          !.status = "AvoidingObstacle"]),
     decision |-> "Right"]

ProbeFoundBlocked(a) ==
    [ac |-> [a EXCEPT !.probeActive = FALSE, !.probeResult = "Blocked",
                      !.confirmed = TRUE, !.stopIssued = FALSE,
                      !.status = "Blocked"],
     decision |-> "Backward"]

TakeLeft(a) ==
    [ac |-> [ClearThreeSideBlock(a) EXCEPT !.status = "AvoidingObstacle"],
     decision |-> "Left"]

StartRightProbe(a) ==
    [ac |-> [ClearThreeSideBlock(a) EXCEPT !.probeActive = TRUE,
                                           !.probeResult = "Unknown",
                                           !.status = "AvoidingObstacle"],
     decision |-> "RightProbe"]

\* Mutant: left and right are mixed up where the left sensor is read.
SelectByWrongSide(a, s) ==
    IF a.probeActive
    THEN IF s.front THEN ProbeFoundBlocked(a) ELSE ProbeFoundOpen(a)
    ELSE IF s.left THEN TakeLeft(a) ELSE StartRightProbe(a)

SelectAvoidanceDirection(a, s) ==
    IF a.probeActive
    THEN IF s.front THEN ProbeFoundBlocked(a) ELSE ProbeFoundOpen(a)
    ELSE IF s.left THEN StartRightProbe(a) ELSE TakeLeft(a)

\* Mutant: giving up in front of a blocked back leaves the robot driving.
GiveUpSilently(a, status) ==
    [ac |-> [a EXCEPT !.status = status, !.stopIssued = TRUE],
     result |-> NoCommands]

StopBlocked(a, status) ==
    [ac |-> [a EXCEPT !.status = status, !.stopIssued = TRUE],
     result |-> Moving(<<"Stop">>)]

BackOut(a) ==
    [ac |-> ClearThreeSideBlock([a EXCEPT !.status = "Blocked"]),
     result |-> Moving(IF a.stopIssued THEN <<"MoveBackward">>
                       ELSE <<"Stop", "MoveBackward">>)]

\* Mutant: an unknown back sensor counts as clear.
ReverseUnlessKnownBlocked(a, s) ==
    IF ~a.confirmed THEN [ac |-> a, result |-> NoCommands]
    ELSE IF s.back = "Blocked" THEN StopBlocked(a, "Stopped") ELSE BackOut(a)

\* Back out of a block on three sides, or wait or give up behind it.
HandleThreeSideObstacle(a, s) ==
    IF ~a.confirmed THEN [ac |-> a, result |-> NoCommands]
    ELSE IF s.back = "Unknown" THEN StopBlocked(a, "Blocked")
    ELSE IF ~CanMoveBackward(s) THEN StopBlocked(a, "Stopped")
    ELSE BackOut(a)

\* Mutant: the response is started without its timer.
DustWithoutTimer(a, s) ==
    IF ~s.dust THEN [ac |-> a, result |-> NoCommands]
    ELSE [ac |-> [a EXCEPT !.dustActive = TRUE, !.pending = FALSE,
                           !.dustLevel = IncreasedPowerLevel],
          result |-> [NoCommands EXCEPT !.cleaning = IncreasedPowerLevel]]

HandleDustDetected(a, s) ==
    IF ~s.dust THEN [ac |-> a, result |-> NoCommands]
    ELSE [ac |-> [a EXCEPT !.dustActive = TRUE, !.pending = FALSE,
                           !.dustLevel = IncreasedPowerLevel],
          result |-> [NoCommands EXCEPT !.cleaning = IncreasedPowerLevel,
                                        !.timer = TRUE]]

HandleObstacleWhileDustResponse(a, s) ==
    LET o == IF a.confirmed THEN HandleThreeSideObstacle(a, s)
             ELSE HandleSensorState(a, s)
    IN  [o EXCEPT !.result.cleaning = IF o.ac.dustActive THEN o.ac.dustLevel
                                      ELSE @]

\* Mutant: the timeout also calls off the avoidance under way.
TimeoutResumes(a) ==
    IF ~a.dustActive THEN [ac |-> a, result |-> NoCommands]
    ELSE NormalCleaningResult([a EXCEPT !.dustActive = FALSE,
                                        !.dustLevel = "Normal",
                                        !.pending = FALSE])

\* The end of a response also drops the one that is still pending.
HandleDustResponseTimeout(a) ==
    IF ~a.dustActive THEN [ac |-> a, result |-> NoCommands]
    ELSE [ac |-> [a EXCEPT !.dustActive = FALSE, !.dustLevel = "Normal",
                           !.pending = FALSE],
          result |-> [NoCommands EXCEPT !.cleaning = "Normal"]]

MarkDustResponsePending(a) == [a EXCEPT !.pending = TRUE]

=============================================================================
