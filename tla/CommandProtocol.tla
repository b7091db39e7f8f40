-------------------------- MODULE CommandProtocol --------------------------
(***************************************************************************)
(* The command handler (CommandHandler): it parses a line, makes the one   *)
(* call of the application the command stands for and words the response.  *)
(* Composes CommandParser, RobotVacuumApplication and StateFormatter.      *)
(*                                                                         *)
(* Lines are handled one at a time: the server calls the handler under one *)
(* mutex (module TcpServer), so one line is one action.                    *)
(***************************************************************************)
EXTENDS RobotVacuumApplication, CommandParser, StateFormatter

CONSTANT Lines     \* the lines a client may send

\* A line is what splitWords makes of any text; PING is one of them.
ASSUME LinesAssumption ==
    /\ Lines \subseteq Seq([key : STRING, text : STRING])
    /\ <<Word("PING")>> \in Lines

VARIABLES
    line,    \* the line handled last
    reply    \* the response to it: its text, the state it shows and whether
             \* the session is closed (CommandResponse)

protocolVars == <<appVars, line, reply>>

AcknowledgedCommands ==
    {"OK PONG", "OK RESET", "OK STATE", "OK SET_FRONT", "OK SET_BACK",
     "OK SET_LEFT", "OK SET_OBSTACLES", "OK DUST_DETECTED",
     "OK POWER_TIMEOUT", "OK BYE"}
Errors == {"ERR UNKNOWN_COMMAND", "ERR INVALID_ARGUMENT", "ERR INVALID_STATE"}

\* The state of a response that shows one, or the empty set.
Responses ==
    [text : AcknowledgedCommands \cup Errors,
     state : {{}} \cup {{texts} : texts \in StateTexts}, close : BOOLEAN]

ProtocolTypeOK ==
    /\ AppTypeOK
    /\ line \in Lines
    /\ reply \in Responses

ProtocolInit ==
    /\ AppInit
    /\ line = <<Word("PING")>>
    /\ reply = [text |-> "OK PONG", state |-> {}, close |-> FALSE]

-----------------------------------------------------------------------------
Respond(text) == reply' = [text |-> text, state |-> {}, close |-> FALSE]

\* Mutant: an unknown back state is passed on as a clear one.
UnknownBackIsClear(value) == IF value = "Blocked" THEN "Blocked" ELSE "Clear"

\* toApplicationBackValue: from the parser's values to the application's.
ToApplicationBackValue(value) ==
    CASE value = "Clear" -> "Clear"
      [] value = "Blocked" -> "Blocked"
      [] value = "Unknown" -> "Unknown"

\* Mutant: the timer is looked at after it was stopped.
TimeoutLooksTooLate ==
    ExpirePowerTimer /\ Respond(IF timer' THEN "OK POWER_TIMEOUT"
                                ELSE "ERR INVALID_STATE")

HandlePowerTimeout ==
    ExpirePowerTimer /\ Respond(IF accepted' THEN "OK POWER_TIMEOUT"
                                ELSE "ERR INVALID_STATE")

HandleParsedCommand(command) ==
    \/ /\ command.type = "Ping"
       /\ UNCHANGED appVars
       /\ Respond("OK PONG")
    \/ /\ command.type = "Reset"
       /\ Reset
       /\ Respond("OK RESET")
    \/ /\ command.type = "GetState"
       /\ UNCHANGED appVars
       /\ reply' = [text |-> "OK STATE", state |-> {Format(Snapshot)},
                    close |-> FALSE]
    \/ /\ command.type = "SetFront"
       /\ SetFrontObstacle(command.front)
       /\ Respond("OK SET_FRONT")
    \/ /\ command.type = "SetBack"
       /\ SetBackObstacle(ToApplicationBackValue(command.back))
       /\ Respond("OK SET_BACK")
    \/ /\ command.type = "SetLeft"
       /\ SetLeftObstacle(command.left)
       /\ Respond("OK SET_LEFT")
    \/ /\ command.type = "SetObstacles"
       /\ SetObstacleState(command.front,
                           ToApplicationBackValue(command.back), command.left)
       /\ Respond("OK SET_OBSTACLES")
    \/ /\ command.type = "DustDetected"
       /\ AppReportDustDetected
       /\ Respond("OK DUST_DETECTED")
    \/ /\ command.type = "PowerTimeout"
       /\ HandlePowerTimeout
    \/ /\ command.type = "Quit"
       /\ UNCHANGED appVars
       /\ reply' = [text |-> "OK BYE", state |-> {}, close |-> TRUE]

HandleLine(words) ==
    /\ line' = words
    /\ LET result == Parse(words)
       IN  \/ /\ ~result.ok
              /\ UNCHANGED appVars
              /\ Respond(IF result.error = "UnknownCommand"
                         THEN "ERR UNKNOWN_COMMAND"
                         ELSE "ERR INVALID_ARGUMENT")
           \/ /\ result.ok
              /\ HandleParsedCommand(result.command)

ProtocolNext == \E words \in Lines : HandleLine(words)

ProtocolSpec == ProtocolInit /\ [][ProtocolNext]_protocolVars

-----------------------------------------------------------------------------
Shown == Format(Snapshot)
Refused == reply.text \in Errors

(***************************************************************************)
(* A line that is answered with an error has had no effect at all: no      *)
(* sensor value, decision, device or timer is touched, whichever of the    *)
(* parser, the handler and the application refused it.                     *)
(***************************************************************************)
ErrorChangesNothing ==
    [][Refused' => UNCHANGED <<ac, sensor, drive, power, timer, shadow>>
      ]_protocolVars

(***************************************************************************)
(* FR-015: what an accepted line says of a sensor is what GET_STATE shows  *)
(* from then on, word for word, through parsing, the application's copy    *)
(* and formatting; what it does not mention keeps its value, and RESET     *)
(* brings the values of the start back.                                    *)
(***************************************************************************)
Mentions(words, field) ==
    \/ words[1].text = "SET_OBSTACLES"
    \/ words[1].text = "SET_FRONT" /\ field = "FRONT"
    \/ words[1].text = "SET_BACK" /\ field = "BACK"
    \/ words[1].text = "SET_LEFT" /\ field = "LEFT"

Told(words, field) ==
    IF words[1].text = "SET_OBSTACLES" THEN ValueOf(Tail(words), field)
    ELSE words[2].text

AtStart == [FRONT |-> "0", BACK |-> "UNKNOWN", LEFT |-> "0"]

SensorsReadBack ==
    [][\A field \in {"FRONT", "BACK", "LEFT"} :
         Shown'[field] =
           IF Refused' THEN Shown[field]
           ELSE IF line'[1].text = "RESET" THEN AtStart[field]
           ELSE IF Mentions(line', field) THEN Told(line', field)
           ELSE Shown[field]]_protocolVars

(***************************************************************************)
(* The fields of one state response agree with each other for a client     *)
(* that sees nothing else: the robot moves forward exactly while cleaning  *)
(* and with a free front, the increased power shows exactly while the      *)
(* timer runs, and a running timer shows the dust it was started for.      *)
(***************************************************************************)
StateResponseCoherent ==
    \A texts \in reply.state :
        /\ texts.DRIVE = "MOVE_FORWARD" <=> texts.MOVEMENT = "CLEANING"
        /\ texts.DRIVE = "MOVE_FORWARD" => texts.FRONT = "0"
        /\ texts.CLEANING_POWER = "INCREASED" <=> texts.TIMER_ACTIVE = "1"
        /\ texts.TIMER_ACTIVE = "1" => texts.DUST = "1"
        /\ texts.MOVEMENT = "CLEANING" => texts.CLEANING_POWER # "OFF"

=============================================================================
