----------------------- MODULE CommandProtocol_proofs -----------------------
(***************************************************************************)
(* Proofs about the command protocol, for every set of lines a client may  *)
(* send, malformed ones of any kind included.  First contracts of the      *)
(* parser, then that every line is a command of the application or no step *)
(* of it at all, so that what is proved of the application holds here, and *)
(* then what the responses say.                                            *)
(***************************************************************************)
EXTENDS MCCommandProtocol, RobotVacuumApplication_proofs

Words == [key : STRING, text : STRING]

ParseResults ==
    [ok : BOOLEAN, command : ParsedCommands, error : ParseErrors]

-----------------------------------------------------------------------------
(***************************************************************************)
(* Contracts of the parser (CommandParser.cpp).                            *)
(***************************************************************************)

\* A Boolean is read from the text GET_STATE shows it with, and only from it.
LEMMA ParseBoolContract ==
    ASSUME NEW text
    PROVE  /\ ParseBool(text) \subseteq BOOLEAN
           /\ \A b \in ParseBool(text) : ToBit(b) = text
           /\ ParseBool(text) # {} <=> text \in {"0", "1"}
  BY DEF ParseBool, ToBit

\* The same of the three values of the back sensor.
LEMMA ParseBackContract ==
    ASSUME NEW text
    PROVE  /\ ParseBackValue(text) \subseteq BackObstacleValues
           /\ \A b \in ParseBackValue(text) :
                ToBackText(ToOptionalBackState(b)) = text
           /\ ParseBackValue(text) # {} <=> text \in {"0", "1", "UNKNOWN"}
<1>1. /\ ToBackText(ToOptionalBackState("Clear")) = "0"
      /\ ToBackText(ToOptionalBackState("Blocked")) = "1"
      /\ ToBackText(ToOptionalBackState("Unknown")) = "UNKNOWN"
  BY DEF ToBackText, ToOptionalBackState, ToBit
<1> QED BY <1>1 DEF ParseBackValue, BackObstacleValues

CommandTypes ==
    {"Ping", "Reset", "GetState", "DustDetected", "PowerTimeout", "Quit",
     "SetFront", "SetBack", "SetLeft", "SetObstacles"}

SimpleNames ==
    {"PING", "RESET", "GET_STATE", "DUST_DETECTED", "POWER_TIMEOUT", "QUIT"}

\* The names and types of the commands, spelled out.
LEMMA CommandNameFacts ==
    /\ DOMAIN SimpleCommands = SimpleNames
    /\ ParsedCommands = [type : CommandTypes, front : BOOLEAN,
                         back : BackObstacleValues, left : BOOLEAN]
    /\ \A name \in SimpleNames :
         SimpleCommands[name] \in CommandTypes \
             {"SetFront", "SetBack", "SetLeft", "SetObstacles"}
<1>1. DOMAIN SimpleCommands = SimpleNames
  BY DEF SimpleCommands, SimpleNames
<1>2. DOMAIN SensorCommands =
        {"SET_FRONT", "SET_BACK", "SET_LEFT", "SET_OBSTACLES"}
  BY DEF SensorCommands
<1>3. {SimpleCommands[n] : n \in SimpleNames} =
        {"Ping", "Reset", "GetState", "DustDetected", "PowerTimeout", "Quit"}
  BY DEF SimpleCommands, SimpleNames
<1>4. {SensorCommands[n] : n \in DOMAIN SensorCommands} =
        {"SetFront", "SetBack", "SetLeft", "SetObstacles"}
  BY <1>2 DEF SensorCommands
<1>5. ParsedCommands = [type : CommandTypes, front : BOOLEAN,
                        back : BackObstacleValues, left : BOOLEAN]
  BY <1>1, <1>3, <1>4 DEF ParsedCommands, CommandTypes
<1>6. ASSUME NEW name \in SimpleNames
      PROVE  SimpleCommands[name] \in CommandTypes \
                 {"SetFront", "SetBack", "SetLeft", "SetObstacles"}
  BY DEF SimpleNames, SimpleCommands, CommandTypes
<1> QED BY <1>1, <1>5, <1>6

\* A command without arguments.
LEMMA SimpleContract ==
    ASSUME NEW type \in CommandTypes
    PROVE  Simple(type) \in ParsedCommands /\ Simple(type).type = type
  BY CommandNameFacts DEF Simple, BackObstacleValues

\* SET_OBSTACLES carries the values its three arguments say, in any order.
LEMMA ObstaclesContract ==
    ASSUME NEW args, NEW c \in ParseObstacles(args)
    PROVE  /\ c \in ParsedCommands /\ c.type = "SetObstacles"
           /\ ToBit(c.front) = ValueOf(args, "FRONT")
           /\ ToBackText(ToOptionalBackState(c.back)) = ValueOf(args, "BACK")
           /\ ToBit(c.left) = ValueOf(args, "LEFT")
<1>1. PICK f \in ParseBool(ValueOf(args, "FRONT")),
           b \in ParseBackValue(ValueOf(args, "BACK")),
           l \in ParseBool(ValueOf(args, "LEFT")) :
             c = Obstacles(f, b, l)
  BY DEF ParseObstacles
<1>2. f \in BOOLEAN /\ b \in BackObstacleValues /\ l \in BOOLEAN
  BY ParseBoolContract, ParseBackContract
<1>3. /\ c.type = "SetObstacles" /\ c.front = f /\ c.back = b /\ c.left = l
      /\ c \in ParsedCommands
  BY <1>1, <1>2, CommandNameFacts DEF Obstacles, CommandTypes
<1> QED BY <1>3, ParseBoolContract, ParseBackContract

\* Each of the three single commands carries the value of its one argument.
LEMMA SensorContract ==
    ASSUME NEW name \in {"SET_FRONT", "SET_BACK", "SET_LEFT"}, NEW args,
           NEW c \in ParseSensor(name, args)
    PROVE  /\ c \in ParsedCommands
           /\ Len(args) = 1 /\ args[1].key = NoKey
           /\ name = "SET_FRONT" =>
                c.type = "SetFront" /\ ToBit(c.front) = args[1].text
           /\ name = "SET_BACK" =>
                /\ c.type = "SetBack"
                /\ ToBackText(ToOptionalBackState(c.back)) = args[1].text
           /\ name = "SET_LEFT" =>
                c.type = "SetLeft" /\ ToBit(c.left) = args[1].text
<1> DEFINE text == Whole(args[1])
<1>1. Len(args) = 1
  BY DEF ParseSensor
<1>2. /\ \A d \in BOOLEAN : /\ Front(d) \in ParsedCommands
                            /\ Front(d).type = "SetFront" /\ Front(d).front = d
                            /\ Left(d) \in ParsedCommands
                            /\ Left(d).type = "SetLeft" /\ Left(d).left = d
      /\ \A d \in BackObstacleValues :
           /\ Back(d) \in ParsedCommands
           /\ Back(d).type = "SetBack" /\ Back(d).back = d
  BY CommandNameFacts
  DEF Front, Back, Left, Simple, CommandTypes, BackObstacleValues
<1>3. /\ name = "SET_FRONT" => \E d \in ParseBool(text) : c = Front(d)
      /\ name = "SET_BACK" => \E d \in ParseBackValue(text) : c = Back(d)
      /\ name = "SET_LEFT" => \E d \in ParseBool(text) : c = Left(d)
  BY <1>1 DEF ParseSensor
<1>4. text \in {"0", "1", "UNKNOWN"} => args[1].key = NoKey /\ text = args[1].text
  BY DEF Whole, NotAValue
<1> HIDE DEF text
<1>5. /\ c \in ParsedCommands
      /\ name = "SET_FRONT" => c.type = "SetFront" /\ ToBit(c.front) = text
      /\ name = "SET_BACK" =>
           /\ c.type = "SetBack"
           /\ ToBackText(ToOptionalBackState(c.back)) = text
      /\ name = "SET_LEFT" => c.type = "SetLeft" /\ ToBit(c.left) = text
  BY <1>2, <1>3, ParseBoolContract, ParseBackContract
<1>6. text \in {"0", "1", "UNKNOWN"}
  BY <1>3, ParseBoolContract, ParseBackContract
<1> QED BY <1>1, <1>4, <1>5, <1>6

\* An optional command: there is one, or the arguments are at fault.
LEMMA FromOptionalContract ==
    ASSUME NEW cs \in SUBSET ParsedCommands
    PROVE  /\ FromOptional(cs) \in ParseResults
           /\ FromOptional(cs).ok <=> cs # {}
           /\ FromOptional(cs).ok => FromOptional(cs).command \in cs
           /\ FromOptional(cs).error # "UnknownCommand"
<1>1. Simple("Ping") \in ParsedCommands
  BY SimpleContract DEF CommandTypes
<1>2. CASE cs = {}
  BY <1>1, <1>2 DEF FromOptional, Failure, ParseResults, ParseErrors
<1>3. CASE cs # {}
  <2> DEFINE c == CHOOSE c \in cs : TRUE
  <2>1. c \in cs /\ FromOptional(cs) = Success(c)
    BY <1>3 DEF FromOptional
  <2> HIDE DEF c
  <2> QED BY <1>3, <2>1 DEF Success, ParseResults, ParseErrors
<1> QED BY <1>2, <1>3

(***************************************************************************)
(* Parsing a line: which commands are taken, and what is told of the rest. *)
(***************************************************************************)
Known(words) ==
    /\ words # <<>> /\ words[1].key = NoKey
    /\ words[1].text \in SimpleNames \cup {"SET_OBSTACLES", "SET_FRONT",
                                          "SET_BACK", "SET_LEFT"}

(***************************************************************************)
(* What Parse does with a line of words, command by command: when it is    *)
(* taken, as which command, and which error it is refused with.            *)
(***************************************************************************)
LEMMA ParseContract ==
    ASSUME NEW words \in Seq(Words)
    PROVE  LET r == Parse(words)
               name == words[1].text
           IN  /\ r \in ParseResults
               /\ r.error = "UnknownCommand" <=> ~Known(words)
               /\ r.ok => Known(words)
               /\ Known(words) =>
                    /\ name \in SimpleNames => (r.ok <=> Len(words) = 1)
                    /\ name = "SET_OBSTACLES" =>
                         (r.ok <=> ParseObstacles(Tail(words)) # {})
                    /\ name \in {"SET_FRONT", "SET_BACK", "SET_LEFT"} =>
                         (r.ok <=> ParseSensor(name, Tail(words)) # {})
               /\ r.ok =>
                    \/ /\ name \in SimpleNames
                       /\ r.command = Simple(SimpleCommands[name])
                    \/ /\ name = "SET_OBSTACLES"
                       /\ r.command \in ParseObstacles(Tail(words))
                    \/ /\ name \in {"SET_FRONT", "SET_BACK", "SET_LEFT"}
                       /\ r.command \in ParseSensor(name, Tail(words))
<1> DEFINE r == Parse(words)
           args == Tail(words)
           name == Whole(Head(words))
<1>1. CASE words = <<>>
  <2>1. r = Failure("UnknownCommand")
    BY <1>1 DEF Parse
  <2>2. Simple("Ping") \in ParsedCommands
    BY SimpleContract DEF CommandTypes
  <2>3. ~Known(words)
    BY <1>1 DEF Known
  <2> QED BY <2>1, <2>2, <2>3 DEF Failure, ParseResults, ParseErrors
<1>2. CASE words # <<>>
  <2>1. Head(words) = words[1] /\ words[1] \in Words
    BY <1>2
  <2>2. name # NotAValue => words[1].key = NoKey /\ name = words[1].text
    BY <2>1 DEF Whole
  <2>3. NotAValue \notin SimpleNames \cup {"SET_OBSTACLES", "SET_FRONT",
                                           "SET_BACK", "SET_LEFT"}
    BY DEF NotAValue, SimpleNames
  <2>4. CASE name \in SimpleNames
    <3> DEFINE cs == IF args # <<>> THEN {} ELSE {Simple(SimpleCommands[name])}
    <3>1. r = FromOptional(cs)
      BY <1>2, <2>4, CommandNameFacts DEF Parse, SimpleNames
    <3>2. cs \in SUBSET ParsedCommands
      <4>1. SimpleCommands[name] \in CommandTypes
        BY <2>4, CommandNameFacts
      <4>2. Simple(SimpleCommands[name]) \in ParsedCommands
        BY <4>1, SimpleContract
      <4> QED BY <4>2
    <3>3. /\ r \in ParseResults /\ r.error # "UnknownCommand"
          /\ r.ok <=> args = <<>>
          /\ r.ok => r.command = Simple(SimpleCommands[name])
      <4> HIDE DEF cs, r
      <4>1. /\ r \in ParseResults /\ (r.ok => r.command \in cs)
            /\ r.ok <=> cs # {}
            /\ r.error # "UnknownCommand"
        BY <3>1, <3>2, FromOptionalContract
      <4> QED BY <4>1 DEF cs
    <3>4. args = <<>> <=> Len(words) = 1
      <4>1. args \in Seq(Words) /\ Len(args) = Len(words) - 1
        BY <1>2, HeadTailProperties
      <4>2. args = <<>> <=> Len(args) = 0
        BY <4>1, EmptySeq
      <4>3. Len(words) \in Nat
        OBVIOUS
      <4> QED BY <4>1, <4>2, <4>3
    <3> HIDE DEF r, args, name
    <3>5. words[1].key = NoKey /\ words[1].text = name
      BY <2>2, <2>3, <2>4
    <3>6. Known(words)
      BY <1>2, <2>4, <3>5 DEF Known
    <3>7. name \notin {"SET_OBSTACLES", "SET_FRONT", "SET_BACK", "SET_LEFT"}
      BY <2>4 DEF SimpleNames
    <3> QED BY <2>4, <3>3, <3>4, <3>5, <3>6, <3>7 DEF r
  <2>5. CASE name = "SET_OBSTACLES"
    <3>1. r = FromOptional(ParseObstacles(args))
      BY <1>2, <2>5, CommandNameFacts DEF Parse, SimpleNames
    <3>2. ParseObstacles(args) \in SUBSET ParsedCommands
      BY ObstaclesContract
    <3> HIDE DEF r, args, name
    <3>3. /\ r \in ParseResults /\ r.error # "UnknownCommand"
          /\ r.ok <=> ParseObstacles(args) # {}
          /\ r.ok => r.command \in ParseObstacles(args)
      BY <3>1, <3>2, FromOptionalContract
    <3>4. words[1].key = NoKey /\ words[1].text = "SET_OBSTACLES"
      BY <2>2, <2>3, <2>5
    <3>5. Known(words) /\ "SET_OBSTACLES" \notin SimpleNames
      BY <1>2, <3>4 DEF Known, SimpleNames
    <3> QED BY <3>3, <3>4, <3>5 DEF args, r
  <2>6. CASE name \in {"SET_FRONT", "SET_BACK", "SET_LEFT"}
    <3>1. r = FromOptional(ParseSensor(name, args))
      BY <1>2, <2>6, CommandNameFacts DEF Parse, SimpleNames
    <3> HIDE DEF r, args, name
    <3>2. ParseSensor(name, args) \in SUBSET ParsedCommands
      BY <2>6, SensorContract
    <3>3. /\ r \in ParseResults /\ r.error # "UnknownCommand"
          /\ r.ok <=> ParseSensor(name, args) # {}
          /\ r.ok => r.command \in ParseSensor(name, args)
      BY <3>1, <3>2, FromOptionalContract
    <3>4. words[1].key = NoKey /\ words[1].text = name
      BY <2>2, <2>3, <2>6
    <3>5. Known(words) /\ name \notin SimpleNames \cup {"SET_OBSTACLES"}
      BY <1>2, <2>6, <3>4 DEF Known, SimpleNames
    <3> QED BY <2>6, <3>3, <3>4, <3>5 DEF args, r
  <2>7. CASE name \notin SimpleNames \cup {"SET_OBSTACLES", "SET_FRONT",
                                           "SET_BACK", "SET_LEFT"}
    <3>1. r = Failure("UnknownCommand")
      BY <1>2, <2>7, CommandNameFacts DEF Parse
    <3>2. Simple("Ping") \in ParsedCommands
      BY SimpleContract DEF CommandTypes
    <3>3. ~Known(words)
      BY <2>1, <2>7 DEF Known, Whole
    <3> QED BY <3>1, <3>2, <3>3 DEF Failure, ParseResults, ParseErrors
  <2> QED BY <2>4, <2>5, <2>6, <2>7
<1> QED BY <1>1, <1>2

-----------------------------------------------------------------------------
(***************************************************************************)
(* The handler makes steps of the application and no others.               *)
(***************************************************************************)

\* The application's values of the back sensor are the parser's.
LEMMA BackValueContract ==
    ASSUME NEW value \in BackObstacleValues
    PROVE  /\ ToApplicationBackValue(value) = value
           /\ value \in BackStates
  BY DEF ToApplicationBackValue, BackObstacleValues, BackStates

\* Each parsed command is one command of the application, or reads it.
LEMMA CommandIsAppStep ==
    ASSUME NEW c \in ParsedCommands, HandleParsedCommand(c)
    PROVE  [AppNext]_appVars
<1>1. /\ c.front \in BOOLEAN /\ c.left \in BOOLEAN
      /\ ToApplicationBackValue(c.back) \in BackStates
  BY CommandNameFacts, BackValueContract
<1> QED BY <1>1 DEF HandleParsedCommand, HandlePowerTimeout, AppNext

\* A line is one command of the application or leaves it alone.
LEMMA LineIsAppStep ==
    ASSUME NEW words \in Lines, HandleLine(words)
    PROVE  [AppNext]_appVars
<1>1. Parse(words).command \in ParsedCommands
  BY LinesAssumption, ParseContract DEF Words, ParseResults
<1> QED BY <1>1, CommandIsAppStep DEF HandleLine

(***************************************************************************)
(* Whatever lines are sent, the application sees a sequence of its own     *)
(* commands: its specification is implemented, and its invariant holds     *)
(* after every line.                                                       *)
(***************************************************************************)
THEOREM ProtocolRunsApplication == ProtocolSpec => AppSpec
<1>1. ProtocolInit => AppInit
  BY DEF ProtocolInit
<1>2. [ProtocolNext]_protocolVars => [AppNext]_appVars
  BY LineIsAppStep DEF ProtocolNext, protocolVars
<1> QED BY <1>1, <1>2, PTL DEF ProtocolSpec, AppSpec

\* The application's invariant also holds behind the protocol.
THEOREM ProtocolKeepsAppInv == ProtocolSpec => []AppInv
  BY ProtocolRunsApplication, AppInvariance, PTL

-----------------------------------------------------------------------------
(***************************************************************************)
(* What the responses say.                                                 *)
(***************************************************************************)

\* The fields of a response, and that they are of the documented texts.
LEMMA ShownContract ==
    ASSUME AppTypeOK
    PROVE  /\ Format(Snapshot) \in StateTexts
           /\ Format(Snapshot).FRONT = ToBit(shadow.front)
           /\ Format(Snapshot).BACK =
                ToBackText(ToOptionalBackState(shadow.back))
           /\ Format(Snapshot).LEFT = ToBit(shadow.left)
<1>1. /\ ac.status \in DOMAIN MovementText
      /\ drive \in DOMAIN DriveText
      /\ power \in DOMAIN PowerText
  BY DEF AppTypeOK, TypeOK, AutomaticCleaningStates, MovementStatus,
         DriveStates, MovementCommands, PowerStates, PowerLevels, MovementText,
         DriveText, PowerText
<1>2. /\ MovementText[ac.status] \in TextValues(MovementText)
      /\ DriveText[drive] \in TextValues(DriveText)
      /\ PowerText[power] \in TextValues(PowerText)
  BY <1>1 DEF TextValues
<1>3. \A value : ToBit(value) \in {"0", "1"}
  BY DEF ToBit
<1>4. ToBackText(ToOptionalBackState(shadow.back)) \in {"0", "1", "UNKNOWN"}
  BY DEF ToBackText, ToOptionalBackState, ToBit
<1> QED BY <1>2, <1>3, <1>4 DEF Format, Snapshot, StateTexts

\* The response to a parsed command.
LEMMA ReplyContract ==
    ASSUME NEW c, HandleParsedCommand(c)
    PROVE  /\ \/ /\ reply'.text \in AcknowledgedCommands
                 /\ reply'.text \notin Errors
                 /\ accepted' = TRUE \/ UNCHANGED appVars
              \/ /\ c.type = "PowerTimeout"
                 /\ ExpirePowerTimer /\ ~accepted'
                 /\ reply'.text = "ERR INVALID_STATE"
           /\ \/ reply' = [text |-> reply'.text, state |-> {},
                           close |-> reply'.close]
              \/ /\ UNCHANGED appVars
                 /\ reply' = [text |-> "OK STATE", state |-> {Format(Snapshot)},
                              close |-> FALSE]
           /\ reply'.close \in BOOLEAN
<1>1. CASE c.type = "PowerTimeout" /\ HandlePowerTimeout
  BY <1>1
  DEF HandlePowerTimeout, Respond, AcknowledgedCommands, Errors,
      ExpirePowerTimer
<1>2. CASE c.type = "GetState" /\ UNCHANGED appVars
           /\ reply' = [text |-> "OK STATE", state |-> {Format(Snapshot)},
                        close |-> FALSE]
  <2>1. reply'.text = "OK STATE" /\ reply'.close = FALSE
    BY <1>2
  <2> QED BY <1>2, <2>1 DEF AcknowledgedCommands, Errors
<1>3. CASE ~(c.type = "PowerTimeout" /\ HandlePowerTimeout) /\
           ~(/\ c.type = "GetState" /\ UNCHANGED appVars
             /\ reply' = [text |-> "OK STATE", state |-> {Format(Snapshot)},
                          close |-> FALSE])
  <2>1. PICK text \in AcknowledgedCommands, close \in BOOLEAN :
               reply' = [text |-> text, state |-> {}, close |-> close]
    BY <1>3 DEF HandleParsedCommand, Respond, AcknowledgedCommands
  <2>2. accepted' = TRUE \/ UNCHANGED appVars
    BY <1>3 DEF HandleParsedCommand, Reset, SetFrontObstacle, SetBackObstacle,
           SetLeftObstacle, SetObstacleState, AppReportDustDetected
  <2>3. AcknowledgedCommands \cap Errors = {}
    BY DEF AcknowledgedCommands, Errors
  <2>4. reply'.text = text /\ reply'.close = close
    BY <2>1
  <2> QED BY <2>1, <2>2, <2>3, <2>4
<1> QED BY <1>1, <1>2, <1>3

(***************************************************************************)
(* The response to a line: an error has a reason and no effect, and a      *)
(* state that is shown is the one of this instant.                         *)
(***************************************************************************)
LEMMA LineContract ==
    ASSUME NEW words \in Lines, HandleLine(words)
    PROVE  /\ line' = words
           /\ reply'.text \in AcknowledgedCommands \cup Errors
           /\ reply'.close \in BOOLEAN
           /\ \/ /\ Refused' /\ ~Parse(words).ok /\ UNCHANGED appVars
              \/ /\ Refused' /\ Parse(words).ok
                 /\ Parse(words).command.type = "PowerTimeout"
                 /\ ExpirePowerTimer /\ ~accepted'
              \/ /\ ~Refused' /\ Parse(words).ok
                 /\ HandleParsedCommand(Parse(words).command)
           /\ \/ reply' = [text |-> reply'.text, state |-> {},
                           close |-> reply'.close]
              \/ /\ UNCHANGED appVars
                 /\ reply' = [text |-> "OK STATE", state |-> {Format(Snapshot)},
                              close |-> FALSE]
<1> DEFINE r == Parse(words)
<1>1. line' = words
  BY DEF HandleLine
<1>2. CASE ~r.ok
  <2>1. PICK text \in Errors :
               reply' = [text |-> text, state |-> {}, close |-> FALSE]
    BY <1>2 DEF HandleLine, Respond, Errors
  <2>2. reply'.text = text /\ reply'.close = FALSE
    BY <2>1
  <2>3. UNCHANGED appVars
    BY <1>2 DEF HandleLine
  <2> QED BY <1>1, <1>2, <2>1, <2>2, <2>3 DEF Refused
<1>3. CASE r.ok
  <2>1. HandleParsedCommand(r.command)
    BY <1>3 DEF HandleLine
  <2> HIDE DEF r
  <2>2. /\ \/ /\ reply'.text \in AcknowledgedCommands
              /\ reply'.text \notin Errors
           \/ /\ r.command.type = "PowerTimeout"
              /\ ExpirePowerTimer /\ ~accepted'
              /\ reply'.text = "ERR INVALID_STATE"
        /\ \/ reply' = [text |-> reply'.text, state |-> {},
                        close |-> reply'.close]
           \/ /\ UNCHANGED appVars
              /\ reply' = [text |-> "OK STATE", state |-> {Format(Snapshot)},
                           close |-> FALSE]
        /\ reply'.close \in BOOLEAN
    BY <2>1, ReplyContract
  <2>3. "ERR INVALID_STATE" \in Errors
    BY DEF Errors
  <2> QED BY <1>1, <1>3, <2>1, <2>2, <2>3 DEF Refused, r
<1> QED BY <1>2, <1>3

(***************************************************************************)
(* Every variable keeps its type: every response is one of those the       *)
(* document lists, and a state it shows has the documented texts.          *)
(***************************************************************************)
THEOREM ProtocolTypeCorrect == ProtocolSpec => []ProtocolTypeOK
<1> DEFINE ReplyOK == line \in Lines /\ reply \in Responses
<1>1. ProtocolInit => ReplyOK
  <2>1. "OK PONG" \in AcknowledgedCommands \cup Errors
    BY DEF AcknowledgedCommands
  <2>2. [text |-> "OK PONG", state |-> {}, close |-> FALSE] \in Responses
    BY <2>1 DEF Responses
  <2> QED BY <2>2, LinesAssumption DEF ProtocolInit
<1>2. AppInv /\ ReplyOK /\ [ProtocolNext]_protocolVars => ReplyOK'
  <2> SUFFICES ASSUME AppInv, ReplyOK, [ProtocolNext]_protocolVars
               PROVE  ReplyOK'
    OBVIOUS
  <2>1. CASE UNCHANGED protocolVars
    BY <2>1 DEF protocolVars
  <2>2. ASSUME NEW words \in Lines, HandleLine(words)
        PROVE  ReplyOK'
    <3>1. Format(Snapshot) \in StateTexts
      BY ShownContract DEF AppInv
    <3> HIDE DEF AppInv
    <3>2. /\ line' = words
          /\ reply'.text \in AcknowledgedCommands \cup Errors
          /\ reply'.close \in BOOLEAN
          /\ \/ reply' = [text |-> reply'.text, state |-> {},
                          close |-> reply'.close]
             \/ reply' = [text |-> "OK STATE", state |-> {Format(Snapshot)},
                          close |-> FALSE]
      BY <2>2, LineContract
    <3>3. "OK STATE" \in AcknowledgedCommands \cup Errors
      BY DEF AcknowledgedCommands
    <3>4. /\ [text |-> reply'.text, state |-> {}, close |-> reply'.close]
               \in Responses
          /\ [text |-> "OK STATE", state |-> {Format(Snapshot)},
              close |-> FALSE] \in Responses
      BY <3>1, <3>2, <3>3 DEF Responses
    <3>5. reply' \in Responses
      BY <3>2, <3>4
    <3> QED BY <2>2, <3>2, <3>5
  <2> QED BY <2>1, <2>2 DEF ProtocolNext
<1>3. AppInv /\ ReplyOK => ProtocolTypeOK
  BY DEF AppInv, ProtocolTypeOK
<1> QED BY <1>1, <1>2, <1>3, ProtocolKeepsAppInv, PTL DEF ProtocolSpec

(***************************************************************************)
(* An error changes nothing, wherever it was found.                        *)
(***************************************************************************)
THEOREM ErrorsAreHarmless == ProtocolSpec => ErrorChangesNothing
<1>1. AppInv /\ [ProtocolNext]_protocolVars =>
        [Refused' => UNCHANGED <<ac, sensor, drive, power, timer, shadow>>
        ]_protocolVars
  <2> SUFFICES ASSUME AppInv, NEW words \in Lines, HandleLine(words), Refused'
               PROVE  UNCHANGED <<ac, sensor, drive, power, timer, shadow>>
    BY DEF ProtocolNext
  <2>1. UNCHANGED appVars \/ (ExpirePowerTimer /\ ~accepted')
    BY LineContract
  <2>2. CASE UNCHANGED appVars
    BY <2>2 DEF appVars, vars
  <2>3. CASE ExpirePowerTimer /\ ~accepted'
    BY <2>3, RefusedTimeout DEF ExpirePowerTimer
  <2> QED BY <2>1, <2>2, <2>3
<1> QED BY <1>1, ProtocolKeepsAppInv, PTL DEF ProtocolSpec, ErrorChangesNothing

-----------------------------------------------------------------------------
(***************************************************************************)
(* The fields of a state response.                                         *)
(***************************************************************************)

\* Under the default policy the state of an application under its invariant.
LEMMA ShownIsCoherent ==
    ASSUME AppInv, DefaultPolicy, NEW texts, texts = Format(Snapshot)
    PROVE  /\ texts.DRIVE = "MOVE_FORWARD" <=> texts.MOVEMENT = "CLEANING"
           /\ texts.DRIVE = "MOVE_FORWARD" => texts.FRONT = "0"
           /\ texts.CLEANING_POWER = "INCREASED" <=> texts.TIMER_ACTIVE = "1"
           /\ texts.TIMER_ACTIVE = "1" => texts.DUST = "1"
           /\ texts.MOVEMENT = "CLEANING" => texts.CLEANING_POWER # "OFF"
<1>1. /\ texts.DRIVE = DriveText[drive]
      /\ texts.MOVEMENT = MovementText[ac.status]
      /\ texts.FRONT = ToBit(shadow.front)
      /\ texts.CLEANING_POWER = PowerText[power]
      /\ texts.TIMER_ACTIVE = ToBit(timer)
      /\ texts.DUST = ToBit(shadow.dust)
  BY DEF Format, Snapshot
<1>2. /\ ac.status \in MovementStatus /\ drive \in DriveStates
      /\ power \in PowerStates
  BY DEF AppInv, IInv, TypeOK, AutomaticCleaningStates
<1>3. /\ DriveText[drive] = "MOVE_FORWARD" <=> drive = "MoveForward"
      /\ MovementText[ac.status] = "CLEANING" <=> ac.status = "Cleaning"
      /\ PowerText[power] = "INCREASED" <=> power = "Increased"
      /\ PowerText[power] = "OFF" <=> power = "Off"
  BY <1>2 DEF DriveText, MovementText, PowerText, DriveStates, MovementStatus,
              MovementCommands, PowerStates, PowerLevels
<1>4. /\ ToBit(shadow.front) = "0" <=> ~shadow.front
      /\ ToBit(timer) = "1" <=> timer
      /\ ToBit(shadow.dust) = "1" <=> shadow.dust
  BY DEF ToBit
<1>5. /\ drive = "MoveForward" <=> ac.status = "Cleaning"
      /\ drive = "MoveForward" => ~shadow.front
      /\ timer => shadow.dust
      /\ ac.status = "Cleaning" => power # "Off"
  BY TimerMeansResponse
  DEF AppInv, IInv, ForwardOnlyIntoClearSpace, ShadowsMatchSensors,
      DustFlagShowsResponse, PowerFollowsResponse
<1>6. power = "Increased" <=> timer
  BY TimerMeansResponse
  DEF AppInv, IInv, DefaultPolicy, PowerFollowsResponse
<1> QED BY <1>1, <1>3, <1>4, <1>5, <1>6

\* The state a response is built with.
LEMMA ReplyState ==
    ASSUME NEW r, NEW text, NEW state, NEW close,
           r = [text |-> text, state |-> state, close |-> close]
    PROVE  r.state = state
  OBVIOUS

(***************************************************************************)
(* Under the default policy, the only one the program builds, the fields   *)
(* of every state response agree with each other.                          *)
(***************************************************************************)
THEOREM StatesAreCoherent ==
    DefaultPolicy => (ProtocolSpec => []StateResponseCoherent)
<1> SUFFICES ASSUME DefaultPolicy
             PROVE  ProtocolSpec => []StateResponseCoherent
  OBVIOUS
<1>1. ProtocolInit => StateResponseCoherent
  <2>1. ProtocolInit => reply.state = {}
    BY ReplyState DEF ProtocolInit
  <2> QED BY <2>1 DEF StateResponseCoherent
<1>2. AppInv /\ StateResponseCoherent /\ [ProtocolNext]_protocolVars =>
        StateResponseCoherent'
  <2> SUFFICES ASSUME AppInv, StateResponseCoherent,
                      [ProtocolNext]_protocolVars
               PROVE  StateResponseCoherent'
    OBVIOUS
  <2>1. CASE UNCHANGED protocolVars
    BY <2>1 DEF protocolVars, StateResponseCoherent
  <2>2. ASSUME NEW words \in Lines, HandleLine(words)
        PROVE  reply'.state \in {{}, {Format(Snapshot)}}
    <3>1. \/ reply' = [text |-> reply'.text, state |-> {},
                       close |-> reply'.close]
          \/ reply' = [text |-> "OK STATE", state |-> {Format(Snapshot)},
                       close |-> FALSE]
      BY <2>2, LineContract
    <3>2. CASE reply' = [text |-> reply'.text, state |-> {},
                         close |-> reply'.close]
      <4>1. reply'.state = {}
        BY <3>2, ReplyState
      <4> QED BY <4>1
    <3>3. CASE reply' = [text |-> "OK STATE", state |-> {Format(Snapshot)},
                         close |-> FALSE]
      <4>1. reply'.state = {Format(Snapshot)}
        BY <3>3, ReplyState
      <4> QED BY <4>1
    <3> QED BY <3>1, <3>2, <3>3
  <2>3. CASE reply'.state \in {{}, {Format(Snapshot)}}
    <3>1. \A texts \in reply'.state : texts = Format(Snapshot)
      BY <2>3
    <3> QED BY <3>1, ShownIsCoherent DEF StateResponseCoherent
  <2> QED BY <2>1, <2>2, <2>3 DEF ProtocolNext
<1> QED BY <1>1, <1>2, ProtocolKeepsAppInv, PTL DEF ProtocolSpec

-----------------------------------------------------------------------------
(***************************************************************************)
(* What is sent is what is read back.                                      *)
(***************************************************************************)

Fields == {"FRONT", "BACK", "LEFT"}

\* The three texts of the obstacle fields for the shadows s.
Texts(s) ==
    [FRONT |-> ToBit(s.front), BACK |-> ToBackText(ToOptionalBackState(s.back)),
     LEFT |-> ToBit(s.left)]

\* The obstacle fields of a response are the texts of the shadows.
LEMMA ShownTexts ==
    \A field \in Fields : /\ Shown[field] = Texts(shadow)[field]
                          /\ Shown'[field] = Texts(shadow')[field]
  BY DEF Fields, Shown, Texts, Format, Snapshot

\* What a parsed command writes to the shadows.
LEMMA ShadowContract ==
    ASSUME shadow \in SensorStates, NEW c \in ParsedCommands,
           HandleParsedCommand(c)
    PROVE  /\ c.type = "SetFront" =>
                Texts(shadow') = [Texts(shadow) EXCEPT !.FRONT = ToBit(c.front)]
           /\ c.type = "SetBack" =>
                Texts(shadow') =
                  [Texts(shadow) EXCEPT
                     !.BACK = ToBackText(ToOptionalBackState(c.back))]
           /\ c.type = "SetLeft" =>
                Texts(shadow') = [Texts(shadow) EXCEPT !.LEFT = ToBit(c.left)]
           /\ c.type = "SetObstacles" =>
                Texts(shadow') =
                  [FRONT |-> ToBit(c.front),
                   BACK |-> ToBackText(ToOptionalBackState(c.back)),
                   LEFT |-> ToBit(c.left)]
           /\ c.type = "Reset" => Texts(shadow') = AtStart
           /\ c.type \in {"Ping", "GetState", "DustDetected", "PowerTimeout",
                          "Quit"} =>
                Texts(shadow') = Texts(shadow)
<1>1. ToApplicationBackValue(c.back) = c.back
  BY CommandNameFacts, BackValueContract
<1>2. CASE c.type = "SetFront"
  <2>1. shadow' = [shadow EXCEPT !.front = c.front]
    BY <1>2 DEF HandleParsedCommand, SetFrontObstacle
  <2> QED BY <1>2, <2>1 DEF Texts, SensorStates
<1>3. CASE c.type = "SetBack"
  <2>1. shadow' = [shadow EXCEPT !.back = c.back]
    BY <1>1, <1>3 DEF HandleParsedCommand, SetBackObstacle
  <2> QED BY <1>3, <2>1 DEF Texts, SensorStates
<1>4. CASE c.type = "SetLeft"
  <2>1. shadow' = [shadow EXCEPT !.left = c.left]
    BY <1>4 DEF HandleParsedCommand, SetLeftObstacle
  <2> QED BY <1>4, <2>1 DEF Texts, SensorStates
<1>5. CASE c.type = "SetObstacles"
  <2>1. shadow' = [shadow EXCEPT !.front = c.front, !.back = c.back,
                                 !.left = c.left]
    BY <1>1, <1>5 DEF HandleParsedCommand, SetObstacleState
  <2> QED BY <1>5, <2>1 DEF Texts, SensorStates
<1>6. CASE c.type = "Reset"
  <2>1. shadow' = InitSensorState
    BY <1>6 DEF HandleParsedCommand, Reset
  <2> QED
    BY <1>6, <2>1
    DEF Texts, InitSensorState, AtStart, ToBit, ToBackText, ToOptionalBackState
<1>7. CASE c.type = "DustDetected"
  <2>1. shadow' = [shadow EXCEPT !.dust = TRUE]
    BY <1>7 DEF HandleParsedCommand, AppReportDustDetected
  <2> QED BY <1>7, <2>1 DEF Texts, SensorStates
<1>8. CASE c.type = "PowerTimeout"
  <2>1. \/ shadow' = shadow
        \/ shadow' = [shadow EXCEPT !.dust = FALSE]
    BY <1>8 DEF HandleParsedCommand, HandlePowerTimeout, ExpirePowerTimer
  <2> QED BY <1>8, <2>1 DEF Texts, SensorStates
<1>9. CASE c.type \in {"Ping", "GetState", "Quit"}
  <2>1. shadow' = shadow
    BY <1>9 DEF HandleParsedCommand, appVars
  <2> QED BY <1>9, <2>1
<1>10. c.type \in CommandTypes
  BY CommandNameFacts
<1> QED BY <1>2, <1>3, <1>4, <1>5, <1>6, <1>7, <1>8, <1>9, <1>10 DEF CommandTypes

\* A line that is taken: what the fields are told.
LEMMA TakenLine ==
    ASSUME shadow \in SensorStates, NEW words \in Seq(Words),
           Parse(words).ok, HandleParsedCommand(Parse(words).command),
           NEW field \in Fields
    PROVE  Texts(shadow')[field] =
             IF words[1].text = "RESET" THEN AtStart[field]
             ELSE IF Mentions(words, field) THEN Told(words, field)
             ELSE Texts(shadow)[field]
<1> DEFINE c == Parse(words).command
           name == words[1].text
           args == Tail(words)
           old == Texts(shadow)
           new == Texts(shadow')
<1>1. /\ c \in ParsedCommands /\ words # <<>>
      /\ \/ /\ name \in SimpleNames
            /\ c = Simple(SimpleCommands[name])
         \/ name = "SET_OBSTACLES" /\ c \in ParseObstacles(args)
         \/ /\ name \in {"SET_FRONT", "SET_BACK", "SET_LEFT"}
            /\ c \in ParseSensor(name, args)
  BY ParseContract DEF ParseResults, Known
<1>2. HandleParsedCommand(c)
  OBVIOUS
<1> HIDE DEF c
<1>3. CASE name \in SimpleNames /\ c = Simple(SimpleCommands[name])
  <2>1. c.type = SimpleCommands[name]
    BY <1>3, CommandNameFacts, SimpleContract
  <2>2. /\ name = "RESET" => c.type = "Reset"
        /\ name # "RESET" => c.type \in {"Ping", "GetState", "DustDetected",
                                         "PowerTimeout", "Quit"}
    BY <1>3, <2>1 DEF SimpleNames, SimpleCommands
  <2>3. ~Mentions(words, field)
    BY <1>3 DEF SimpleNames, Mentions
  <2>4. new = IF name = "RESET" THEN AtStart ELSE old
    BY <1>1, <1>2, <2>2, ShadowContract
  <2> QED BY <2>3, <2>4
<1>4. CASE name = "SET_OBSTACLES" /\ c \in ParseObstacles(args)
  <2> HIDE DEF args
  <2>1. /\ c.type = "SetObstacles"
        /\ ToBit(c.front) = ValueOf(args, "FRONT")
        /\ ToBackText(ToOptionalBackState(c.back)) = ValueOf(args, "BACK")
        /\ ToBit(c.left) = ValueOf(args, "LEFT")
    BY <1>4, ObstaclesContract
  <2>2. new = [FRONT |-> ValueOf(args, "FRONT"),
               BACK |-> ValueOf(args, "BACK"),
               LEFT |-> ValueOf(args, "LEFT")]
    BY <1>1, <1>2, <2>1, ShadowContract
  <2>3. new[field] = ValueOf(args, field)
    BY <2>2 DEF Fields
  <2>4. Mentions(words, field) /\ Told(words, field) = ValueOf(args, field)
    BY <1>4 DEF Mentions, Told, args
  <2> QED BY <1>4, <2>3, <2>4
<1>5. CASE /\ name \in {"SET_FRONT", "SET_BACK", "SET_LEFT"}
           /\ c \in ParseSensor(name, args)
  <2>1. Len(args) = 1 /\ args[1] = words[2]
    <3>1. Len(args) = 1
      <4> HIDE DEF args
      <4> QED BY <1>5, SensorContract
    <3>2. \A i \in 1..Len(args) : args[i] = words[i + 1]
      BY <1>1, HeadTailProperties
    <3>3. args[1] = words[1 + 1]
      BY <3>1, <3>2
    <3> QED BY <3>1, <3>3
  <2> DEFINE text == words[2].text
  <2>2. /\ name = "SET_FRONT" => c.type = "SetFront" /\ ToBit(c.front) = text
        /\ name = "SET_BACK" =>
             /\ c.type = "SetBack"
             /\ ToBackText(ToOptionalBackState(c.back)) = text
        /\ name = "SET_LEFT" => c.type = "SetLeft" /\ ToBit(c.left) = text
    <3> HIDE DEF args, name
    <3> QED BY <1>5, <2>1, SensorContract
  <2>3. Told(words, field) = text
    BY <1>5 DEF Told
  <2> HIDE DEF text
  <2>4. CASE name = "SET_FRONT"
    <3>1. new = [old EXCEPT !.FRONT = text]
      BY <1>1, <1>2, <2>2, <2>4, ShadowContract
    <3>2. Mentions(words, field) <=> field = "FRONT"
      BY <2>4 DEF Mentions, Fields
    <3> QED BY <2>3, <2>4, <3>1, <3>2 DEF Fields, Texts
  <2>5. CASE name = "SET_BACK"
    <3>1. new = [old EXCEPT !.BACK = text]
      BY <1>1, <1>2, <2>2, <2>5, ShadowContract
    <3>2. Mentions(words, field) <=> field = "BACK"
      BY <2>5 DEF Mentions, Fields
    <3> QED BY <2>3, <2>5, <3>1, <3>2 DEF Fields, Texts
  <2>6. CASE name = "SET_LEFT"
    <3>1. new = [old EXCEPT !.LEFT = text]
      BY <1>1, <1>2, <2>2, <2>6, ShadowContract
    <3>2. Mentions(words, field) <=> field = "LEFT"
      BY <2>6 DEF Mentions, Fields
    <3> QED BY <2>3, <2>6, <3>1, <3>2 DEF Fields, Texts
  <2> QED BY <1>5, <2>4, <2>5, <2>6
<1> QED BY <1>1, <1>3, <1>4, <1>5

(***************************************************************************)
(* What an accepted line says of a sensor is what is shown from then on,   *)
(* whatever lines there are.                                               *)
(***************************************************************************)
THEOREM SentIsReadBack == ProtocolSpec => SensorsReadBack
<1>1. AppInv /\ [ProtocolNext]_protocolVars =>
        [\A field \in {"FRONT", "BACK", "LEFT"} :
           Shown'[field] =
             IF Refused' THEN Shown[field]
             ELSE IF line'[1].text = "RESET" THEN AtStart[field]
             ELSE IF Mentions(line', field) THEN Told(line', field)
             ELSE Shown[field]]_protocolVars
  <2> SUFFICES ASSUME AppInv, NEW words \in Lines, HandleLine(words),
                      NEW field \in Fields
               PROVE  Shown'[field] =
                        IF Refused' THEN Shown[field]
                        ELSE IF line'[1].text = "RESET" THEN AtStart[field]
                        ELSE IF Mentions(line', field)
                        THEN Told(line', field)
                        ELSE Shown[field]
    BY DEF ProtocolNext, Fields
  <2>1. /\ Shown[field] = Texts(shadow)[field]
        /\ Shown'[field] = Texts(shadow')[field]
    BY ShownTexts
  <2>2. shadow \in SensorStates /\ words \in Seq(Words)
    BY LinesAssumption DEF AppInv, AppTypeOK, Words
  <2>3. CASE Refused'
    <3>1. UNCHANGED appVars \/ (ExpirePowerTimer /\ ~accepted')
      BY <2>3, LineContract
    <3>2. shadow' = shadow
      BY <3>1, RefusedTimeout DEF appVars, ExpirePowerTimer
    <3> QED BY <2>1, <2>3, <3>2
  <2>4. CASE ~Refused'
    <3>1. /\ Parse(words).ok /\ HandleParsedCommand(Parse(words).command)
          /\ line' = words
      BY <2>4, LineContract
    <3> QED BY <2>1, <2>2, <2>4, <3>1, TakenLine
  <2> QED BY <2>3, <2>4
<1> QED BY <1>1, ProtocolKeepsAppInv, PTL DEF ProtocolSpec, SensorsReadBack

-----------------------------------------------------------------------------
(***************************************************************************)
(* The grammar: the parser takes the documented lines and no others.  TLC  *)
(* tries a sample of malformed lines; here a line is any sequence of words.*)
(***************************************************************************)

\* Without arguments, or with one: the documented values and no others.
LEMMA SensorArguments ==
    ASSUME NEW name \in {"SET_FRONT", "SET_BACK", "SET_LEFT"},
           NEW args \in Seq(Words)
    PROVE  ParseSensor(name, args) # {} <=>
             /\ Len(args) = 1 /\ args[1].key = NoKey
             /\ args[1].text \in IF name = "SET_BACK" THEN BackTexts ELSE Bits
<1>1. CASE Len(args) # 1
  BY <1>1 DEF ParseSensor
<1>2. CASE Len(args) = 1
  <2> DEFINE text == Whole(args[1])
  <2>1. ParseSensor(name, args) # {} <=>
          IF name = "SET_BACK" THEN ParseBackValue(text) # {}
          ELSE ParseBool(text) # {}
    BY <1>2 DEF ParseSensor
  <2>2. text \in {"0", "1", "UNKNOWN"} =>
          args[1].key = NoKey /\ text = args[1].text
    BY DEF Whole, NotAValue
  <2>3. args[1].key = NoKey => text = args[1].text
    BY DEF Whole
  <2> HIDE DEF text
  <2> QED
    BY <1>2, <2>1, <2>2, <2>3, ParseBoolContract, ParseBackContract
    DEF BackTexts, Bits
<1> QED BY <1>1, <1>2

\* The value of a key that comes once.
LEMMA ValueOfKey ==
    ASSUME NEW args, NEW i \in DOMAIN args,
           \A j \in DOMAIN args : args[j].key = args[i].key => j = i
    PROVE  ValueOf(args, args[i].key) = args[i].text
<1> DEFINE k == CHOOSE j \in DOMAIN args : args[j].key = args[i].key
<1>1. k \in DOMAIN args /\ args[k].key = args[i].key
  OBVIOUS
<1>2. k = i
  BY <1>1
<1> QED BY <1>2 DEF ValueOf

Named(f, b, l) ==
    <<KeyValue("FRONT", f), KeyValue("BACK", b), KeyValue("LEFT", l)>>

Orders == {p \in (1..3) \X (1..3) \X (1..3) : {p[1], p[2], p[3]} = 1..3}

\* The six orders of the three arguments.
LEMMA OrderFacts ==
    /\ Orders = {<<1, 2, 3>>, <<1, 3, 2>>, <<2, 1, 3>>, <<2, 3, 1>>,
                 <<3, 1, 2>>, <<3, 2, 1>>}
    /\ \A f, b, l :
         ObstacleArguments(f, b, l) =
           {<<Named(f, b, l)[p[1]], Named(f, b, l)[p[2]], Named(f, b, l)[p[3]]>> :
              p \in Orders}
<1>1. ASSUME NEW p \in Orders
      PROVE  p \in {<<1, 2, 3>>, <<1, 3, 2>>, <<2, 1, 3>>, <<2, 3, 1>>,
                    <<3, 1, 2>>, <<3, 2, 1>>}
  <2>1. PICK i \in 1..3, j \in 1..3, k \in 1..3 : p = <<i, j, k>>
    BY DEF Orders
  <2>2. {i, j, k} = 1..3
    BY <2>1 DEF Orders
  <2>3. i # j /\ j # k /\ i # k
    <3>1. 1 \in {i, j, k} /\ 2 \in {i, j, k} /\ 3 \in {i, j, k}
      BY <2>2
    <3> QED BY <3>1
  <2> QED BY <2>1, <2>3
<1>2. {<<1, 2, 3>>, <<1, 3, 2>>, <<2, 1, 3>>, <<2, 3, 1>>, <<3, 1, 2>>,
       <<3, 2, 1>>} \subseteq Orders
  <2>1. {1, 2, 3} = 1..3
    OBVIOUS
  <2> QED BY <2>1 DEF Orders
<1> QED BY <1>1, <1>2 DEF ObstacleArguments, Named, Orders

\* The arguments SET_OBSTACLES takes, in every order.
Arranged(f, b, l) ==
    LET F == KeyValue("FRONT", f)
        B == KeyValue("BACK", b)
        L == KeyValue("LEFT", l)
    IN  {<<F, B, L>>, <<F, L, B>>, <<B, F, L>>, <<B, L, F>>, <<L, F, B>>,
         <<L, B, F>>}

\* ObstacleArguments are the six orders, written out one by one.
LEMMA ArrangedFacts ==
    ASSUME NEW f, NEW b, NEW l
    PROVE  ObstacleArguments(f, b, l) = Arranged(f, b, l)
<1> DEFINE n == Named(f, b, l)
<1>1. /\ n[1] = KeyValue("FRONT", f) /\ n[2] = KeyValue("BACK", b)
      /\ n[3] = KeyValue("LEFT", l)
  BY DEF Named
<1> HIDE DEF n
<1>2. ObstacleArguments(f, b, l) = {<<n[p[1]], n[p[2]], n[p[3]]>> : p \in Orders}
  BY OrderFacts DEF n
<1>3. {<<n[p[1]], n[p[2]], n[p[3]]>> : p \in Orders} =
        {<<n[1], n[2], n[3]>>, <<n[1], n[3], n[2]>>, <<n[2], n[1], n[3]>>,
         <<n[2], n[3], n[1]>>, <<n[3], n[1], n[2]>>, <<n[3], n[2], n[1]>>}
  BY OrderFacts
<1> QED BY <1>1, <1>2, <1>3 DEF Arranged

\* Documented arguments are taken ...
LEMMA DocumentedObstacles ==
    ASSUME NEW f \in Bits, NEW b \in BackTexts, NEW l \in Bits,
           NEW args \in Arranged(f, b, l)
    PROVE  ParseObstacles(args) # {}
<1>2. PICK x \in 1..3, y \in 1..3, z \in 1..3 :
         /\ {x, y, z} = 1..3
         /\ args[x] = KeyValue("FRONT", f)
         /\ args[y] = KeyValue("BACK", b)
         /\ args[z] = KeyValue("LEFT", l)
  <2>1. {1, 2, 3} = 1..3
    OBVIOUS
  <2> QED BY <2>1 DEF Arranged
<1>3. Len(args) = 3 /\ DOMAIN args = 1..3
  <2>1. PICK p, q, r : args = <<p, q, r>>
    BY DEF Arranged
  <2> QED BY <2>1
<1>4. /\ args[x].key = "FRONT" /\ args[x].text = f
      /\ args[y].key = "BACK" /\ args[y].text = b
      /\ args[z].key = "LEFT" /\ args[z].text = l
  BY <1>2 DEF KeyValue
<1>5. \A j \in DOMAIN args : j \in {x, y, z}
  BY <1>2, <1>3
<1>6. /\ ValueOf(args, "FRONT") = f /\ ValueOf(args, "BACK") = b
      /\ ValueOf(args, "LEFT") = l
  <2>1. x \in DOMAIN args /\ y \in DOMAIN args /\ z \in DOMAIN args
    BY <1>3
  <2>2. /\ \A j \in DOMAIN args : args[j].key = args[x].key => j = x
        /\ \A j \in DOMAIN args : args[j].key = args[y].key => j = y
        /\ \A j \in DOMAIN args : args[j].key = args[z].key => j = z
    BY <1>4, <1>5
  <2>3. /\ ValueOf(args, args[x].key) = args[x].text
        /\ ValueOf(args, args[y].key) = args[y].text
        /\ ValueOf(args, args[z].key) = args[z].text
    BY <1>3, <2>1, <2>2, ValueOfKey
  <2> QED BY <1>4, <2>3
<1>7. Keys(args) = {"FRONT", "BACK", "LEFT"}
  BY <1>3, <1>4, <1>5 DEF Keys
<1>8. CollectKeyValues(args)
  BY <1>4, <1>5, <1>7 DEF CollectKeyValues, NoKey
<1>9. /\ ParseBool(ValueOf(args, "FRONT")) # {}
      /\ ParseBackValue(ValueOf(args, "BACK")) # {}
      /\ ParseBool(ValueOf(args, "LEFT")) # {}
  BY <1>6, ParseBoolContract, ParseBackContract DEF Bits, BackTexts
<1>10. ParseObstacles(args) =
         {Obstacles(u, v, w) : u \in ParseBool(ValueOf(args, "FRONT")),
                               v \in ParseBackValue(ValueOf(args, "BACK")),
                               w \in ParseBool(ValueOf(args, "LEFT"))}
  BY <1>3, <1>7, <1>8 DEF ParseObstacles
<1>11. PICK u \in ParseBool(ValueOf(args, "FRONT")),
             v \in ParseBackValue(ValueOf(args, "BACK")),
             w \in ParseBool(ValueOf(args, "LEFT")) : TRUE
  BY <1>9
<1>12. Obstacles(u, v, w) \in ParseObstacles(args)
  BY <1>10
<1> QED BY <1>12

\* ... and taken arguments are documented.
LEMMA ObstaclesDocumented ==
    ASSUME NEW args \in Seq(Words), ParseObstacles(args) # {}
    PROVE  \E f \in Bits, b \in BackTexts, l \in Bits :
              args \in Arranged(f, b, l)
<1>1. /\ Len(args) = 3 /\ CollectKeyValues(args)
      /\ Keys(args) = {"FRONT", "BACK", "LEFT"}
  BY DEF ParseObstacles
<1>2. /\ ParseBool(ValueOf(args, "FRONT")) # {}
      /\ ParseBackValue(ValueOf(args, "BACK")) # {}
      /\ ParseBool(ValueOf(args, "LEFT")) # {}
  BY <1>1 DEF ParseObstacles
<1>3. DOMAIN args = 1..3 /\ \A i \in 1..3 : args[i] \in Words
  BY <1>1, LenProperties, ElementOfSeq
<1>4. PICK x \in DOMAIN args : args[x].key = "FRONT"
  BY <1>1 DEF Keys
<1>5. PICK y \in DOMAIN args : args[y].key = "BACK"
  BY <1>1 DEF Keys
<1>6. PICK z \in DOMAIN args : args[z].key = "LEFT"
  BY <1>1 DEF Keys
<1> DEFINE f == args[x].text
           b == args[y].text
           l == args[z].text
<1>7. /\ ValueOf(args, "FRONT") = f /\ ValueOf(args, "BACK") = b
      /\ ValueOf(args, "LEFT") = l
  <2>1. \A i, j \in DOMAIN args : args[i].key = args[j].key => i = j
    BY <1>1 DEF CollectKeyValues
  <2>2. /\ ValueOf(args, args[x].key) = args[x].text
        /\ ValueOf(args, args[y].key) = args[y].text
        /\ ValueOf(args, args[z].key) = args[z].text
    BY <2>1, ValueOfKey
  <2> QED BY <1>4, <1>5, <1>6, <2>2
<1>8. f \in Bits /\ b \in BackTexts /\ l \in Bits
  BY <1>2, <1>7, ParseBoolContract, ParseBackContract DEF Bits, BackTexts
<1>9. /\ args[x] = KeyValue("FRONT", f) /\ args[y] = KeyValue("BACK", b)
      /\ args[z] = KeyValue("LEFT", l)
  BY <1>3, <1>4, <1>5, <1>6 DEF KeyValue, Words
<1>10. /\ x \in 1..3 /\ y \in 1..3 /\ z \in 1..3
       /\ x # y /\ y # z /\ x # z
  BY <1>3, <1>4, <1>5, <1>6
<1>11. args = <<args[1], args[2], args[3]>>
  BY <1>1
<1> HIDE DEF f, b, l
<1>12. args \in Arranged(f, b, l)
  <2>1. \/ x = 1 /\ y = 2 /\ z = 3
        \/ x = 1 /\ y = 3 /\ z = 2
        \/ x = 2 /\ y = 1 /\ z = 3
        \/ x = 2 /\ y = 3 /\ z = 1
        \/ x = 3 /\ y = 1 /\ z = 2
        \/ x = 3 /\ y = 2 /\ z = 1
    BY <1>10
  <2> DEFINE F == KeyValue("FRONT", f)
             B == KeyValue("BACK", b)
             L == KeyValue("LEFT", l)
  <2> HIDE DEF F, B, L
  <2>2. args[x] = F /\ args[y] = B /\ args[z] = L
    BY <1>9 DEF F, B, L
  <2>3. args \in {<<F, B, L>>, <<F, L, B>>, <<B, F, L>>, <<B, L, F>>,
                  <<L, F, B>>, <<L, B, F>>}
    BY <1>11, <2>1, <2>2
  <2> QED BY <2>3 DEF Arranged, F, B, L
<1> QED BY <1>8, <1>12

\* The documented lines, command by command.
Documented(words) ==
    \/ \E name \in SimpleNames : words = <<W(name)>>
    \/ \E name \in {"SET_FRONT", "SET_LEFT"}, v \in Bits : words = <<W(name), W(v)>>
    \/ \E v \in BackTexts : words = <<W("SET_BACK"), W(v)>>
    \/ \E f \in Bits, b \in BackTexts, l \in Bits :
         \E args \in Arranged(f, b, l) : words = <<W("SET_OBSTACLES")>> \o args

\* The documented lines, one form of line at a time.
LEMMA DocumentedLinesFacts ==
    ASSUME NEW words
    PROVE  words \in DocumentedLines <=> Documented(words)
<1>1. \A f, b, l : ObstacleArguments(f, b, l) = Arranged(f, b, l)
  BY ArrangedFacts
<1> DEFINE E(f, b, l) == {<<W("SET_OBSTACLES")>> \o args :
                          args \in ObstacleArguments(f, b, l)}
           U == {E(f, b, l) : f, l \in Bits, b \in BackTexts}
           A == {<<W(name)>> : name \in SimpleNames}
           B == {<<W(name), W(v)>> : name \in {"SET_FRONT", "SET_LEFT"}, v \in Bits}
           C == {<<W("SET_BACK"), W(v)>> : v \in BackTexts}
<1>2. \A f, b, l : words \in E(f, b, l) <=>
        \E args \in Arranged(f, b, l) : words = <<W("SET_OBSTACLES")>> \o args
  BY <1>1
<1>3. words \in DocumentedLines <=>
        \/ \E name \in SimpleNames : words = <<W(name)>>
        \/ \E name \in {"SET_FRONT", "SET_LEFT"}, v \in Bits :
             words = <<W(name), W(v)>>
        \/ \E v \in BackTexts : words = <<W("SET_BACK"), W(v)>>
        \/ words \in UNION U
  <2>1. DocumentedLines = A \cup B \cup C \cup UNION U
    BY DEF DocumentedLines, SimpleNames
  <2>2. words \in A <=> \E name \in SimpleNames : words = <<W(name)>>
    OBVIOUS
  <2>3. words \in B <=> \E name \in {"SET_FRONT", "SET_LEFT"}, v \in Bits :
                          words = <<W(name), W(v)>>
    OBVIOUS
  <2>4. words \in C <=> \E v \in BackTexts : words = <<W("SET_BACK"), W(v)>>
    OBVIOUS
  <2> HIDE DEF A, B, C, U
  <2> QED BY <2>1, <2>2, <2>3, <2>4, Zenon
<1> HIDE DEF A, B, C, E
<1>4. words \in UNION U <=>
        \E f \in Bits, b \in BackTexts, l \in Bits : words \in E(f, b, l)
  <2>1. ASSUME words \in UNION U
        PROVE  \E f \in Bits, b \in BackTexts, l \in Bits : words \in E(f, b, l)
    <3>1. PICK e \in U : words \in e
      BY <2>1
    <3>2. PICK f \in Bits, l \in Bits, b \in BackTexts : e = E(f, b, l)
      OBVIOUS
    <3> QED BY <3>1, <3>2
  <2>2. ASSUME NEW f \in Bits, NEW b \in BackTexts, NEW l \in Bits,
               words \in E(f, b, l)
        PROVE  words \in UNION U
    <3>1. E(f, b, l) \in U
      OBVIOUS
    <3> QED BY <2>2, <3>1
  <2> QED BY <2>1, <2>2
<1> HIDE DEF U
<1> QED BY <1>2, <1>3, <1>4 DEF Documented

\* A line of one word, and one with a second.
LEMMA ShortLines ==
    ASSUME NEW words \in Seq(Words), NEW name, NEW text
    PROVE  /\ words = <<W(name)>> <=>
                Len(words) = 1 /\ words[1].key = NoKey /\ words[1].text = name
           /\ words = <<W(name), W(text)>> <=>
                /\ Len(words) = 2
                /\ words[1].key = NoKey /\ words[1].text = name
                /\ words[2].key = NoKey /\ words[2].text = text
<1>1. W(name).key = NoKey /\ W(name).text = name
  BY DEF W, Word
<1>2. W(text).key = NoKey /\ W(text).text = text
  BY DEF W, Word
<1>3. \A w \in Words : w.key = NoKey /\ w.text = name => w = W(name)
  BY DEF W, Word, Words
<1>4. \A w \in Words : w.key = NoKey /\ w.text = text => w = W(text)
  BY DEF W, Word, Words
<1>5. Len(words) = 1 => words = <<words[1]>> /\ words[1] \in Words
  OBVIOUS
<1>6. Len(words) = 2 =>
        words = <<words[1], words[2]>> /\ words[1] \in Words /\ words[2] \in Words
  OBVIOUS
<1>7. words = <<W(name)>> =>
        Len(words) = 1 /\ words[1] = W(name)
  OBVIOUS
<1>8. words = <<W(name), W(text)>> =>
        Len(words) = 2 /\ words[1] = W(name) /\ words[2] = W(text)
  OBVIOUS
<1> HIDE DEF W
<1>9. words = <<W(name)>> <=>
        Len(words) = 1 /\ words[1].key = NoKey /\ words[1].text = name
  BY <1>1, <1>3, <1>5, <1>7
<1>10. words = <<W(name), W(text)>> <=>
         /\ Len(words) = 2
         /\ words[1].key = NoKey /\ words[1].text = name
         /\ words[2].key = NoKey /\ words[2].text = text
  BY <1>1, <1>2, <1>3, <1>4, <1>6, <1>8
<1> QED BY <1>9, <1>10

\* The arguments of a line are what follows its first word.
LEMMA TailFacts ==
    ASSUME NEW words \in Seq(Words), words # <<>>
    PROVE  /\ Tail(words) \in Seq(Words) /\ Len(Tail(words)) = Len(words) - 1
           /\ Len(words) = 2 => Tail(words)[1] = words[2]
           /\ Len(words) = 4 =>
                Tail(words) = <<words[2], words[3], words[4]>>
<1>1. /\ Tail(words) \in Seq(Words) /\ Len(Tail(words)) = Len(words) - 1
      /\ \A i \in 1..Len(Tail(words)) : Tail(words)[i] = words[i + 1]
  BY HeadTailProperties
<1>2. Len(words) = 4 => Tail(words) = <<words[2], words[3], words[4]>>
  <2> HAVE Len(words) = 4
  <2> DEFINE t == Tail(words)
  <2> HIDE DEF t
  <2>1. /\ t \in Seq(Words) /\ Len(t) = 3
        /\ \A i \in 1..3 : t[i] = words[i + 1]
    <3>1. t \in Seq(Words) /\ Len(t) = 3
      BY <1>1 DEF t
    <3>2. \A i \in 1..Len(t) : t[i] = words[i + 1]
      BY <1>1 DEF t
    <3> QED BY <3>1, <3>2
  <2>2. t[1] = words[2] /\ t[2] = words[3] /\ t[3] = words[4]
    BY <2>1
  <2>3. t = <<t[1], t[2], t[3]>>
    BY <2>1
  <2> QED BY <2>2, <2>3 DEF t
<1> QED BY <1>1, <1>2

\* A SET_OBSTACLES line is its name and its three arguments.
LEMMA ObstacleLines ==
    ASSUME NEW words \in Seq(Words), NEW f, NEW b, NEW l,
           NEW args \in Arranged(f, b, l)
    PROVE  words = <<W("SET_OBSTACLES")>> \o args <=>
             /\ Len(words) = 4 /\ words[1] = W("SET_OBSTACLES")
             /\ Tail(words) = args
<1>1. PICK p, q, r : args = <<p, q, r>>
  BY DEF Arranged
<1> DEFINE o == W("SET_OBSTACLES")
<1> HIDE DEF o
<1>2. <<o>> \o <<p, q, r>> = <<o, p, q, r>>
  <2> DEFINE S == {o, p, q, r}
             c == <<o>> \o <<p, q, r>>
  <2>1. <<o>> \in Seq(S) /\ <<p, q, r>> \in Seq(S) /\ <<o, p, q, r>> \in Seq(S)
    OBVIOUS
  <2>2. /\ Len(<<o>>) = 1 /\ Len(<<p, q, r>>) = 3
        /\ <<o>>[1] = o /\ <<p, q, r>>[1] = p /\ <<p, q, r>>[2] = q
        /\ <<p, q, r>>[3] = r
    OBVIOUS
  <2> HIDE DEF S
  <2>3. /\ c \in Seq(S) /\ Len(c) = 4
        /\ \A i \in 1..4 : c[i] = IF i <= 1 THEN <<o>>[i] ELSE <<p, q, r>>[i - 1]
    BY <2>1, <2>2, ConcatProperties
  <2>4. c[1] = o /\ c[2] = p /\ c[3] = q /\ c[4] = r
    <3>1. 1 \in 1..4 /\ 2 \in 1..4 /\ 3 \in 1..4 /\ 4 \in 1..4
      OBVIOUS
    <3> HIDE DEF c
    <3> QED BY <2>2, <2>3, <3>1
  <2> HIDE DEF c
  <2>5. c = <<c[1], c[2], c[3], c[4]>>
    BY <2>3
  <2> QED BY <2>4, <2>5 DEF c
<1>3. words = <<o, p, q, r>> =>
        /\ Len(words) = 4 /\ words[1] = o /\ words[2] = p /\ words[3] = q
        /\ words[4] = r /\ words # <<>>
  OBVIOUS
<1>4. Len(words) = 4 =>
        words # <<>> /\ words = <<words[1], words[2], words[3], words[4]>>
  OBVIOUS
<1>5. <<words[2], words[3], words[4]>> = <<p, q, r>> =>
        words[2] = p /\ words[3] = q /\ words[4] = r
  OBVIOUS
<1> QED BY <1>1, <1>2, <1>3, <1>4, <1>5, TailFacts DEF o

(***************************************************************************)
(* The parser takes a line exactly when the document lists it.             *)
(***************************************************************************)
LEMMA TakenIsDocumented ==
    ASSUME NEW words \in Seq(Words)
    PROVE  Parse(words).ok <=> Documented(words)
<1> DEFINE name == words[1].text
           args == Tail(words)
           ok == Parse(words).ok
<1>1. /\ ok => Known(words)
      /\ Known(words) =>
           /\ name \in SimpleNames => (ok <=> Len(words) = 1)
           /\ name = "SET_OBSTACLES" => (ok <=> ParseObstacles(args) # {})
           /\ name \in {"SET_FRONT", "SET_BACK", "SET_LEFT"} =>
                (ok <=> ParseSensor(name, args) # {})
  BY ParseContract
<1> HIDE DEF ok, name, args
<1>2. SimpleNames \cap {"SET_OBSTACLES", "SET_FRONT", "SET_BACK", "SET_LEFT"} = {}
  BY DEF SimpleNames
<1>3. ASSUME ok
      PROVE  Documented(words)
  <2>1. /\ Known(words) /\ words # <<>> /\ words[1].key = NoKey
        /\ words[1].text = name
        /\ args \in Seq(Words)
        /\ Len(words) = 2 => args[1] = words[2]
    BY <1>1, <1>3, TailFacts DEF Known, name, args
  <2> DEFINE n == Len(words)
             m == Len(args)
  <2>5. n \in Nat /\ m = n - 1
    BY <2>1, TailFacts DEF args
  <2> HIDE DEF n, m
  <2>2. CASE name \in SimpleNames
    <3>1. words = <<W(name)>>
      BY <1>1, <1>3, <2>1, <2>2, ShortLines
    <3> QED BY <2>2, <3>1 DEF Documented
  <2>3. CASE name = "SET_OBSTACLES"
    <3>1. ParseObstacles(args) # {}
      BY <1>1, <1>3, <2>1, <2>3
    <3>2. PICK f \in Bits, b \in BackTexts, l \in Bits : args \in Arranged(f, b, l)
      BY <2>1, <3>1, ObstaclesDocumented
    <3>3. Len(words) = 4
      <4>1. Len(args) = 3
        BY <3>1 DEF ParseObstacles
      <4>2. m = 3 => n = 4
        BY <2>5
      <4> QED BY <4>1, <4>2 DEF m, n
    <3>4. words[1] = W("SET_OBSTACLES")
      <4>1. words[1] \in Words
        BY <3>3
      <4> QED BY <2>1, <2>3, <4>1 DEF W, Word, Words
    <3>5. words = <<W("SET_OBSTACLES")>> \o args
      BY <3>2, <3>3, <3>4, ObstacleLines DEF args
    <3> QED BY <3>2, <3>5 DEF Documented
  <2>4. CASE name \in {"SET_FRONT", "SET_BACK", "SET_LEFT"}
    <3>1. ParseSensor(name, args) # {}
      BY <1>1, <1>3, <2>1, <2>4
    <3> DEFINE v == args[1].text
    <3>2. /\ Len(args) = 1 /\ args[1].key = NoKey
          /\ v \in IF name = "SET_BACK" THEN BackTexts ELSE Bits
      BY <2>1, <2>4, <3>1, SensorArguments
    <3>3. Len(words) = 2
      <4>1. m = 1 => n = 2
        BY <2>5
      <4> QED BY <3>2, <4>1 DEF m, n
    <3>4. words[2].key = NoKey /\ words[2].text = v
      BY <2>1, <3>2, <3>3
    <3> HIDE DEF v
    <3>5. words = <<W(name), W(v)>>
      BY <2>1, <3>3, <3>4, ShortLines
    <3>6. CASE name = "SET_BACK"
      BY <3>2, <3>5, <3>6 DEF Documented
    <3>7. CASE name # "SET_BACK"
      BY <2>4, <3>2, <3>5, <3>7 DEF Documented
    <3> QED BY <3>6, <3>7
  <2> QED BY <2>1, <2>2, <2>3, <2>4 DEF Known, name
<1>4. ASSUME Documented(words)
      PROVE  ok
  <2>1. CASE \E n \in SimpleNames : words = <<W(n)>>
    <3>1. PICK n \in SimpleNames : words = <<W(n)>>
      BY <2>1
    <3>2. Len(words) = 1 /\ words[1].key = NoKey /\ name = n
      BY <3>1, ShortLines DEF name
    <3>3. words # <<>>
      BY <3>2
    <3> QED BY <1>1, <3>2, <3>3 DEF Known, name
  <2>2. ASSUME NEW n \in {"SET_FRONT", "SET_BACK", "SET_LEFT"}, NEW v,
               v \in IF n = "SET_BACK" THEN BackTexts ELSE Bits,
               words = <<W(n), W(v)>>
        PROVE  ok
    <3>1. /\ Len(words) = 2 /\ words[1].key = NoKey /\ name = n
          /\ words[2].key = NoKey /\ words[2].text = v
      <4>1. words = <<W(n), W(v)>> <=>
              /\ Len(words) = 2
              /\ words[1].key = NoKey /\ words[1].text = n
              /\ words[2].key = NoKey /\ words[2].text = v
        BY ShortLines
      <4> QED BY <2>2, <4>1 DEF name
    <3>2. words # <<>>
      BY <3>1
    <3>3. args \in Seq(Words) /\ Len(args) = 1 /\ args[1] = words[2]
      BY <3>1, <3>2, TailFacts DEF args
    <3>4. ParseSensor(name, args) # {}
      BY <2>2, <3>1, <3>3, SensorArguments
    <3>5. Known(words)
      BY <3>1, <3>2 DEF Known, name
    <3> QED BY <1>1, <3>1, <3>4, <3>5
  <2>3. ASSUME NEW f \in Bits, NEW b \in BackTexts, NEW l \in Bits,
               NEW as \in Arranged(f, b, l),
               words = <<W("SET_OBSTACLES")>> \o as
        PROVE  ok
    <3>1. Len(words) = 4 /\ words[1] = W("SET_OBSTACLES") /\ args = as
      BY <2>3, ObstacleLines DEF args
    <3>2. words[1].key = NoKey /\ name = "SET_OBSTACLES" /\ words # <<>>
      <4>1. W("SET_OBSTACLES").key = NoKey
            /\ W("SET_OBSTACLES").text = "SET_OBSTACLES"
        BY DEF W, Word
      <4> QED BY <3>1, <4>1 DEF name
    <3>3. ParseObstacles(args) # {}
      BY <3>1, DocumentedObstacles
    <3>4. Known(words)
      BY <3>2 DEF Known, name
    <3> QED BY <1>1, <3>2, <3>3, <3>4
  <2> QED BY <1>4, <2>1, <2>2, <2>3 DEF Documented
<1> QED BY <1>3, <1>4 DEF ok

\* The names of the commands are those the documented lines begin with.
LEMMA CommandNamesFacts ==
    CommandNames = SimpleNames \cup {"SET_OBSTACLES", "SET_FRONT", "SET_BACK",
                                     "SET_LEFT"}
<1> DEFINE All == SimpleNames \cup {"SET_OBSTACLES", "SET_FRONT", "SET_BACK",
                                    "SET_LEFT"}
<1>1. \A name, v : /\ <<W(name)>>[1].text = name
                   /\ <<W(name), W(v)>>[1].text = name
  BY DEF W, Word
<1>2. ASSUME NEW f \in Bits, NEW b \in BackTexts, NEW l \in Bits,
             NEW args \in Arranged(f, b, l)
      PROVE  (<<W("SET_OBSTACLES")>> \o args)[1].text = "SET_OBSTACLES"
  <2> DEFINE o == W("SET_OBSTACLES")
  <2>1. PICK p, q, r : args = <<p, q, r>>
    BY DEF Arranged
  <2>2. <<o>> \in Seq({o, p, q, r}) /\ args \in Seq({o, p, q, r})
    BY <2>1
  <2>3. (<<o>> \o args)[1] = o
    <3> HIDE DEF o
    <3>1. Len(<<o>>) = 1 /\ <<o>>[1] = o /\ Len(args) = 3
      BY <2>1
    <3>2. (<<o>> \o args)[1] = <<o>>[1]
      BY <2>2, <3>1, ConcatProperties
    <3> QED BY <3>1, <3>2
  <2> QED BY <2>3 DEF W, Word
<1>3. ASSUME NEW words \in DocumentedLines
      PROVE  words[1].text \in All
  <2>1. Documented(words)
    BY DocumentedLinesFacts
  <2> QED BY <1>1, <1>2, <2>1 DEF Documented
<1>4. ASSUME NEW name \in All
      PROVE  \E words \in DocumentedLines : words[1].text = name
  <2>1. "0" \in Bits /\ "0" \in BackTexts
    BY DEF Bits, BackTexts
  <2>2. CASE name \in SimpleNames
    <3>1. Documented(<<W(name)>>)
      BY <2>2 DEF Documented
    <3> QED BY <1>1, <3>1, DocumentedLinesFacts
  <2>3. CASE name \in {"SET_FRONT", "SET_BACK", "SET_LEFT"}
    <3>1. Documented(<<W(name), W("0")>>)
      BY <2>1, <2>3 DEF Documented
    <3> QED BY <1>1, <3>1, DocumentedLinesFacts
  <2>4. CASE name = "SET_OBSTACLES"
    <3>1. PICK args \in Arranged("0", "0", "0") : TRUE
      BY DEF Arranged
    <3>2. Documented(<<W("SET_OBSTACLES")>> \o args)
      BY <2>1 DEF Documented
    <3>3. (<<W("SET_OBSTACLES")>> \o args)[1].text = name
      BY <1>2, <2>1, <2>4
    <3> QED BY <3>2, <3>3, DocumentedLinesFacts
  <2> QED BY <2>2, <2>3, <2>4
<1> QED BY <1>3, <1>4 DEF CommandNames

\* Only the line POWER_TIMEOUT is a timeout.
LEMMA OnlyPowerTimeout ==
    ASSUME NEW words \in Seq(Words), Parse(words).ok,
           Parse(words).command.type = "PowerTimeout"
    PROVE  words = <<W("POWER_TIMEOUT")>>
<1> DEFINE name == words[1].text
           c == Parse(words).command
<1>1. /\ Known(words)
      /\ name \in SimpleNames => Len(words) = 1
      /\ \/ name \in SimpleNames /\ c = Simple(SimpleCommands[name])
         \/ name = "SET_OBSTACLES" /\ c \in ParseObstacles(Tail(words))
         \/ /\ name \in {"SET_FRONT", "SET_BACK", "SET_LEFT"}
            /\ c \in ParseSensor(name, Tail(words))
  BY ParseContract
<1>2. words[1].key = NoKey
  BY <1>1 DEF Known
<1> HIDE DEF name, c
<1>3. name \in SimpleNames /\ c = Simple(SimpleCommands[name])
  BY <1>1, ObstaclesContract, SensorContract DEF c
<1>4. SimpleCommands[name] = "PowerTimeout"
  <2>1. c.type = SimpleCommands[name]
    BY <1>3 DEF Simple
  <2> QED BY <2>1 DEF c
<1>5. name = "POWER_TIMEOUT"
  BY <1>3, <1>4 DEF SimpleCommands, SimpleNames
<1> QED BY <1>1, <1>2, <1>3, <1>5, ShortLines DEF name

(***************************************************************************)
(* For any line at all, well formed or not: an unknown name, wrong         *)
(* arguments and a documented command are told apart as the document says, *)
(* and ERR INVALID_STATE answers nothing but POWER_TIMEOUT.                *)
(***************************************************************************)
THEOREM GrammarIsDocumented == ProtocolSpec => []DocumentedGrammar
<1>1. ProtocolInit => DocumentedGrammar
  <2> SUFFICES ASSUME ProtocolInit
               PROVE  DocumentedGrammar
    OBVIOUS
  <2>1. line = <<W("PING")>> /\ reply.text = "OK PONG"
    BY DEF ProtocolInit, W
  <2>2. "PING" \in SimpleNames
    BY DEF SimpleNames
  <2>3. line \in DocumentedLines
    BY <2>1, <2>2, DocumentedLinesFacts DEF Documented
  <2>4. line # <<>> /\ line[1].key = NoKey /\ line[1].text = "PING"
    BY <2>1 DEF W, Word
  <2> QED BY <2>1, <2>2, <2>3, <2>4, CommandNamesFacts DEF DocumentedGrammar
<1>2. ASSUME NEW words \in Lines, HandleLine(words)
      PROVE  DocumentedGrammar'
  <2> DEFINE r == Parse(words)
  <2>1. words \in Seq(Words)
    BY LinesAssumption DEF Words
  <2>2. /\ r.ok <=> words \in DocumentedLines
        /\ r.error = "UnknownCommand" <=> ~Known(words)
        /\ r.ok => Known(words)
    BY <2>1, ParseContract, TakenIsDocumented, DocumentedLinesFacts
  <2>3. line' = words
    BY <1>2, LineContract
  <2>4. Known(words) <=> /\ words # <<>> /\ words[1].key = NoKey
                         /\ words[1].text \in CommandNames
    BY CommandNamesFacts DEF Known
  <2>5. CASE ~r.ok
    <3> DEFINE text == IF r.error = "UnknownCommand"
                       THEN "ERR UNKNOWN_COMMAND" ELSE "ERR INVALID_ARGUMENT"
    <3>1. reply'.text = text
      <4>1. Respond(text)
        BY <1>2, <2>5 DEF HandleLine
      <4> HIDE DEF text
      <4> QED BY <4>1 DEF Respond
    <3> HIDE DEF r
    <3> QED BY <2>2, <2>3, <2>4, <2>5, <3>1 DEF DocumentedGrammar
  <2>6. CASE r.ok
    <3>1. HandleParsedCommand(r.command)
      BY <1>2, <2>6 DEF HandleLine
    <3>2. \/ reply'.text \notin Errors
          \/ r.command.type = "PowerTimeout" /\ reply'.text = "ERR INVALID_STATE"
      BY <3>1, ReplyContract
    <3>3. r.command.type = "PowerTimeout" => words = <<W("POWER_TIMEOUT")>>
      BY <2>1, <2>6, OnlyPowerTimeout
    <3> HIDE DEF r
    <3> QED BY <2>2, <2>3, <2>4, <2>6, <3>2, <3>3 DEF DocumentedGrammar, Errors
  <2> QED BY <2>5, <2>6
<1>3. UNCHANGED protocolVars /\ DocumentedGrammar => DocumentedGrammar'
  BY DEF protocolVars, DocumentedGrammar
<1>4. DocumentedGrammar /\ [ProtocolNext]_protocolVars => DocumentedGrammar'
  BY <1>2, <1>3 DEF ProtocolNext
<1> QED BY <1>1, <1>4, PTL DEF ProtocolSpec

=============================================================================
