--------------------------- MODULE CommandParser ---------------------------
(***************************************************************************)
(* Parsing of a command line (CommandParser).                              *)
(*                                                                         *)
(* A line is the sequence of its words (trim and splitWords leave no white *)
(* space).  A word KEY=value is a pair of both; any other word, a word     *)
(* with nothing before or after its = sign included, has no key.  Names,   *)
(* keys and the value UNKNOWN are compared in upper case, so case is not   *)
(* part of a word here.                                                    *)
(*                                                                         *)
(* An optional value is the set of its at most one element.                *)
(***************************************************************************)
EXTENDS Integers, Sequences

NoKey == "NoKey"
Word(text) == [key |-> NoKey, text |-> text]
KeyValue(key, text) == [key |-> key, text |-> text]

\* The text parseBool and parseBackValue see of a word that is not split.
NotAValue == "KEY=value"
Whole(word) == IF word.key = NoKey THEN word.text ELSE NotAValue

SimpleCommands ==
    [PING |-> "Ping", RESET |-> "Reset", GET_STATE |-> "GetState",
     DUST_DETECTED |-> "DustDetected", POWER_TIMEOUT |-> "PowerTimeout",
     QUIT |-> "Quit"]

SensorCommands ==
    [SET_FRONT |-> "SetFront", SET_BACK |-> "SetBack", SET_LEFT |-> "SetLeft",
     SET_OBSTACLES |-> "SetObstacles"]

BackObstacleValues == {"Clear", "Blocked", "Unknown"}

ParsedCommands ==
    [type : {SimpleCommands[n] : n \in DOMAIN SimpleCommands} \cup
            {SensorCommands[n] : n \in DOMAIN SensorCommands},
     front : BOOLEAN, back : BackObstacleValues, left : BOOLEAN]

\* The fields a command has no argument for keep the defaults of the class.
Simple(type) == [type |-> type, front |-> FALSE, back |-> "Unknown", left |-> FALSE]
Front(detected) == [Simple("SetFront") EXCEPT !.front = detected]
Back(detected) == [Simple("SetBack") EXCEPT !.back = detected]
Left(detected) == [Simple("SetLeft") EXCEPT !.left = detected]
Obstacles(front, back, left) ==
    [type |-> "SetObstacles", front |-> front, back |-> back, left |-> left]

ParseErrors == {"None", "UnknownCommand", "InvalidArgument"}

\* A failed result carries a PING that nobody may execute.
Success(command) == [ok |-> TRUE, command |-> command, error |-> "None"]
Failure(error) == [ok |-> FALSE, command |-> Simple("Ping"), error |-> error]

FromOptional(commands) ==
    IF commands = {} THEN Failure("InvalidArgument")
    ELSE Success(CHOOSE c \in commands : TRUE)

ParseBool(text) ==
    CASE text = "0" -> {FALSE}
      [] text = "1" -> {TRUE}
      [] OTHER -> {}

ParseBackValue(text) ==
    CASE text = "0" -> {"Clear"}
      [] text = "1" -> {"Blocked"}
      [] text = "UNKNOWN" -> {"Unknown"}
      [] OTHER -> {}

Keys(args) == {args[i].key : i \in DOMAIN args}

\* collectKeyValues: every argument is a KEY=value and no key comes twice.
CollectKeyValues(args) ==
    /\ NoKey \notin Keys(args)
    /\ \A i, j \in DOMAIN args : args[i].key = args[j].key => i = j

ValueOf(args, key) ==
    args[CHOOSE i \in DOMAIN args : args[i].key = key].text

\* Mutant: only FRONT, BACK and LEFT are looked up, whatever else is there.
ParseObstaclesLoosely(args) ==
    IF ~({"FRONT", "BACK", "LEFT"} \subseteq Keys(args)) THEN {}
    ELSE {Obstacles(f, b, l) : f \in ParseBool(ValueOf(args, "FRONT")),
                               b \in ParseBackValue(ValueOf(args, "BACK")),
                               l \in ParseBool(ValueOf(args, "LEFT"))}

ParseObstacles(args) ==
    IF \/ Len(args) # 3
       \/ ~CollectKeyValues(args)
       \/ Keys(args) # {"FRONT", "BACK", "LEFT"}
    THEN {}
    ELSE {Obstacles(f, b, l) : f \in ParseBool(ValueOf(args, "FRONT")),
                               b \in ParseBackValue(ValueOf(args, "BACK")),
                               l \in ParseBool(ValueOf(args, "LEFT"))}

\* The argument of SET_FRONT, SET_BACK and SET_LEFT is the whole second word.
ParseSensor(name, args) ==
    IF Len(args) # 1 THEN {}
    ELSE LET text == Whole(args[1])
         IN  CASE name = "SET_FRONT" -> {Front(d) : d \in ParseBool(text)}
               [] name = "SET_BACK" -> {Back(d) : d \in ParseBackValue(text)}
               [] name = "SET_LEFT" -> {Left(d) : d \in ParseBool(text)}

Parse(line) ==
    IF line = <<>> THEN Failure("UnknownCommand")
    ELSE LET name == Whole(Head(line))
             args == Tail(line)
         IN  CASE name \in DOMAIN SimpleCommands ->
                    FromOptional(IF args # <<>> THEN {}
                                 ELSE {Simple(SimpleCommands[name])})
               [] name = "SET_OBSTACLES" -> FromOptional(ParseObstacles(args))
               [] name \in {"SET_FRONT", "SET_BACK", "SET_LEFT"} ->
                    FromOptional(ParseSensor(name, args))
               [] OTHER -> Failure("UnknownCommand")

=============================================================================
