------------------------- MODULE MCCommandProtocol -------------------------
(***************************************************************************)
(* The protocol for TLC.  The lines are those of the documented grammar    *)
(* and a sample of malformed ones with at least one line for every check   *)
(* of the parser.                                                          *)
(***************************************************************************)
EXTENDS CommandProtocol

W(text) == Word(text)
Bits == {"0", "1"}
BackTexts == Bits \cup {"UNKNOWN"}

(***************************************************************************)
(* docs/command-protocol.md, Commands.  The document gives the arguments   *)
(* of SET_OBSTACLES in one order; swapping any two of them is the same     *)
(* command.                                                                *)
(***************************************************************************)
ObstacleArguments(f, b, l) ==
    LET args == <<KeyValue("FRONT", f), KeyValue("BACK", b), KeyValue("LEFT", l)>>
    IN  {<<args[p[1]], args[p[2]], args[p[3]]>> : p \in
            {p \in (1..3) \X (1..3) \X (1..3) : {p[1], p[2], p[3]} = 1..3}}

DocumentedLines ==
    {<<W(name)>> : name \in {"PING", "RESET", "GET_STATE", "DUST_DETECTED",
                             "POWER_TIMEOUT", "QUIT"}}
    \cup {<<W(name), W(v)>> : name \in {"SET_FRONT", "SET_LEFT"}, v \in Bits}
    \cup {<<W("SET_BACK"), W(v)>> : v \in BackTexts}
    \cup UNION {{<<W("SET_OBSTACLES")>> \o args : args \in ObstacleArguments(f, b, l)} :
                f, l \in Bits, b \in BackTexts}

MalformedLines ==
    {<<>>, <<W("MOVE")>>, <<KeyValue("SET_FRONT", "1")>>,
     <<W("RESET"), W("0")>>, <<W("POWER_TIMEOUT"), W("0")>>,
     <<W("SET_FRONT")>>, <<W("SET_FRONT"), W("UNKNOWN")>>,
     <<W("SET_FRONT"), W("1"), W("1")>>, <<W("SET_LEFT"), W("2")>>,
     <<W("SET_BACK"), KeyValue("BACK", "1")>>,
     <<W("SET_OBSTACLES"), KeyValue("FRONT", "1"), KeyValue("BACK", "1")>>,
     <<W("SET_OBSTACLES"), KeyValue("FRONT", "1"), KeyValue("BACK", "1"), W("1")>>,
     <<W("SET_OBSTACLES"), KeyValue("FRONT", "1"), KeyValue("BACK", "1"),
       KeyValue("FRONT", "0")>>,
     <<W("SET_OBSTACLES"), KeyValue("FRONT", "1"), KeyValue("BACK", "1"),
       KeyValue("RIGHT", "0")>>,
     <<W("SET_OBSTACLES"), KeyValue("FRONT", "1"), KeyValue("BACK", "1"),
       KeyValue("LEFT", "0"), KeyValue("RIGHT", "0")>>,
     <<W("SET_OBSTACLES"), KeyValue("FRONT", "UNKNOWN"), KeyValue("BACK", "1"),
       KeyValue("LEFT", "0")>>}

\* Every order of the arguments is tried for one choice of the values.
InOrder(words) ==
    \/ Len(words) # 4
    \/ words[2].key = "FRONT" /\ words[3].key = "BACK"
    \/ \A v \in {<<"FRONT", "1">>, <<"BACK", "UNKNOWN">>, <<"LEFT", "0">>} :
          ValueOf(Tail(words), v[1]) = v[2]

MCLines == {words \in DocumentedLines : InOrder(words)} \cup MalformedLines

CommandNames == {words[1].text : words \in DocumentedLines}

(***************************************************************************)
(* docs/command-protocol.md: a line is taken exactly when it is one of the *)
(* documented commands.  What is refused is told apart: an unknown name is *)
(* ERR UNKNOWN_COMMAND, a known one with wrong arguments is                *)
(* ERR INVALID_ARGUMENT, and ERR INVALID_STATE is left to POWER_TIMEOUT.   *)
(***************************************************************************)
DocumentedGrammar ==
    LET documented == line \in DocumentedLines
        known == /\ line # <<>> /\ line[1].key = NoKey
                 /\ line[1].text \in CommandNames
    IN  /\ reply.text = "ERR UNKNOWN_COMMAND" <=> ~known
        /\ reply.text = "ERR INVALID_ARGUMENT" <=> known /\ ~documented
        /\ reply.text = "ERR INVALID_STATE" => line = <<W("POWER_TIMEOUT")>>

=============================================================================
