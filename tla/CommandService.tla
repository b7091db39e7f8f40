--------------------------- MODULE CommandService ---------------------------
(***************************************************************************)
(* What the server promises its clients: a session hands in one line at a  *)
(* time, and the line is executed at one instant between that and its      *)
(* answer, whatever the other sessions do meanwhile.  What the answer says *)
(* is left out.  A session may end at any moment, also between the         *)
(* execution and the answer.  TcpServer, with its threads and its mutex,   *)
(* implements this specification.                                          *)
(***************************************************************************)
EXTENDS Integers, Sequences

CONSTANTS
    Sessions,
    LineTexts,   \* what a line may be
    QuitLine     \* the line after whose answer the session is closed

VARIABLES
    phase,     \* of each session: Closed, Ready, Asked, Answering or Refusing
    question,  \* the line each session waits for an answer to
    executed   \* the lines executed so far, in order, with their sessions

serviceVars == <<phase, question, executed>>

Init ==
    /\ phase = [s \in Sessions |-> "Closed"]
    /\ question = [s \in Sessions |-> <<>>]
    /\ executed = <<>>

Connect(s) ==
    /\ phase[s] = "Closed"
    /\ phase' = [phase EXCEPT ![s] = "Ready"]
    /\ UNCHANGED <<question, executed>>

\* Which line is asked is left open; LineTexts may be infinite.
Ask(s) ==
    /\ phase[s] = "Ready"
    /\ phase' = [phase EXCEPT ![s] = "Asked"]
    /\ question'[s] \in LineTexts
    /\ question' = [question EXCEPT ![s] = question'[s]]
    /\ UNCHANGED executed

Execute(s) ==
    /\ phase[s] = "Asked"
    /\ phase' = [phase EXCEPT ![s] = "Answering"]
    /\ executed' = Append(executed, [session |-> s, line |-> question[s]])
    /\ UNCHANGED question

Answer(s) ==
    /\ phase[s] = "Answering"
    /\ phase' = [phase EXCEPT ![s] =
                   IF question[s] = QuitLine THEN "Closed" ELSE "Ready"]
    /\ question' = [question EXCEPT ![s] = <<>>]
    /\ UNCHANGED executed

\* What was sent is no line: it is turned down and the session ends.
Refuse(s) ==
    /\ phase[s] = "Ready"
    /\ phase' = [phase EXCEPT ![s] = "Refusing"]
    /\ UNCHANGED <<question, executed>>

Close(s) ==
    /\ phase[s] \in {"Ready", "Answering", "Refusing"}
    /\ phase' = [phase EXCEPT ![s] = "Closed"]
    /\ question' = [question EXCEPT ![s] = <<>>]
    /\ UNCHANGED executed

Next ==
    \E s \in Sessions :
        \/ Connect(s) \/ Ask(s) \/ Execute(s) \/ Answer(s)
        \/ Refuse(s) \/ Close(s)

Spec == Init /\ [][Next]_serviceVars

=============================================================================
