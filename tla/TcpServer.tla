----------------------------- MODULE TcpServer -----------------------------
(***************************************************************************)
(* The TCP server (TcpServer): a thread per session reads characters into  *)
(* a line, has the line handled under the mutex all sessions share, and    *)
(* writes the response after the mutex is released.                        *)
(*                                                                         *)
(* The line handler is a parameter of the class; main passes it the        *)
(* command handler.  Here it reads the state of the application when it    *)
(* starts and leaves the changed state when it returns, so that two        *)
(* handlers running at the same time would lose the work of one.  The      *)
(* state is the sequence of lines executed (module CommandProtocol says    *)
(* what a line does).                                                      *)
(***************************************************************************)
EXTENDS Integers, Sequences, FiniteSets

CONSTANTS
    Sessions,               \* the connections the server is going to accept
    Stalled,                \* those whose client may never read an answer
    Chars,                  \* characters other than the line feed
    QuitLine,               \* the line the handler answers by closing
    MaxCommandLineLength,   \* kMaxCommandLineLength
    MaxBytes                \* bound: what a client sends in one session

CR == "CR"
LF == "LF"

ASSUME ServerAssumption ==
    /\ Stalled \subseteq Sessions
    /\ LF \notin Chars
    /\ MaxCommandLineLength \in Nat /\ MaxBytes \in Nat
    /\ QuitLine \in Seq(Chars)

VARIABLES
    pc,         \* where each session's thread is
    line,       \* the characters of the line it reads
    mutex,      \* who holds lineHandlerMutex: a set of at most one session
    view,       \* the state the handler of a session started from
    executed,   \* the state of the application: the lines it has executed
    sent        \* history: what each client has sent so far

serverVars == <<pc, line, mutex, view, executed, sent>>

Entries == [session : Sessions, line : Seq(Chars)]

Places == {"Connecting", "Reading", "Refusing", "Locking", "Handling",
           "Writing", "Ended"}

ServerTypeOK ==
    /\ pc \in [Sessions -> Places]
    /\ line \in [Sessions -> Seq(Chars)]
    /\ \A s \in Sessions : Len(line[s]) <= MaxCommandLineLength
    /\ mutex \subseteq Sessions
    /\ view \in [Sessions -> Seq(Entries)]
    /\ executed \in Seq(Entries)
    /\ sent \in [Sessions -> Seq(Chars \cup {LF})]

ServerInit ==
    /\ pc = [s \in Sessions |-> "Connecting"]
    /\ line = [s \in Sessions |-> <<>>]
    /\ mutex = {}
    /\ view = [s \in Sessions |-> <<>>]
    /\ executed = <<>>
    /\ sent = [s \in Sessions |-> <<>>]

-----------------------------------------------------------------------------
Goto(s, place) == pc' = [pc EXCEPT ![s] = place]

\* run: a connection is accepted and its thread started.
Accept(s) ==
    /\ pc[s] = "Connecting"
    /\ Goto(s, "Reading")
    /\ UNCHANGED <<line, mutex, view, executed, sent>>

Receive(s, ch) ==
    /\ pc[s] = "Reading"
    /\ Len(sent[s]) < MaxBytes
    /\ sent' = [sent EXCEPT ![s] = Append(@, ch)]
    /\ UNCHANGED <<mutex, view, executed>>

\* Mutant: the limit allows one character more.
ReadCharacterOffByOne(s, ch) ==
    /\ Receive(s, ch)
    /\ \/ /\ Len(line[s]) > MaxCommandLineLength
          /\ Goto(s, "Refusing")
          /\ UNCHANGED line
       \/ /\ Len(line[s]) <= MaxCommandLineLength
          /\ line' = [line EXCEPT ![s] = Append(@, ch)]
          /\ UNCHANGED pc

\* The limit is looked at before the character is stored.
ReadCharacter(s, ch) ==
    /\ Receive(s, ch)
    /\ \/ /\ Len(line[s]) >= MaxCommandLineLength
          /\ Goto(s, "Refusing")
          /\ UNCHANGED line
       \/ /\ Len(line[s]) < MaxCommandLineLength
          /\ line' = [line EXCEPT ![s] = Append(@, ch)]
          /\ UNCHANGED pc

WithoutCR(l) ==
    IF l # <<>> /\ l[Len(l)] = CR THEN SubSeq(l, 1, Len(l) - 1) ELSE l

ReadLineFeed(s) ==
    /\ Receive(s, LF)
    /\ line' = [line EXCEPT ![s] = WithoutCR(@)]
    /\ Goto(s, "Locking")

\* The client is gone, or reading fails: the thread ends.
ReadFails(s) ==
    /\ pc[s] = "Reading"
    /\ Goto(s, "Ended")
    /\ UNCHANGED <<line, mutex, view, executed, sent>>

\* The answer to a line that is too long; whether it arrives or not, return.
WriteRefusal(s) ==
    /\ pc[s] = "Refusing"
    /\ Goto(s, "Ended")
    /\ UNCHANGED <<line, mutex, view, executed, sent>>

\* Mutant: the handler is called without the lock.
HandleWithoutLock(s) ==
    /\ pc[s] = "Locking"
    /\ view' = [view EXCEPT ![s] = executed]
    /\ Goto(s, "Handling")
    /\ UNCHANGED <<line, mutex, executed, sent>>

\* Mutant: the lock is kept until the response is written.
LockUntilWritten(s) ==
    /\ pc[s] = "Locking"
    /\ mutex = {} /\ \A t \in Sessions : pc[t] # "Writing"
    /\ mutex' = {s}
    /\ view' = [view EXCEPT ![s] = executed]
    /\ Goto(s, "Handling")
    /\ UNCHANGED <<line, executed, sent>>

\* handleLine: the lock is taken and the handler is called ...
LockAndHandle(s) ==
    /\ pc[s] = "Locking"
    /\ mutex = {}
    /\ mutex' = {s}
    /\ view' = [view EXCEPT ![s] = executed]
    /\ Goto(s, "Handling")
    /\ UNCHANGED <<line, executed, sent>>

\* ... and the lock_guard gives the lock back when the handler has returned.
ReturnAndUnlock(s) ==
    /\ pc[s] = "Handling"
    /\ executed' = Append(view[s], [session |-> s, line |-> line[s]])
    /\ view' = [view EXCEPT ![s] = <<>>]
    /\ mutex' = {}
    /\ Goto(s, "Writing")
    /\ UNCHANGED <<line, sent>>

\* Mutant: the line is not cleared for the next one.
WriteKeepingLine(s) ==
    /\ pc[s] = "Writing"
    /\ Goto(s, IF line[s] = QuitLine THEN "Ended" ELSE "Reading")
    /\ UNCHANGED <<line, mutex, view, executed, sent>>

WriteResponse(s) ==
    /\ pc[s] = "Writing"
    /\ Goto(s, IF line[s] = QuitLine THEN "Ended" ELSE "Reading")
    /\ line' = [line EXCEPT ![s] = <<>>]
    /\ UNCHANGED <<mutex, view, executed, sent>>

\* The client is gone: writing throws and the thread ends.
WriteFails(s) ==
    /\ pc[s] = "Writing"
    /\ Goto(s, "Ended")
    /\ UNCHANGED <<line, mutex, view, executed, sent>>

-----------------------------------------------------------------------------
ServerNext ==
    \E s \in Sessions :
        \/ Accept(s)
        \/ \E ch \in Chars : ReadCharacter(s, ch)
        \/ ReadLineFeed(s)
        \/ ReadFails(s)
        \/ WriteRefusal(s)
        \/ LockAndHandle(s)
        \/ ReturnAndUnlock(s)
        \/ WriteResponse(s)
        \/ WriteFails(s)

(***************************************************************************)
(* A thread that can go on does.  Reading waits for the client and writing *)
(* to a client that never reads may block for ever: no fairness there.     *)
(* std::mutex promises no order, only that a free mutex is taken.          *)
(***************************************************************************)
Fairness ==
    /\ \A s \in Sessions :
          WF_serverVars(LockAndHandle(s)) /\ WF_serverVars(ReturnAndUnlock(s))
    /\ \A s \in Sessions \ Stalled :
          WF_serverVars(WriteResponse(s) \/ WriteFails(s))

ServerSpec == ServerInit /\ [][ServerNext]_serverVars /\ Fairness

-----------------------------------------------------------------------------
(***************************************************************************)
(* A session is asked when its line is complete and answers once its line  *)
(* was executed; before it connects and after it ended it is closed.       *)
(***************************************************************************)
Phase ==
    [Connecting |-> "Closed", Reading |-> "Ready", Refusing |-> "Refusing",
     Locking |-> "Asked", Handling |-> "Asked", Writing |-> "Answering",
     Ended |-> "Closed"]

(***************************************************************************)
(* The server implements CommandService: however the threads interleave, a *)
(* line is executed whole, at one instant between its arrival and its      *)
(* answer, exactly once unless the session ends before.  What the answer   *)
(* says is not modelled: the response is a local variable of the thread.   *)
(***************************************************************************)
Service == INSTANCE CommandService WITH
    LineTexts <- Seq(Chars),
    phase <- [s \in Sessions |-> Phase[pc[s]]],
    question <- [s \in Sessions |->
                   IF pc[s] \in {"Locking", "Handling", "Writing"}
                   THEN line[s] ELSE <<>>]
ImplementsService == Service!Spec

(***************************************************************************)
(* What is executed for a session is what its client sent, cut at the line *)
(* feeds and rid of one carriage return each: no line is lost, doubled,    *)
(* merged with the one before, or taken from the rest of a line that was   *)
(* too long.  All but the line the thread is busy with have been executed. *)
(***************************************************************************)
LineEnds(bytes) == {i \in DOMAIN bytes : bytes[i] = LF}
EndsBefore(bytes, e) == {i \in LineEnds(bytes) : i < e} \cup {0}
LineStart(bytes, e) ==
    CHOOSE i \in EndsBefore(bytes, e) : \A j \in EndsBefore(bytes, e) : j <= i
LineEndingAt(bytes, e) == SubSeq(bytes, LineStart(bytes, e) + 1, e - 1)

ExecutionsFor(s) == {i \in DOMAIN executed : executed[i].session = s}
Rank(S, i) == Cardinality({j \in S : j <= i})

ExecutesWhatWasSent ==
    \A s \in Sessions :
        /\ Cardinality(LineEnds(sent[s])) =
              Cardinality(ExecutionsFor(s)) +
              (IF pc[s] \in {"Locking", "Handling"} THEN 1 ELSE 0)
        /\ \A e \in LineEnds(sent[s]), i \in ExecutionsFor(s) :
              Rank(LineEnds(sent[s]), e) = Rank(ExecutionsFor(s), i) =>
                 executed[i].line = WithoutCR(LineEndingAt(sent[s], e))

(***************************************************************************)
(* docs/command-protocol.md, Connection: a line longer than the limit, the *)
(* carriage return included, is never executed, not even in part; a line   *)
(* within the limit is never refused.                                      *)
(***************************************************************************)
RefusesExactlyLongLines ==
    \A s \in Sessions :
        /\ \A e \in LineEnds(sent[s]) :
              Len(LineEndingAt(sent[s], e)) <= MaxCommandLineLength
        /\ pc[s] = "Refusing" =>
              Len(LineEndingAt(sent[s], Len(sent[s]) + 1)) > MaxCommandLineLength

(***************************************************************************)
(* A client that reads its answers gets one for each line it completed, or *)
(* its session ends, even while another client never reads its own: no     *)
(* session waits for another one's client.                                 *)
(***************************************************************************)
LinesAreAnswered ==
    \A s \in Sessions \ Stalled :
        pc[s] = "Locking" ~> pc[s] \in {"Reading", "Ended"}

=============================================================================
