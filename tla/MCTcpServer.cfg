\* Two sessions with short lines.  The sessions may all be over: no deadlock
\* check.  No symmetry: liveness is checked and the sessions differ.
SPECIFICATION ServerSpec
CONSTANTS
    Sessions = {s1, s2}
    Stalled = {s2}
    Chars <- MCChars
    QuitLine <- MCQuitLine
    MaxCommandLineLength = 2
    MaxBytes = 4
CHECK_DEADLOCK FALSE
INVARIANTS
    ServerTypeOK
    ExecutesWhatWasSent
    RefusesExactlyLongLines
PROPERTIES
    ImplementsService
    LinesAreAnswered
