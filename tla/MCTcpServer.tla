---------------------------- MODULE MCTcpServer ----------------------------
(***************************************************************************)
(* The server for TLC: two sessions, of which one may never read its       *)
(* answers, and a limit of two characters.  Four bytes are enough for two  *)
(* lines, for a line of exactly the limit with and without a carriage      *)
(* return, and for one that is too long and goes on.                       *)
(***************************************************************************)
EXTENDS TcpServer

MCChars == {"c", CR}
MCQuitLine == <<"c", "c">>

=============================================================================
