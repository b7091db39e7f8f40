---------------------------- MODULE DustService ----------------------------
(***************************************************************************)
(* What the controller promises about dust (UC-007, FR-011, FR-012),       *)
(* without sensors, motion or obstacles: a report is answered at once or   *)
(* owed; a response is increased power with a running timer; it starts for *)
(* a report, made now or owed, and only the end of the timer ends it.      *)
(*                                                                         *)
(* A step that responds could be a Report or a Resume, and only Resume has *)
(* to be owed the report.  Which one a step of RVCSWController has to be   *)
(* is told by its call: see ImplementsDustService in MCRVCSWController.    *)
(***************************************************************************)
VARIABLES
    owed,      \* a report waits for the robot to resume cleaning
    boosted,   \* the cleaning power is increased
    timed      \* the timer that will end the response is running

dustVars == <<owed, boosted, timed>>

Init == owed = FALSE /\ boosted = FALSE /\ timed = FALSE

Respond == owed' = FALSE /\ boosted' = TRUE /\ timed' = TRUE

\* Answered now, or put off: a response under way is not disturbed by that.
Report ==
    \/ Respond
    \/ owed' = TRUE /\ UNCHANGED <<boosted, timed>>

Resume == owed /\ Respond

(***************************************************************************)
(* A report that is owed when a response ends goes with it, which FR-011   *)
(* does not say: see PendingOnlyServed in MCRVCSWController.               *)
(***************************************************************************)
Expire == timed /\ owed' = FALSE /\ boosted' = FALSE /\ timed' = FALSE

Next == Report \/ Resume \/ Expire

Spec == Init /\ [][Next]_dustVars

=============================================================================
