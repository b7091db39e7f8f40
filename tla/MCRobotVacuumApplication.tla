---------------------- MODULE MCRobotVacuumApplication ----------------------
(***************************************************************************)
(* The application for TLC: every command in every order, RESET included,  *)
(* with the default policy, the only one the application builds.           *)
(***************************************************************************)
EXTENDS RobotVacuumApplication

=============================================================================
