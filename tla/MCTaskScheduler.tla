-------------------------- MODULE MCTaskScheduler --------------------------
(***************************************************************************)
(* The scheduler alone, for TLC.                                           *)
(***************************************************************************)
EXTENDS TaskScheduler
=============================================================================
