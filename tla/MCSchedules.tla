---------------------------- MODULE MCSchedules ----------------------------
(***************************************************************************)
(* One small schedule for TLC.                                             *)
(***************************************************************************)
EXTENDS Schedules

\* No limit, the tightest one, and one that leaves room for a second run.
SmallLimits == {0, 1, 2}
=============================================================================
