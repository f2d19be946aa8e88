---------------------------- MODULE MCSubagents ----------------------------
(***************************************************************************)
(* The subagents of a session for TLC.                                     *)
(***************************************************************************)
EXTENDS Subagents, TLC
=============================================================================
