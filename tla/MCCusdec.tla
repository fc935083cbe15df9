------------------------------ MODULE MCCusdec ------------------------------
(***************************************************************************)
(* Instances of Cusdec for TLC.                                            *)
(***************************************************************************)
EXTENDS Cusdec

\* The callbacks that move the workflow, and those with a notice.
MCMoving == {"result", "payment", "warranting"}
MCRelease == {"result", "payment", "warranting", "release"}
MCNoticed == {"result", "payment", "cancelled"}

\* Every call but the write of a row, which may follow a completed task.
MCBeforeTheTask == {"read", "find", "complete"}
MCEverywhere == {"read", "find", "complete", "update", "record", "activity", "window", "restart"}
=============================================================================
