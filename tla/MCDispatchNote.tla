--------------------------- MODULE MCDispatchNote ---------------------------
(***************************************************************************)
(* Instances of DispatchNote for TLC.                                      *)
(***************************************************************************)
EXTENDS DispatchNote, TLC

CONSTANTS h1, h2

\* Workers are alike.
MCAlike == Permutations({h1, h2})

MCSettling == {"result", "acknowledged", "cancelled"}
MCAll == MCSettling \cup {"amended"}

\* Every call but the write of a row, which may follow a completed task.
MCBeforeTheTask == {"read", "find", "complete", "release", "free"}
MCEverywhere == MCBeforeTheTask \cup {"update", "record", "activity", "window", "restart"}
=============================================================================
