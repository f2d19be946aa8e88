--------------------------- MODULE MCProjectTasks ---------------------------
(***************************************************************************)
(* Small projects for TLC.                                                 *)
(***************************************************************************)
EXTENDS ProjectTasks

\* Two independent tasks, and a third that depends on both.
Joined == <<{}, {}, {1, 2}>>

\* One task that depends on another.
Chain == <<{}, {1}>>
=============================================================================
