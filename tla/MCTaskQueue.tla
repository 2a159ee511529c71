----------------------------- MODULE MCTaskQueue ----------------------------
(***************************************************************************)
(* Small instances of TaskQueue: two tasks, the second built on the first. *)
(***************************************************************************)
EXTENDS TaskQueue

CONSTANTS t1, t2

TwoTasks == <<t1, t2>>
InARow == [t \in Planned |-> IF t = t2 THEN {t1} ELSE {}]
=============================================================================
