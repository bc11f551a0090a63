---------------------------- MODULE MCTaskManager ----------------------------
(* TaskManager with the constants of MCTaskManager.cfg. *)
EXTENDS TaskManager
=============================================================================
