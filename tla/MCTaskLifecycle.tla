-------------------------- MODULE MCTaskLifecycle --------------------------
(* Instances of the life cycle of tasks for TLC. *)
EXTENDS TaskLifecycle
=============================================================================
