-------------------------- MODULE MCEventLifecycle --------------------------
(* The instance of EventLifecycle for TLC.                                 *)
EXTENDS EventLifecycle
=============================================================================
