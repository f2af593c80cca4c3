----------------------------- MODULE MCNetEnable -----------------------------
(* Instances of NetEnable for TLC.                                           *)
EXTENDS NetEnable
=============================================================================
