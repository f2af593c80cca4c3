------------------------- MODULE MCProtectedQueue --------------------------
(* Instances of ProtectedQueue for TLC.                                    *)
EXTENDS ProtectedQueue

\* One thread schedules locally, once in a round.
OneLocal == [t \in EThreads |-> IF t = N - 1 THEN 1 ELSE 0]
=============================================================================
