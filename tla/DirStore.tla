------------------------------ MODULE DirStore ------------------------------
(* What the two copies of a cache directory on disk promise: a restart       *)
(* finds one whole snapshot of the directory, and a newer one takes its      *)
(* place in a single step.  The promise is suspended ("exposed") from a      *)
(* fault that the code does not mend until the next snapshot is complete.    *)
EXTENDS Naturals

VARIABLES taken,     \* how many snapshots were taken so far
          durable,   \* the snapshot that a restart would find, 0 for none
          exposed    \* a fault suspends the promise

dvars == <<taken, durable, exposed>>

DInit == taken = 0 /\ durable = 0 /\ exposed = FALSE

(* A snapshot is taken; it may be taken in the shadow of a fault.            *)
Take == /\ taken' = taken + 1
        /\ exposed' \in {exposed, TRUE}
        /\ UNCHANGED durable

(* The snapshot that was taken last is the durable one from now on.          *)
Commit == /\ durable' = taken
          /\ exposed' \in {exposed, FALSE}
          /\ UNCHANGED taken

(* A write fails.                                                            *)
Fault == /\ exposed' = TRUE
         /\ UNCHANGED <<taken, durable>>

(* While exposed, the store may lose what it held or go back.                *)
Damage == /\ exposed
          /\ durable' \in 0..taken
          /\ exposed' = TRUE
          /\ UNCHANGED taken

DNext == Take \/ Commit \/ Fault \/ Damage

DSpec == DInit /\ [][DNext]_dvars
=============================================================================
