------------------------------- MODULE MCAIO --------------------------------
(* An instance of AIO for TLC: requests and the descriptors and priorities *)
(* they have.                                                              *)
EXTENDS AIO

CONSTANTS o1, o2, o3, o4, fd1

OneDisk == [o \in Ops |-> fd1]

\* Two requests of one priority, one of a higher one and one of http.
Prios == [o \in Ops |-> IF o = o4 THEN 0 ELSE IF o = o3 THEN 2 ELSE 1]

\* The http request is issued a second time.
OneTwice == [o \in Ops |-> IF o = o4 THEN 2 ELSE 1]
=============================================================================
