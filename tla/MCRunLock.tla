----------------------------- MODULE MCRunLock ------------------------------
(* RunLock on three processes of two machines. *)
EXTENDS RunLock, TLC

CONSTANTS p1, p2, p3, h1, h2

MCThree == {p1, p2, p3}
MCHosts == {h1, h2}
MCHostOf == [p \in Procs |-> IF p = p3 THEN h2 ELSE h1]
=============================================================================
