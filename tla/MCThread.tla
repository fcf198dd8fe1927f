------------------------------ MODULE MCThread ------------------------------
(***************************************************************************)
(* Three threads, of which the owner stops one.                            *)
(***************************************************************************)
EXTENDS Thread

CONSTANTS T1, T2, T3

MCThreads == {T1, T2, T3}
MCStopped == {T2}
=============================================================================
