---------------------------- MODULE MCMediaPath ----------------------------
(***************************************************************************)
(* A path with six sequence numbers, sent until just after the wrap, two   *)
(* usable keys and one that srtp_create refuses.                           *)
(***************************************************************************)
EXTENDS MediaPath, TLC

CONSTANTS k1, k2, kbad

UsableKeys == Permutations({k1, k2})
=============================================================================
