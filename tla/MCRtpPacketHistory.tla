------------------------ MODULE MCRtpPacketHistory ------------------------
(***************************************************************************)
(* A small packet history: at most three slots, sequence numbers 0 .. 3.   *)
(***************************************************************************)
EXTENDS RtpPacketHistory

(* Sequence number 0 is also that of an unused slot; 1 and 3 leave a gap   *)
(* that makes the fast path's guess miss.                                  *)
SmallPackets ==
  {[seq |-> s, size |-> 60, capture_time_ms |-> IF s = 3 THEN 0 ELSE 1] :
     s \in {0, 1, 3}}
=============================================================================
