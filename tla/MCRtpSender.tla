---------------------------- MODULE MCRtpSender ----------------------------
(***************************************************************************)
(* A small sender: three numbers around the wrap of the sequence number    *)
(* space, a history that starts with two slots.                            *)
(***************************************************************************)
EXTENDS RtpSender

OffOrBoth == {{}, {"kRtxRetransmitted", "kRtxRedundantPayloads"}}
=============================================================================
