-------------------------- MODULE MCVideoReceiver --------------------------
(***************************************************************************)
(* Three frames of 1, 3 and 1 packets, whose sequence numbers and picture  *)
(* ids wrap, in a packet buffer of 2 slots that grows to 4: it grows, and  *)
(* is emptied when the stream is 5 packets wide; two losses, a list of two *)
(* missing packets, one frame the decoder refuses, and a frame buffer of   *)
(* two frames, which is full when the third one comes.                     *)
(***************************************************************************)
EXTENDS VideoReceiver

MCLens == <<1, 3, 1>>
=============================================================================
