--------------------------- MODULE SequenceNumber ---------------------------
(***************************************************************************)
(* Wrapping numbers (rtc_base/mod_ops.h and                                *)
(* modules/video_coding/sequence_number_util.h).  M is the size of the     *)
(* space: SeqSpace, or kPicIdLength for the picture ids in packets.        *)
(***************************************************************************)
LOCAL INSTANCE Integers

CONSTANT SeqSpace  \* 2^16: the number of values of a uint16_t

ASSUME SeqSpaceAssumption == SeqSpace \in Nat \ {0} /\ SeqSpace % 2 = 0

ForwardDiff(a, b, M) == (b - a) % M

MinDiff(a, b, M) == LET f == ForwardDiff(a, b, M)
                        r == ForwardDiff(b, a, M)
                    IN  IF f < r THEN f ELSE r

(* At the largest distance the number with the highest value is ahead. *)
AheadOrAt(a, b, M) ==
  IF 2 * ForwardDiff(b, a, M) = M THEN b < a ELSE 2 * ForwardDiff(b, a, M) < M

AheadOf(a, b, M) == a # b /\ AheadOrAt(a, b, M)
=============================================================================
