---------------------- MODULE MCMediaCryptoKeyConfig ----------------------
(***************************************************************************)
(* Two usable keys, one that srtp_create refuses and two simulcast layers. *)
(***************************************************************************)
EXTENDS MediaCryptoKeyConfig, TLC

CONSTANTS k1, k2, kbad

UsableKeys == Permutations({k1, k2})
=============================================================================
