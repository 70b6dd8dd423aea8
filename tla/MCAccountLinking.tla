------------------------- MODULE MCAccountLinking -------------------------
(* An instance of AccountLinking for TLC; MCLinkOverlap.cfg has its constants. *)
EXTENDS AccountLinking
=============================================================================
