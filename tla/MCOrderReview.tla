--------------------------- MODULE MCOrderReview ----------------------------
(* Small instances of OrderReview for TLC. *)
EXTENDS OrderReview, TLC
=============================================================================
