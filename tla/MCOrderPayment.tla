--------------------------- MODULE MCOrderPayment ---------------------------
(* Small instances of OrderPayment for TLC. *)
EXTENDS OrderPayment, TLC

Symmetries ==
  Permutations(Attempts) \cup Permutations(Sessions) \cup Permutations(Controls)
    \cup Permutations(Copies)
=============================================================================
