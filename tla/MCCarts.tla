------------------------------- MODULE MCCarts -------------------------------
(* Small instances of Carts for TLC. *)
EXTENDS Carts, TLC

Symmetries ==
  Permutations(Carts) \cup Permutations(Customers) \cup Permutations(Products)
    \cup Permutations(Handoffs)
=============================================================================
