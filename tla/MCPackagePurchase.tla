-------------------------- MODULE MCPackagePurchase --------------------------
(* Small instances of PackagePurchase for TLC. *)
EXTENDS PackagePurchase, TLC

Symmetries ==
  Permutations(Payments) \cup Permutations(Handlers) \cup Permutations(Senders)
=============================================================================
