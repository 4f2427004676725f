-------------------------- MODULE MCPackageCheckout --------------------------
(* Small instances of PackageCheckout for TLC. *)
EXTENDS PackageCheckout, TLC

Symmetries == Permutations(Payments) \cup Permutations(Handlers) \cup Permutations(Copies)
=============================================================================
