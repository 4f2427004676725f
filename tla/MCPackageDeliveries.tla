------------------------- MODULE MCPackageDeliveries -------------------------
(* Small instances of PackageDeliveries for TLC. *)
EXTENDS PackageDeliveries, TLC

=============================================================================
