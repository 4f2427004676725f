----------------------- MODULE MCSuperAdministrators -----------------------
(* A small instance of SuperAdministrators for TLC. *)
EXTENDS SuperAdministrators, TLC

=============================================================================
