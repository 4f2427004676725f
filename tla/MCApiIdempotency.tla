-------------------------- MODULE MCApiIdempotency --------------------------
(* A small instance of ApiIdempotency for TLC. *)
EXTENDS ApiIdempotency, TLC

Symmetries == Permutations(Requests \ Different) \cup Permutations(Different)
=============================================================================
