---------------------------- MODULE MCOrderNotices ----------------------------
(* Small instances of OrderNotices for TLC. *)
EXTENDS OrderNotices, TLC
=============================================================================
