---------------------------- MODULE PaymentLedger ---------------------------
(***************************************************************************)
(* What paying for one order promises, without sessions, webhooks or       *)
(* commands.  An order is reserved for payment before money can be taken,  *)
(* it is charged at most once, only while it is reserved, and from then on *)
(* it can only become paid.  It is released or cancelled only uncharged.   *)
(* OrderPayment implements this.                                           *)
(***************************************************************************)
CONSTANT Charges        \* the identities a charge can have

VARIABLES
  phase,                \* "unpaid", "reserved", "paid" or "cancelled"
  charged               \* the charges taken from the payer

ledgerVars == <<phase, charged>>

LedgerInit == phase = "unpaid" /\ charged = {}

Reserve == phase = "unpaid" /\ phase' = "reserved" /\ UNCHANGED charged

Charge ==
  /\ phase = "reserved"
  /\ charged = {}
  /\ \E c \in Charges : charged' = {c}
  /\ UNCHANGED phase

Confirm ==
  /\ phase = "reserved"
  /\ charged # {}
  /\ phase' = "paid"
  /\ UNCHANGED charged

Release ==
  /\ phase = "reserved"
  /\ charged = {}
  /\ phase' \in {"unpaid", "cancelled"}
  /\ UNCHANGED charged

Withdraw == phase = "unpaid" /\ phase' = "cancelled" /\ UNCHANGED charged

LedgerNext == Reserve \/ Charge \/ Confirm \/ Release \/ Withdraw

LedgerSpec == LedgerInit /\ [][LedgerNext]_ledgerVars

\* A charge taken is a charge acknowledged.
Acknowledges == charged # {} ~> phase = "paid"
=============================================================================
