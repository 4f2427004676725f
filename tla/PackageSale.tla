----------------------------- MODULE PackageSale -----------------------------
(***************************************************************************)
(* What a package checkout promises: a sale is opened once, settled by one *)
(* payment that stays, and the shop is told of the guest and, after the    *)
(* settlement only, of the sale.                                           *)
(***************************************************************************)
CONSTANTS Payments, None

VARIABLES
  sale,   \* "absent", "open" or "paid"
  payer,  \* the payment that settled it
  told    \* the phases the shop has been told of

saleVars == <<sale, payer, told>>

SaleInit ==
  /\ sale = "absent"
  /\ payer = None
  /\ told = {}

Open ==
  /\ sale = "absent"
  /\ sale' = "open"
  /\ UNCHANGED <<payer, told>>

SettleBy(p) ==
  /\ sale = "open"
  /\ sale' = "paid"
  /\ payer' = p
  /\ UNCHANGED told

Tell(ph) ==
  /\ ph = "pending" => sale # "absent"
  /\ ph = "completed" => sale = "paid"
  /\ told' = told \cup {ph}
  /\ UNCHANGED <<sale, payer>>

SaleNext ==
  \/ Open
  \/ \E p \in Payments : SettleBy(p)
  \/ \E ph \in {"pending", "completed"} : Tell(ph)

SaleSpec == SaleInit /\ [][SaleNext]_saleVars
=============================================================================
