--------------------------- MODULE PackagePurchase ---------------------------
(***************************************************************************)
(* A package checkout with its outbox: PackageCheckout queues a phase in   *)
(* the transaction that makes it true (PackagePurchaseDeliveries::enqueue, *)
(* which refuses to run outside one), and PackageDeliveries sends it.      *)
(***************************************************************************)
EXTENDS PackageCheckout, PackageDeliveries

vars == <<checkoutVars, deliveryVars>>

Init == CheckoutInit /\ DeliveriesInit

CheckoutStep == CheckoutNext /\ Enqueue(queued' \ queued)

Next == CheckoutStep \/ (DeliveriesStep /\ UNCHANGED checkoutVars)

Spec == Init /\ [][Next]_vars

(* The provider repeats a signed delivery until it is answered, and the
   handling of an event that keeps being delivered completes at last. *)
WebhookFairness ==
  \A e \in Events :
    /\ SF_checkoutVars(\E h \in Handlers : Receive(h, e))
    /\ SF_checkoutVars(\E h \in Handlers :
         handler[h] # None /\ handler[h].event = e /\ Apply(h))

FairSpec == Spec /\ WebhookFairness /\ DeliveriesFairness

-----------------------------------------------------------------------------
(* Properties *)

Sale == INSTANCE PackageSale WITH
          sale <- CASE status = "absent" -> "absent"
                    [] status = "paid"   -> "paid"
                    [] OTHER             -> "open",
          payer <- paidBy,
          told <- accepted

(* The shop is told of a completed sale only after one payment settled it for
   good, however webhooks, readers, senders and the bridge interleave. *)
ImplementsSale == Sale!SaleSpec

(* Money the provider has taken is booked, and the completed sale is then
   delivered to the shop or left for an operator. *)
CaptureIsTold ==
  (\E p \in Payments : outcome[p] = "paid")
    ~> /\ status = "paid"
       /\ delivery["completed"].status \in {"delivered", "needs_review"}
-----------------------------------------------------------------------------
(* The inductive invariant *)

(* A webhook finds no checkout that has not been reserved. *)
ReservedInv ==
  status = "absent" =>
    ~bound /\ \A h \in Handlers : handler[h] # None => handler[h].lookup # "found"

(* The outbox has a row for a phase that was queued and for no other, and the
   bridge knows of no other. *)
OutboxInv ==
  /\ \A ph \in Phases : ph \in queued <=> delivery[ph].status # "absent"
  /\ onWire \cup accepted \subseteq queued
  /\ "pending" \in queued => status # "absent"

(* Everything a step of the purchase relies on: the invariants of both parts
   and what relates them. *)
PurchaseInv == CheckoutInv /\ DeliveriesInv /\ ReservedInv /\ OutboxInv
=============================================================================
