--------------------------- MODULE OrderLifecycle ---------------------------
(***************************************************************************)
(* The four status axes of an order and the rules that every save of an    *)
(* order is validated against (src/app/Services/Orders/OrderLifecycle.php).*)
(* Components that change an order extend this module.                     *)
(***************************************************************************)

Statuses     == {"open", "cancelled", "completed"}
Approvals    == {"pending", "clarification", "approved", "rejected", "expired"}
Payments     == {"unpaid", "pending", "paid",
                 "partially_refunded", "refunded", "disputed"}
Fulfillments == {"not_started", "in_progress", "waiting_customer",
                 "completed", "cancelled"}

(***************************************************************************)
(* TRANSITIONS: the values each value of an axis may be followed by.       *)
(***************************************************************************)
StatusNext ==
  [from \in Statuses |-> IF from = "open" THEN {"cancelled", "completed"} ELSE {}]

ApprovalNext ==
  [from \in Approvals |->
     CASE from = "pending"       -> {"clarification", "approved", "rejected"}
       [] from = "clarification" -> {"pending", "rejected"}
       [] from = "approved"      -> {"clarification", "expired"}
       [] from = "expired"       -> {"pending", "clarification"}
       [] OTHER                  -> {}]

PaymentNext ==
  [from \in Payments |->
     CASE from = "unpaid"  -> {"pending"}
       [] from = "pending" -> {"unpaid", "paid"}
       [] OTHER            -> {}]

FulfillmentNext ==
  [from \in Fulfillments |-> IF from = "not_started" THEN {"cancelled"} ELSE {}]

Started(fulfillment) ==
  fulfillment \in {"in_progress", "waiting_customer", "completed"}

(***************************************************************************)
(* validate(): the combinations of the four axes that may be stored, and   *)
(* the steps allowed between two stored combinations.                      *)
(***************************************************************************)
ConsistentAxes(o) ==
  /\ o.payment # "unpaid" => o.approval = "approved"
  /\ Started(o.fulfillment) =>
       /\ o.payment \in {"paid", "partially_refunded"}
       /\ o.approval = "approved"
  /\ (o.status = "completed") <=> (o.fulfillment = "completed")
  /\ o.status = "cancelled" => /\ o.payment \in {"unpaid", "refunded"}
                               /\ o.fulfillment = "cancelled"
  /\ o.status = "open" => o.fulfillment # "cancelled"

AllowedStep(o, p) ==
  /\ p.status      \in StatusNext[o.status]           \cup {o.status}
  /\ p.approval    \in ApprovalNext[o.approval]       \cup {o.approval}
  /\ p.payment     \in PaymentNext[o.payment]         \cup {o.payment}
  /\ p.fulfillment \in FulfillmentNext[o.fulfillment] \cup {o.fulfillment}
  /\ o.status = "cancelled" => p = o
=============================================================================
