--------------------------- MODULE PackageCheckout ---------------------------
(***************************************************************************)
(* One guest package checkout paid by a QR Ph code: the generator that     *)
(* makes the code, the status reads that give up on it, and the signed     *)
(* webhooks that end it.                                                   *)
(*                                                                         *)
(*   src/app/Services/PackageCheckout/PackageCheckouts.php                 *)
(*   src/app/Services/PackageCheckout/QrphWebhooks.php                     *)
(*   src/app/Services/PackageCheckout/QrphClient.php                       *)
(*                                                                         *)
(* The request whose insert won the unique operation id runs the generator *)
(* (generator is its program counter); every other request with that id,   *)
(* and every poll, is a StatusRead.  A webhook delivery runs in a handler: *)
(* its lookup and its recovery precede its transaction.  Clocks are        *)
(* abstract: a deadline may have passed whenever it is asked for.          *)
(*                                                                         *)
(* The provider (external) makes at most one payment intent for the one    *)
(* POST it is sent, and executes it, or the attach POST, late or never.    *)
(***************************************************************************)
CONSTANTS
  Payments,     \* provider payments on the intent (pay_...)
  Copies,       \* distinct event ids the provider sends for one fact
  Handlers,     \* webhook deliveries that can be in process at a time
  None,
  EarlyEvents   \* payments may be reported on an intent before it has a QR code

ASSUME CheckoutAssumption ==
  /\ None \notin Payments
  /\ EarlyEvents \in BOOLEAN

VARIABLES
  status,       \* package_checkouts.status; "absent": no row yet
  phase,        \* creation_phase
  bound,        \* provider_intent_id is not null
  paidBy,       \* provider_payment_id
  queued,       \* phases with a package_purchase_deliveries row
  generator,    \* PackageCheckouts::generate: the answer it waits for
  receipt,      \* package_qrph_events.outcome, by event
  handler,      \* QrphWebhooks::receive: the event, and what its lookup found
  posts,        \* POSTs on their way: "intent", "attach"
  intentMade,   \* the provider has the payment intent
  attached,     \* ... and a QR code is attached to it
  codeExpired,  \* ... and the provider has expired that code
  outcome       \* of a payment at the provider

rowVars      == <<status, phase, bound, paidBy, queued>>
webhookVars  == <<receipt, handler>>
providerVars == <<posts, intentMade, attached, codeExpired, outcome>>
checkoutVars == <<rowVars, generator, webhookVars, providerVars>>

Statuses == {"creating", "pending", "unknown", "expired", "failed", "paid"}
CreationPhases == {"intent_reserved", "method_reserved", "attach_reserved", "complete"}

Events ==
       [type: {"payment.paid", "payment.failed"}, payment: Payments, copy: Copies]
  \cup [type: {"qrph.expired"}, payment: {None}, copy: Copies]

(* The provider's own events carry the checkout's amount, currency and mode, so
   the outcome "rejected" does not occur. *)
Outcomes == {"unmatched", "expired", "paid", "already_paid", "payment_conflict", "failed"}

CheckoutTypeOK ==
  /\ status \in Statuses \cup {"absent"}
  /\ phase \in CreationPhases \cup {"none"}
  /\ bound \in BOOLEAN
  /\ paidBy \in Payments \cup {None}
  /\ queued \subseteq {"pending", "completed"}
  /\ generator \in {"idle", "intent", "method", "attach", "gone"}
  /\ receipt \in [Events -> Outcomes \cup {"none"}]
  /\ handler \in [Handlers -> [event: Events, lookup: {"found", "missed", "nothing"}]
                               \cup {None}]
  /\ posts \subseteq {"intent", "attach"}
  /\ intentMade \in BOOLEAN
  /\ attached \in BOOLEAN
  /\ codeExpired \in BOOLEAN
  /\ outcome \in [Payments -> {"none", "paid", "failed"}]

CheckoutInit ==
  /\ status = "absent"
  /\ phase = "none"
  /\ bound = FALSE
  /\ paidBy = None
  /\ queued = {}
  /\ generator = "idle"
  /\ receipt = [e \in Events |-> "none"]
  /\ handler = [h \in Handlers |-> None]
  /\ posts = {}
  /\ intentMade = FALSE
  /\ attached = FALSE
  /\ codeExpired = FALSE
  /\ outcome = [p \in Payments |-> "none"]

-----------------------------------------------------------------------------
(* The request that creates the checkout *)

(* The insert that wins the operation id reserves the intent, queues the first
   notification and sends the one POST for the intent. *)
Create ==
  /\ status = "absent"
  /\ status' = "creating"
  /\ phase' = "intent_reserved"
  /\ queued' = {"pending"}
  /\ generator' = "intent"
  /\ posts' = {"intent"}
  /\ UNCHANGED <<bound, paidBy, webhookVars, intentMade, attached, codeExpired, outcome>>

\* Mutant of Advance: advance() saves without looking at the locked status.
AdvanceAlways(waiting, save) ==
  /\ generator = waiting
  /\ save
  /\ UNCHANGED <<webhookVars, intentMade, attached, codeExpired, outcome>>

(* advance(): the generator's changes are saved while the checkout is still
   being created; afterwards it returns without saving and sends nothing. *)
Advance(waiting, save) ==
  /\ generator = waiting
  /\ IF status = "creating"
     THEN save
     ELSE /\ generator' = "gone"
          /\ UNCHANGED <<rowVars, posts>>
  /\ UNCHANGED <<webhookVars, intentMade, attached, codeExpired, outcome>>

\* Mutant of IntentAnswered: the next phase is saved without the intent's id.
IntentAnsweredUnsaved ==
  /\ intentMade
  /\ Advance("intent",
       /\ phase' = "method_reserved"
       /\ generator' = "method"
       /\ UNCHANGED <<status, bound, paidBy, queued, posts>>)

IntentAnswered ==
  /\ intentMade
  /\ Advance("intent",
       /\ bound' = TRUE
       /\ phase' = "method_reserved"
       /\ generator' = "method"
       /\ UNCHANGED <<status, paidBy, queued, posts>>)

(* Less than a minute of the offer is left: no QR code is made. *)
OfferEnds ==
  Advance("method",
    /\ status' = "expired"
    /\ generator' = "gone"
    /\ UNCHANGED <<phase, bound, paidBy, queued, posts>>)

MethodAnswered ==
  Advance("method",
    /\ phase' = "attach_reserved"
    /\ generator' = "attach"
    /\ posts' = posts \cup {"attach"}
    /\ UNCHANGED <<status, bound, paidBy, queued>>)

\* Mutant of AttachAnswered: attach() takes any answer for an attached code.
AttachAnsweredUnchecked ==
  Advance("attach",
    /\ status' = "pending"
    /\ phase' = "complete"
    /\ generator' = "gone"
    /\ UNCHANGED <<bound, paidBy, queued, posts>>)

AttachAnswered ==
  /\ attached
  /\ Advance("attach",
       /\ status' = "pending"
       /\ phase' = "complete"
       /\ generator' = "gone"
       /\ UNCHANGED <<bound, paidBy, queued, posts>>)

(* QrphFailure: a POST timed out, or its answer was not the one expected. *)
GeneratorFails ==
  \E waiting \in {"intent", "method", "attach"} :
    Advance(waiting,
      /\ status' = "unknown"
      /\ generator' = "gone"
      /\ UNCHANGED <<phase, bound, paidBy, queued, posts>>)

GeneratorDies ==
  /\ generator \in {"intent", "method", "attach"}
  /\ generator' = "gone"
  /\ UNCHANGED <<rowVars, webhookVars, providerVars>>

(* status(): a code past its deadline is hidden, and a checkout that has been
   creating for two minutes is given up. *)
StatusRead ==
  /\ \/ status = "pending" /\ status' = "expired"
     \/ status = "creating" /\ status' = "unknown"
  /\ UNCHANGED <<phase, bound, paidBy, queued, generator, webhookVars, providerVars>>

-----------------------------------------------------------------------------
(* Webhooks *)

Issued(e) ==
  /\ e.type = "payment.paid" => outcome[e.payment] = "paid"
  /\ e.type = "payment.failed" => outcome[e.payment] = "failed"
  /\ e.type = "qrph.expired" => codeExpired

(* A delivery of an event without a receipt: its lookup by the intent. *)
Receive(h, e) ==
  /\ handler[h] = None
  /\ Issued(e)
  /\ receipt[e] = "none"
  /\ handler' = [handler EXCEPT ![h] =
       [event |-> e, lookup |-> IF bound THEN "found"
                                ELSE IF e.type = "qrph.expired" THEN "nothing"
                                ELSE "missed"]]
  /\ UNCHANGED <<rowVars, generator, receipt, providerVars>>

Recoverable ==
  ~bound /\ phase = "intent_reserved" /\ status \in {"creating", "unknown"}

(* recover(): the intent's own metadata names the checkout. *)
Recover(h) ==
  /\ handler[h] # None
  /\ handler[h].lookup = "missed"
  /\ handler' = [handler EXCEPT ![h].lookup = IF Recoverable THEN "found" ELSE "nothing"]
  /\ UNCHANGED <<rowVars, generator, receipt, providerVars>>

(* The read of the intent fails: 503 and no receipt. *)
RecoverFails(h) ==
  /\ handler[h] # None
  /\ handler[h].lookup = "missed"
  /\ handler' = [handler EXCEPT ![h] = None]
  /\ UNCHANGED <<rowVars, generator, receipt, providerVars>>

Bind == bound' = (bound \/ phase = "intent_reserved")

Receipt(e, result) == receipt' = [receipt EXCEPT ![e] = result]

\* Mutant of SettlePaid: a second payment of the intent settles it again.
SettlePaidAgain(e) ==
  /\ status' = "paid"
  /\ paidBy' = e.payment
  /\ queued' = queued \cup {"completed"}
  /\ Receipt(e, "paid")

\* Mutant of SettlePaid: a checkout that has expired cannot be paid any more.
SettlePaidInTime(e) ==
  IF status = "expired"
  THEN Receipt(e, "expired") /\ UNCHANGED <<status, paidBy, queued>>
  ELSE /\ status' = "paid"
       /\ paidBy' = e.payment
       /\ queued' = queued \cup {"completed"}
       /\ Receipt(e, "paid")

SettlePaid(e) ==
  IF status = "paid"
  THEN /\ Receipt(e, IF paidBy = e.payment THEN "already_paid" ELSE "payment_conflict")
       /\ UNCHANGED <<status, paidBy, queued>>
  ELSE /\ status' = "paid"
       /\ paidBy' = e.payment
       /\ queued' = queued \cup {"completed"}
       /\ Receipt(e, "paid")

\* Mutant of SettleUnpaid: a late failure or expiry overwrites a settlement.
SettleUnpaidAlways(e, result) ==
  /\ status' = result
  /\ Receipt(e, result)
  /\ UNCHANGED <<paidBy, queued>>

(* A failed payment or an expired code; settled money is not taken back. *)
SettleUnpaid(e, result) ==
  /\ status' = IF status = "paid" THEN "paid" ELSE result
  /\ Receipt(e, result)
  /\ UNCHANGED <<paidBy, queued>>

Settle(e) ==
  /\ Bind
  /\ \/ e.type = "payment.paid" /\ SettlePaid(e)
     \/ e.type = "payment.failed" /\ SettleUnpaid(e, "failed")
     \/ e.type = "qrph.expired" /\ SettleUnpaid(e, "expired")

(* The transaction: the effects and the receipt together, once per event. *)
Apply(h) ==
  /\ handler[h] # None
  /\ handler[h].lookup # "missed"
  /\ LET e == handler[h].event
     IN  \/ receipt[e] # "none" /\ UNCHANGED <<rowVars, receipt>>
         \/ /\ receipt[e] = "none"
            /\ handler[h].lookup = "found"
            /\ Settle(e)
            /\ UNCHANGED phase
         \/ /\ receipt[e] = "none"
            /\ handler[h].lookup = "nothing"
            /\ Receipt(e, "unmatched")
            /\ UNCHANGED rowVars
  /\ handler' = [handler EXCEPT ![h] = None]
  /\ UNCHANGED <<generator, providerVars>>

HandlerDies(h) ==
  /\ handler[h] # None
  /\ handler' = [handler EXCEPT ![h] = None]
  /\ UNCHANGED <<rowVars, generator, receipt, providerVars>>

-----------------------------------------------------------------------------
(* The provider (external) *)

MakesIntent ==
  /\ "intent" \in posts
  /\ posts' = posts \ {"intent"}
  /\ intentMade' = TRUE
  /\ UNCHANGED <<rowVars, generator, webhookVars, attached, codeExpired, outcome>>

Attaches ==
  /\ "attach" \in posts
  /\ posts' = posts \ {"attach"}
  /\ attached' = TRUE
  /\ UNCHANGED <<rowVars, generator, webhookVars, intentMade, codeExpired, outcome>>

ExpiresCode ==
  /\ attached
  /\ ~codeExpired
  /\ codeExpired' = TRUE
  /\ UNCHANGED <<rowVars, generator, webhookVars, posts, intentMade, attached, outcome>>

PayerPays(p, result) ==
  /\ outcome[p] = "none"
  /\ intentMade
  /\ EarlyEvents \/ (attached /\ ~codeExpired)
  /\ outcome' = [outcome EXCEPT ![p] = result]
  /\ UNCHANGED <<rowVars, generator, webhookVars, posts, intentMade, attached, codeExpired>>

-----------------------------------------------------------------------------

GeneratorStep ==
  \/ Create
  \/ IntentAnswered
  \/ OfferEnds
  \/ MethodAnswered
  \/ AttachAnswered
  \/ GeneratorFails
  \/ GeneratorDies

WebhookStep ==
  \E h \in Handlers :
    \/ \E e \in Events : Receive(h, e)
    \/ Recover(h)
    \/ RecoverFails(h)
    \/ Apply(h)
    \/ HandlerDies(h)

ProviderStep ==
  \/ MakesIntent
  \/ Attaches
  \/ ExpiresCode
  \/ \E p \in Payments, result \in {"paid", "failed"} : PayerPays(p, result)

CheckoutNext == GeneratorStep \/ StatusRead \/ WebhookStep \/ ProviderStep

CheckoutSpec == CheckoutInit /\ [][CheckoutNext]_checkoutVars
-----------------------------------------------------------------------------
(* Properties *)

Settlements == {e \in Events : receipt[e] = "paid"}

(* Money taken by the provider is booked in four places, and they agree in
   every state: the paid status, the payment that settled, one receipt of one
   event that settled it, and the queued "completed" notification.  Repeated,
   crossed and conflicting webhooks never split them. *)
PaidIsAnnounced ==
  /\ status = "paid" <=> paidBy # None
  /\ status = "paid" <=> "completed" \in queued
  /\ status = "paid" <=> Settlements # {}
  /\ \A e, f \in Settlements : e = f
  /\ \A e \in Settlements : e.type = "payment.paid" /\ e.payment = paidBy
  /\ paidBy # None => outcome[paidBy] = "paid"

(* A code is shown only for an intent whose webhooks find the checkout, and
   only after the provider attached the code to that intent. *)
ShownCodeIsMatched ==
  status = "pending" => bound /\ phase = "complete" /\ attached

(* The generator's answers, the readers and the webhooks race for the row: a
   checkout that stopped being created is never created or shown again, a code
   that was hidden stays hidden, and paid is final with its payment. *)
OutcomeStands ==
  [][ /\ status' = "creating" => status \in {"absent", "creating"}
      /\ status' = "pending" => status \in {"creating", "pending"}
      /\ status = "paid" => UNCHANGED <<status, paidBy>>
    ]_checkoutVars

(* When payments are taken only through an attached code, no event is receipted
   as unmatched, and so lost to its checkout: the identity of the intent is
   saved before the code exists, whoever gives up on the checkout meanwhile. *)
EventsAreMatched ==
  ~EarlyEvents => \A e \in Events : receipt[e] # "unmatched"
-----------------------------------------------------------------------------
(* The inductive invariant *)

(* The identity of the intent is saved before anything can be attached. *)
BindingInv ==
  /\ generator \in {"method", "attach"} \/ "attach" \in posts \/ attached => bound
  /\ codeExpired => attached
  /\ ~EarlyEvents => \A p \in Payments : outcome[p] # "none" => attached

(* An event under way has been issued, and has found its checkout if payments
   are taken only through an attached code. *)
HandledInv ==
  \A h \in Handlers : handler[h] # None =>
    /\ Issued(handler[h].event)
    /\ ~EarlyEvents => handler[h].lookup = "found"

(* Everything a step relies on, together: what the proofs carry from state to
   state, and the reason for the four places agreeing and for events matching. *)
CheckoutInv ==
  /\ CheckoutTypeOK
  /\ PaidIsAnnounced
  /\ ShownCodeIsMatched
  /\ BindingInv
  /\ HandledInv
  /\ EventsAreMatched
=============================================================================
