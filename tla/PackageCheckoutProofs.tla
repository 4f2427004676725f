------------------------ MODULE PackageCheckoutProofs ------------------------
(***************************************************************************)
(* Theorems about PackageCheckout for every set of payments, event copies  *)
(* and handlers, and both answers of EarlyEvents.  CheckoutInv is shown    *)
(* inductive: first its type part, then the other parts for the generator  *)
(* and the readers, for the webhooks, and for the provider.                *)
(***************************************************************************)
EXTENDS PackageCheckout, TLAPS

USE CheckoutAssumption

-----------------------------------------------------------------------------
(* Type correctness *)

(* Before its first request a checkout is typed and satisfies every part. *)
LEMMA CheckoutInitHolds == CheckoutInit => CheckoutInv
  BY DEF CheckoutInit, CheckoutInv, CheckoutTypeOK, PaidIsAnnounced, Settlements,
         ShownCodeIsMatched, BindingInv, HandledInv, EventsAreMatched, Statuses,
         CreationPhases, Outcomes, Events

(* The generator and the readers keep the state typed. *)
LEMMA GeneratorTyped ==
  ASSUME CheckoutTypeOK, GeneratorStep \/ StatusRead
  PROVE  CheckoutTypeOK'
  <1> USE DEF CheckoutTypeOK, Statuses, CreationPhases, rowVars, webhookVars,
              providerVars, Advance
  <1>1. CASE Create
    BY <1>1 DEF Create
  <1>2. CASE IntentAnswered
    BY <1>2 DEF IntentAnswered
  <1>3. CASE OfferEnds
    BY <1>3 DEF OfferEnds
  <1>4. CASE MethodAnswered
    BY <1>4 DEF MethodAnswered
  <1>5. CASE AttachAnswered
    BY <1>5 DEF AttachAnswered
  <1>6. CASE GeneratorFails
    BY <1>6 DEF GeneratorFails
  <1>7. CASE GeneratorDies
    BY <1>7 DEF GeneratorDies
  <1>8. CASE StatusRead
    BY <1>8 DEF StatusRead
  <1>9. QED
    BY <1>1, <1>2, <1>3, <1>4, <1>5, <1>6, <1>7, <1>8 DEF GeneratorStep

(* What a settlement writes is typed. *)
LEMMA SettleTyped ==
  ASSUME CheckoutTypeOK, NEW e \in Events, Settle(e)
  PROVE  /\ status' \in Statuses \cup {"absent"} /\ bound' \in BOOLEAN
         /\ paidBy' \in Payments \cup {None} /\ queued' \subseteq {"pending", "completed"}
         /\ receipt' \in [Events -> Outcomes \cup {"none"}]
  <1> USE DEF CheckoutTypeOK, Statuses, Outcomes, Receipt
  <1>1. bound' \in BOOLEAN
    BY DEF Settle, Bind
  <1>2. CASE e.type = "payment.paid" /\ SettlePaid(e)
    <2>1. e.payment \in Payments
      BY <1>2 DEF Events
    <2>2. QED
      BY <1>1, <1>2, <2>1 DEF SettlePaid
  <1>3. ASSUME NEW result \in {"failed", "expired"}, SettleUnpaid(e, result)
        PROVE  /\ status' \in Statuses \cup {"absent"}
               /\ paidBy' \in Payments \cup {None} /\ queued' \subseteq {"pending", "completed"}
               /\ receipt' \in [Events -> Outcomes \cup {"none"}]
    BY <1>3 DEF SettleUnpaid
  <1>4. QED
    BY <1>1, <1>2, <1>3 DEF Settle

(* The handling of a webhook keeps the state typed. *)
LEMMA WebhookTyped ==
  ASSUME CheckoutTypeOK, WebhookStep
  PROVE  CheckoutTypeOK'
  <1> USE DEF CheckoutTypeOK, rowVars, providerVars
  <1>1. PICK h \in Handlers : \/ \E e \in Events : Receive(h, e)
                              \/ Recover(h) \/ RecoverFails(h) \/ Apply(h) \/ HandlerDies(h)
    BY DEF WebhookStep
  <1>2. CASE \E e \in Events : Receive(h, e)
    BY <1>2 DEF Receive
  <1>3. CASE Recover(h)
    BY <1>3 DEF Recover
  <1>4. CASE RecoverFails(h) \/ HandlerDies(h)
    BY <1>4 DEF RecoverFails, HandlerDies
  <1>5. CASE Apply(h)
    <2>1. handler[h].event \in Events
      BY <1>5 DEF Apply
    <2>2. CASE Settle(handler[h].event) /\ UNCHANGED phase
      BY <1>5, <2>1, <2>2, SettleTyped DEF Apply
    <2>3. CASE Receipt(handler[h].event, "unmatched") /\ UNCHANGED rowVars
      BY <1>5, <2>1, <2>3 DEF Apply, Receipt, Outcomes
    <2>4. CASE UNCHANGED <<rowVars, receipt>>
      BY <1>5, <2>4 DEF Apply
    <2>5. QED
      BY <1>5, <2>2, <2>3, <2>4 DEF Apply
  <1>6. QED
    BY <1>1, <1>2, <1>3, <1>4, <1>5

(* The provider's steps keep the state typed. *)
LEMMA ProviderTyped ==
  ASSUME CheckoutTypeOK, ProviderStep
  PROVE  CheckoutTypeOK'
  BY DEF CheckoutTypeOK, ProviderStep, MakesIntent, Attaches, ExpiresCode, PayerPays,
         rowVars, webhookVars

-----------------------------------------------------------------------------
(* The other parts of the invariant *)

(* The generator and the readers never touch what has been paid. *)
LEMMA GeneratorPreserves ==
  ASSUME CheckoutInv, GeneratorStep \/ StatusRead
  PROVE  CheckoutInv'
  <1>1. CheckoutTypeOK'
    BY GeneratorTyped DEF CheckoutInv
  <1>2. UNCHANGED <<paidBy, receipt, handler, intentMade, attached, codeExpired, outcome>>
    BY DEF GeneratorStep, Create, IntentAnswered, OfferEnds, MethodAnswered, AttachAnswered,
           GeneratorFails, GeneratorDies, StatusRead, Advance, rowVars, webhookVars, providerVars
  <1>3. /\ status = "paid" <=> status' = "paid"
        /\ "completed" \in queued <=> "completed" \in queued'
    BY DEF GeneratorStep, Create, IntentAnswered, OfferEnds, MethodAnswered, AttachAnswered,
           GeneratorFails, GeneratorDies, StatusRead, Advance, rowVars, providerVars,
           CheckoutInv, PaidIsAnnounced, CheckoutTypeOK
  <1>4. PaidIsAnnounced'
    BY <1>2, <1>3 DEF CheckoutInv, PaidIsAnnounced, Settlements
  <1>5. BindingInv'
    BY <1>2 DEF CheckoutInv, CheckoutTypeOK, BindingInv, GeneratorStep, Create, IntentAnswered,
                OfferEnds, MethodAnswered, AttachAnswered, GeneratorFails, GeneratorDies,
                StatusRead, Advance, rowVars, providerVars
  <1>6. ShownCodeIsMatched'
    BY <1>2 DEF CheckoutInv, BindingInv, ShownCodeIsMatched, GeneratorStep, Create,
                IntentAnswered, OfferEnds, MethodAnswered, AttachAnswered, GeneratorFails,
                GeneratorDies, StatusRead, Advance, rowVars
  <1>7. HandledInv' /\ EventsAreMatched'
    BY <1>2 DEF CheckoutInv, HandledInv, EventsAreMatched, Issued
  <1>8. QED
    BY <1>1, <1>4, <1>5, <1>6, <1>7 DEF CheckoutInv

(* The transaction that settles an event keeps the four places agreeing. *)
LEMMA SettlePreserves ==
  ASSUME CheckoutInv, NEW e \in Events, receipt[e] = "none", Issued(e), Settle(e),
         UNCHANGED <<phase, outcome, attached>>
  PROVE  PaidIsAnnounced' /\ ShownCodeIsMatched'
  <1> USE DEF CheckoutInv, CheckoutTypeOK, Receipt
  <1>1. bound => bound'
    BY DEF Settle, Bind
  <1>2. CASE e.type = "payment.paid" /\ SettlePaid(e) /\ status = "paid"
    <2>1. Settlements' = Settlements
      BY <1>2 DEF SettlePaid, Settlements
    <2>2. QED
      BY <1>1, <1>2, <2>1 DEF SettlePaid, PaidIsAnnounced, ShownCodeIsMatched
  <1>3. CASE e.type = "payment.paid" /\ SettlePaid(e) /\ status # "paid"
    <2>1. Settlements' = {e}
      BY <1>3 DEF SettlePaid, Settlements, PaidIsAnnounced
    <2>2. e.payment \in Payments /\ outcome[e.payment] = "paid"
      BY <1>3 DEF Events, Issued
    <2>3. QED
      BY <1>3, <2>1, <2>2 DEF SettlePaid, PaidIsAnnounced, ShownCodeIsMatched
  <1>4. ASSUME NEW result \in {"failed", "expired"}, SettleUnpaid(e, result)
        PROVE  PaidIsAnnounced' /\ ShownCodeIsMatched'
    <2>1. Settlements' = Settlements
      BY <1>4 DEF SettleUnpaid, Settlements
    <2>2. QED
      BY <1>1, <1>4, <2>1 DEF SettleUnpaid, PaidIsAnnounced, ShownCodeIsMatched
  <1>5. QED
    BY <1>2, <1>3, <1>4 DEF Settle

(* The handling of a webhook preserves every part. *)
LEMMA WebhookPreserves ==
  ASSUME CheckoutInv, WebhookStep
  PROVE  CheckoutInv'
  <1>1. CheckoutTypeOK'
    BY WebhookTyped DEF CheckoutInv
  <1>2. PICK h \in Handlers : \/ \E e \in Events : Receive(h, e)
                              \/ Recover(h) \/ RecoverFails(h) \/ Apply(h) \/ HandlerDies(h)
    BY DEF WebhookStep
  <1>3. UNCHANGED <<generator, providerVars>>
    BY <1>2 DEF Receive, Recover, RecoverFails, Apply, HandlerDies
  <1>4. bound => bound'
    BY <1>2 DEF Receive, Recover, RecoverFails, Apply, HandlerDies, Settle, Bind, rowVars
  <1>5. BindingInv'
    BY <1>3, <1>4 DEF CheckoutInv, BindingInv, providerVars
  <1>6. CASE \E e \in Events : Receive(h, e)
    <2>1. PICK e \in Events : Receive(h, e)
      BY <1>6
    <2>2. UNCHANGED <<rowVars, receipt>>
      BY <2>1 DEF Receive
    <2>3. PaidIsAnnounced' /\ ShownCodeIsMatched' /\ EventsAreMatched'
      BY <1>3, <2>2 DEF CheckoutInv, PaidIsAnnounced, Settlements, ShownCodeIsMatched,
                        EventsAreMatched, rowVars, providerVars
    <2>4. ~EarlyEvents => bound
      BY <2>1 DEF Receive, Issued, Events, CheckoutInv, CheckoutTypeOK, BindingInv
    <2>5. HandledInv'
      BY <1>3, <2>1, <2>4 DEF Receive, CheckoutInv, CheckoutTypeOK, HandledInv, Issued, providerVars
    <2>6. QED
      BY <1>1, <1>5, <2>3, <2>5 DEF CheckoutInv
  <1>7. CASE Recover(h) \/ RecoverFails(h) \/ HandlerDies(h)
    <2>1. UNCHANGED <<rowVars, receipt>>
      BY <1>7 DEF Recover, RecoverFails, HandlerDies
    <2>2. PaidIsAnnounced' /\ ShownCodeIsMatched' /\ EventsAreMatched'
      BY <1>3, <2>1 DEF CheckoutInv, PaidIsAnnounced, Settlements, ShownCodeIsMatched,
                        EventsAreMatched, rowVars, providerVars
    <2>3. HandledInv'
      BY <1>3, <1>7 DEF Recover, RecoverFails, HandlerDies, CheckoutInv, CheckoutTypeOK,
                        HandledInv, Issued, providerVars
    <2>4. QED
      BY <1>1, <1>5, <2>2, <2>3 DEF CheckoutInv
  <1>8. CASE Apply(h)
    <2> DEFINE e == handler[h].event
    <2>1. e \in Events /\ Issued(e)
      BY <1>8 DEF Apply, CheckoutInv, CheckoutTypeOK, HandledInv
    <2>2. HandledInv'
      BY <1>3, <1>8 DEF Apply, CheckoutInv, CheckoutTypeOK, HandledInv, Issued, providerVars
    <2>3. CASE receipt[e] # "none" /\ UNCHANGED <<rowVars, receipt>>
      <3>1. PaidIsAnnounced' /\ ShownCodeIsMatched' /\ EventsAreMatched'
        BY <1>3, <2>3 DEF CheckoutInv, PaidIsAnnounced, Settlements, ShownCodeIsMatched,
                          EventsAreMatched, rowVars, providerVars
      <3>2. QED
        BY <1>1, <1>5, <2>2, <3>1 DEF CheckoutInv
    <2>4. CASE receipt[e] = "none" /\ Settle(e) /\ UNCHANGED phase
      <3>1. PaidIsAnnounced' /\ ShownCodeIsMatched'
        BY <1>3, <2>1, <2>4, SettlePreserves DEF providerVars
      <3>2. \A f \in Events : receipt'[f] = "unmatched" => receipt[f] = "unmatched"
        BY <2>1, <2>4 DEF Settle, SettlePaid, SettleUnpaid, Receipt, CheckoutInv, CheckoutTypeOK
      <3>3. EventsAreMatched'
        BY <3>2 DEF CheckoutInv, EventsAreMatched
      <3>4. QED
        BY <1>1, <1>5, <2>2, <3>1, <3>3 DEF CheckoutInv
    <2>5. CASE /\ receipt[e] = "none" /\ handler[h].lookup = "nothing"
               /\ Receipt(e, "unmatched") /\ UNCHANGED rowVars
      <3>1. EarlyEvents
        BY <1>8, <2>5 DEF Apply, CheckoutInv, HandledInv
      <3>2. Settlements' = Settlements
        BY <2>1, <2>5 DEF Receipt, Settlements, CheckoutInv, CheckoutTypeOK
      <3>3. PaidIsAnnounced' /\ ShownCodeIsMatched' /\ EventsAreMatched'
        BY <1>3, <2>5, <3>1, <3>2 DEF CheckoutInv, PaidIsAnnounced, ShownCodeIsMatched,
                                      EventsAreMatched, rowVars, providerVars
      <3>4. QED
        BY <1>1, <1>5, <2>2, <3>3 DEF CheckoutInv
    <2>6. QED
      BY <1>8, <2>3, <2>4, <2>5 DEF Apply
  <1>9. QED
    BY <1>2, <1>6, <1>7, <1>8

(* What the provider does is behind what the checkout has recorded. *)
LEMMA ProviderPreserves ==
  ASSUME CheckoutInv, ProviderStep
  PROVE  CheckoutInv'
  <1>1. CheckoutTypeOK'
    BY ProviderTyped DEF CheckoutInv
  <1>2. UNCHANGED <<rowVars, generator, webhookVars>>
    BY DEF ProviderStep, MakesIntent, Attaches, ExpiresCode, PayerPays
  <1>3. /\ \A p \in Payments : outcome[p] # "none" => outcome'[p] = outcome[p]
        /\ codeExpired => codeExpired'
        /\ attached => attached'
    BY DEF ProviderStep, MakesIntent, Attaches, ExpiresCode, PayerPays, CheckoutInv, CheckoutTypeOK
  <1>4. PaidIsAnnounced' /\ ShownCodeIsMatched' /\ EventsAreMatched'
    BY <1>2, <1>3 DEF CheckoutInv, CheckoutTypeOK, PaidIsAnnounced, Settlements,
                      ShownCodeIsMatched, EventsAreMatched, rowVars, webhookVars
  <1>5. BindingInv'
    BY <1>2 DEF ProviderStep, MakesIntent, Attaches, ExpiresCode, PayerPays, CheckoutInv,
                CheckoutTypeOK, BindingInv, rowVars
  <1>6. ASSUME NEW e \in Events, Issued(e)
        PROVE  Issued(e)'
    BY <1>3, <1>6 DEF Issued, Events
  <1>7. HandledInv'
    BY <1>2, <1>6 DEF CheckoutInv, CheckoutTypeOK, HandledInv, webhookVars
  <1>8. QED
    BY <1>1, <1>4, <1>5, <1>7 DEF CheckoutInv

(* CheckoutInv is inductive. *)
LEMMA CheckoutNextPreserves ==
  ASSUME CheckoutInv, [CheckoutNext]_checkoutVars
  PROVE  CheckoutInv'
  <1>1. CASE GeneratorStep \/ StatusRead
    BY <1>1, GeneratorPreserves
  <1>2. CASE WebhookStep
    BY <1>2, WebhookPreserves
  <1>3. CASE ProviderStep
    BY <1>3, ProviderPreserves
  <1>4. CASE UNCHANGED checkoutVars
    BY <1>4 DEF checkoutVars, rowVars, webhookVars, providerVars, CheckoutInv, CheckoutTypeOK,
                PaidIsAnnounced, Settlements, ShownCodeIsMatched, BindingInv, HandledInv,
                EventsAreMatched, Issued
  <1>5. QED
    BY <1>1, <1>2, <1>3, <1>4 DEF CheckoutNext

(* In every reachable state the checkout is typed, the four places that book
   a payment agree, a shown code is matched, and so is every event. *)
THEOREM CheckoutInvariant == CheckoutSpec => []CheckoutInv
  BY CheckoutInitHolds, CheckoutNextPreserves, PTL DEF CheckoutSpec

(* Every variable keeps to its set of values. *)
THEOREM CheckoutIsTyped == CheckoutSpec => []CheckoutTypeOK
  <1>1. CheckoutInv => CheckoutTypeOK
    BY DEF CheckoutInv
  <1>2. QED
    BY <1>1, CheckoutInvariant, PTL

(* The status, the payment, the receipts and the outbox never disagree about
   whether, and by which payment, the checkout was paid. *)
THEOREM PaidIsAlwaysAnnounced == CheckoutSpec => []PaidIsAnnounced
  <1>1. CheckoutInv => PaidIsAnnounced
    BY DEF CheckoutInv
  <1>2. QED
    BY <1>1, CheckoutInvariant, PTL

(* A code is only ever shown for an attached and matched intent. *)
THEOREM ShownCodeIsAlwaysMatched == CheckoutSpec => []ShownCodeIsMatched
  <1>1. CheckoutInv => ShownCodeIsMatched
    BY DEF CheckoutInv
  <1>2. QED
    BY <1>1, CheckoutInvariant, PTL

(* When payments need an attached code, no signed event is ever lost to its
   checkout. *)
THEOREM EventsAreAlwaysMatched == CheckoutSpec => []EventsAreMatched
  <1>1. CheckoutInv => EventsAreMatched
    BY DEF CheckoutInv
  <1>2. QED
    BY <1>1, CheckoutInvariant, PTL

(* No answer of the provider, no reader and no webhook ever reopens a checkout
   or changes what has been paid. *)
THEOREM OutcomesStand == CheckoutSpec => OutcomeStands
  <1> DEFINE Step == /\ status' = "creating" => status \in {"absent", "creating"}
                     /\ status' = "pending" => status \in {"creating", "pending"}
                     /\ status = "paid" => UNCHANGED <<status, paidBy>>
  <1>1. ASSUME CheckoutInv, [CheckoutNext]_checkoutVars
        PROVE  [Step]_checkoutVars
    <2>1. CASE GeneratorStep \/ StatusRead
      BY <2>1 DEF GeneratorStep, Create, IntentAnswered, OfferEnds, MethodAnswered,
                  AttachAnswered, GeneratorFails, GeneratorDies, StatusRead, Advance, rowVars
    <2>2. CASE WebhookStep
      BY <2>2 DEF WebhookStep, Receive, Recover, RecoverFails, Apply, HandlerDies, Settle,
                  SettlePaid, SettleUnpaid, rowVars
    <2>3. CASE ProviderStep
      BY <2>3 DEF ProviderStep, MakesIntent, Attaches, ExpiresCode, PayerPays, rowVars
    <2>4. QED
      BY <1>1, <2>1, <2>2, <2>3 DEF CheckoutNext
  <1>2. QED
    BY <1>1, CheckoutInvariant, PTL DEF CheckoutSpec, OutcomeStands
=============================================================================
