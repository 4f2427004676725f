------------------------ MODULE PackagePurchaseProofs ------------------------
(***************************************************************************)
(* Theorems about PackageDeliveries for every set of senders, limit and    *)
(* bound on mishaps, and both answers of SlowSenders: DeliveriesInv is     *)
(* shown inductive, action by action.  Then theorems about                 *)
(* PackagePurchase: PurchaseInv is inductive, by the inductive invariants  *)
(* of its two parts, and the purchase implements PackageSale.              *)
(***************************************************************************)
EXTENDS PackagePurchase, PackageCheckoutProofs

(***************************************************************************)
(* The outbox                                                              *)
(***************************************************************************)
USE DeliveriesAssumption DEF Claims

(* An empty outbox satisfies every part. *)
LEMMA DeliveriesInitHolds == DeliveriesInit => DeliveriesInv
  BY DEF DeliveriesInit, DeliveriesInv, DeliveriesTypeOK, ClaimInv, LeaseInv, AnswerInv,
         DeliveredWasAccepted, Working, Absent

(* Queueing a phase that has no row preserves every part: no sender works on
   it yet. *)
LEMMA EnqueuedPreserves ==
  ASSUME DeliveriesInv, NEW ph \in Phases, Enqueued(ph)
  PROVE  DeliveriesInv'
  <1>1. DeliveriesTypeOK'
    BY DEF DeliveriesInv, DeliveriesTypeOK, Enqueued, Enqueue, Absent
  <1>2. ASSUME NEW w \in Senders, Working(w, ph)
        PROVE  FALSE
    <2>1. sender[w].token <= delivery[ph].attempts /\ delivery[ph].attempts = 0
      BY <1>2 DEF DeliveriesInv, ClaimInv, Enqueued
    <2>2. sender[w].token \in Nat \ {0}
      BY <1>2 DEF DeliveriesInv, DeliveriesTypeOK, Working
    <2>3. QED
      BY <2>1, <2>2
  <1>3. /\ \A q \in Phases : q # ph => delivery'[q] = delivery[q]
        /\ delivery'[ph] = [Absent EXCEPT !.status = "pending"]
        /\ UNCHANGED <<sender, onWire, accepted, mishaps>>
    BY DEF Enqueued, Enqueue
  <1>4. ClaimInv'
    BY <1>2, <1>3 DEF DeliveriesInv, ClaimInv, Working, Absent
  <1>5. LeaseInv' /\ AnswerInv'
    BY <1>2, <1>3 DEF DeliveriesInv, LeaseInv, AnswerInv, Working, Holds
  <1>6. DeliveredWasAccepted'
    BY <1>3 DEF DeliveriesInv, DeliveredWasAccepted, Absent
  <1>7. QED
    BY <1>1, <1>4, <1>5, <1>6 DEF DeliveriesInv

(* A claim preserves every part: it is newer than all others, and without
   lapsed leases nobody else works on the phase. *)
LEMMA ClaimPreserves ==
  ASSUME DeliveriesInv, NEW w \in Senders, NEW ph \in Phases, Claim(w, ph)
  PROVE  DeliveriesInv'
  <1> DEFINE claim == delivery[ph].attempts + 1
  <1>1. /\ delivery' = [delivery EXCEPT ![ph] =
             [status |-> "processing", attempts |-> claim, token |-> claim]]
        /\ sender' = [sender EXCEPT ![w] = [phase |-> ph, token |-> claim, result |-> "none"]]
        /\ UNCHANGED <<onWire, accepted>>
    BY DEF Claim
  <1>2. claim \in Nat \ {0}
    BY DEF DeliveriesInv, DeliveriesTypeOK
  <1>3. mishaps' \in 0 .. MishapBound
    BY DEF Claim, Claimable, Lapsed, DeliveriesInv, DeliveriesTypeOK
  <1>4. DeliveriesTypeOK'
    BY <1>1, <1>2, <1>3 DEF DeliveriesInv, DeliveriesTypeOK
  <1>5. \A v \in Senders : v # w => sender'[v] = sender[v]
    BY <1>1 DEF DeliveriesInv, DeliveriesTypeOK
  <1>6. \A q \in Phases : q # ph => delivery'[q] = delivery[q]
    BY <1>1 DEF DeliveriesInv, DeliveriesTypeOK
  <1>7. /\ sender'[w] = [phase |-> ph, token |-> claim, result |-> "none"]
        /\ delivery'[ph] = [status |-> "processing", attempts |-> claim, token |-> claim]
    BY <1>1 DEF DeliveriesInv, DeliveriesTypeOK
  <1>8. \A v \in Senders : Working(v, ph) => sender[v].token < claim
    BY <1>2 DEF DeliveriesInv, DeliveriesTypeOK, ClaimInv, Working
  <1>9. ClaimInv'
    BY <1>5, <1>6, <1>7, <1>8, <1>2 DEF DeliveriesInv, DeliveriesTypeOK, ClaimInv, Working
  <1>10. ~SlowSenders => \A v \in Senders : ~ Working(v, ph)
    BY DEF Claim, Claimable, Lapsed, DeliveriesInv, LeaseInv
  <1>11. LeaseInv'
    BY <1>5, <1>6, <1>7, <1>10 DEF DeliveriesInv, LeaseInv, Working, Holds
  <1>12. AnswerInv' /\ DeliveredWasAccepted'
    BY <1>1, <1>5, <1>6, <1>7 DEF DeliveriesInv, AnswerInv, DeliveredWasAccepted, Working
  <1>13. QED
    BY <1>4, <1>9, <1>11, <1>12 DEF DeliveriesInv

(* Sending preserves every part: it only adds the answer to a claim. *)
LEMMA SendPreserves ==
  ASSUME DeliveriesInv, NEW w \in Senders,
         SentAndAccepted(w) \/ SentAndPostponed(w) \/ SentAndRefused(w)
  PROVE  DeliveriesInv'
  <1>1. PICK result \in {"pending", "delivered", "needs_review"} :
          /\ Answered(w, result)
          /\ result = "delivered" => sender[w].phase \in accepted'
    BY DEF SentAndAccepted, SentAndPostponed, SentAndRefused
  <1>2. /\ sender[w] # NoClaim
        /\ UNCHANGED <<delivery, mishaps>>
        /\ accepted \subseteq accepted'
    BY DEF SentAndAccepted, SentAndPostponed, SentAndRefused, MayBePosted, Sending
  <1>3. accepted' \subseteq Phases /\ onWire' \subseteq Phases
    BY DEF SentAndAccepted, SentAndPostponed, SentAndRefused, MayBePosted, Sending,
           DeliveriesInv, DeliveriesTypeOK
  <1>4. DeliveriesTypeOK'
    BY <1>1, <1>2, <1>3 DEF Answered, DeliveriesInv, DeliveriesTypeOK
  <1>5. /\ \A v \in Senders : v # w => sender'[v] = sender[v]
        /\ sender'[w].phase = sender[w].phase
        /\ sender'[w].token = sender[w].token
        /\ sender'[w].result = result
    BY <1>1, <1>2 DEF Answered, DeliveriesInv, DeliveriesTypeOK
  <1>6. ClaimInv' /\ LeaseInv'
    BY <1>2, <1>5 DEF DeliveriesInv, ClaimInv, LeaseInv, Working, Holds
  <1>7. AnswerInv' /\ DeliveredWasAccepted'
    BY <1>1, <1>2, <1>5 DEF DeliveriesInv, AnswerInv, DeliveredWasAccepted, Working
  <1>8. QED
    BY <1>4, <1>6, <1>7 DEF DeliveriesInv

(* Completing preserves every part: the row ends with its own sender's answer,
   or does not change. *)
LEMMA CompletePreserves ==
  ASSUME DeliveriesInv, NEW w \in Senders, Complete(w)
  PROVE  DeliveriesInv'
  <1> DEFINE ph == sender[w].phase
  <1>1. /\ sender[w] # NoClaim
        /\ ph \in Phases
        /\ sender[w].result \in {"pending", "delivered", "needs_review"}
    BY DEF Complete, DeliveriesInv, DeliveriesTypeOK
  <1>2. /\ sender' = [sender EXCEPT ![w] = NoClaim]
        /\ UNCHANGED <<onWire, accepted, mishaps>>
    BY DEF Complete
  <1>3. \A v \in Senders : v # w => sender'[v] = sender[v]
    BY <1>2 DEF DeliveriesInv, DeliveriesTypeOK
  <1>4. sender'[w] = NoClaim
    BY <1>2 DEF DeliveriesInv, DeliveriesTypeOK
  <1>5. CASE delivery' = delivery
    <2>1. DeliveriesTypeOK'
      BY <1>2, <1>5 DEF DeliveriesInv, DeliveriesTypeOK
    <2>2. ClaimInv' /\ LeaseInv' /\ AnswerInv' /\ DeliveredWasAccepted'
      BY <1>2, <1>3, <1>4, <1>5 DEF DeliveriesInv, ClaimInv, LeaseInv, AnswerInv,
                                    DeliveredWasAccepted, Working, Holds
    <2>3. QED
      BY <2>1, <2>2 DEF DeliveriesInv
  <1>6. CASE /\ delivery[ph].status = "processing" /\ Holds(w, ph)
             /\ delivery' = [delivery EXCEPT ![ph].status = EndStatus(ph, sender[w].result),
                                             ![ph].token = 0]
    <2>1. /\ EndStatus(ph, sender[w].result) \in {"pending", "delivered", "needs_review"}
          /\ EndStatus(ph, sender[w].result) = "delivered" => ph \in accepted
      BY <1>1 DEF EndStatus, DeliveriesInv, AnswerInv, Working
    <2>2. DeliveriesTypeOK'
      BY <1>1, <1>2, <1>6, <2>1 DEF DeliveriesInv, DeliveriesTypeOK
    <2>3. /\ \A q \in Phases : q # ph => delivery'[q] = delivery[q]
          /\ delivery'[ph].status = EndStatus(ph, sender[w].result)
          /\ delivery'[ph].attempts = delivery[ph].attempts
      BY <1>1, <1>6 DEF DeliveriesInv, DeliveriesTypeOK
    <2>4. ClaimInv'
      BY <1>3, <1>4, <2>1, <2>3 DEF DeliveriesInv, ClaimInv, Working
    <2>5. ~SlowSenders => \A v \in Senders : v # w => ~ Working(v, ph)
      BY <1>1 DEF DeliveriesInv, LeaseInv, ClaimInv, Working, Holds
    <2>6. LeaseInv'
      BY <1>3, <1>4, <2>3, <2>5 DEF DeliveriesInv, LeaseInv, Working, Holds
    <2>7. AnswerInv' /\ DeliveredWasAccepted'
      BY <1>2, <1>3, <1>4, <2>1, <2>3 DEF DeliveriesInv, AnswerInv, DeliveredWasAccepted, Working
    <2>8. QED
      BY <2>2, <2>4, <2>6, <2>7 DEF DeliveriesInv
  <1>7. QED
    BY <1>5, <1>6 DEF Complete

(* A death, an operator's retry and the bridge preserve every part. *)
LEMMA MishapPreserves ==
  ASSUME DeliveriesInv,
         \/ \E w \in Senders : SenderDies(w)
         \/ \E ph \in Phases : Retry(ph) \/ BridgeAccepts(ph)
  PROVE  DeliveriesInv'
  <1>1. ASSUME NEW w \in Senders, SenderDies(w)
        PROVE  DeliveriesInv'
    <2>1. DeliveriesTypeOK'
      BY <1>1 DEF SenderDies, MayBePosted, Sending, DeliveriesInv, DeliveriesTypeOK
    <2>2. /\ \A v \in Senders : v # w => sender'[v] = sender[v]
          /\ sender'[w] = NoClaim
          /\ UNCHANGED <<delivery, accepted>>
      BY <1>1 DEF SenderDies, DeliveriesInv, DeliveriesTypeOK
    <2>3. ClaimInv' /\ LeaseInv' /\ AnswerInv' /\ DeliveredWasAccepted'
      BY <2>2 DEF DeliveriesInv, ClaimInv, LeaseInv, AnswerInv, DeliveredWasAccepted,
                  Working, Holds
    <2>4. QED
      BY <2>1, <2>3 DEF DeliveriesInv
  <1>2. ASSUME NEW ph \in Phases, Retry(ph)
        PROVE  DeliveriesInv'
    <2>1. DeliveriesTypeOK'
      BY <1>2 DEF Retry, DeliveriesInv, DeliveriesTypeOK
    <2>2. /\ \A q \in Phases : q # ph => delivery'[q] = delivery[q]
          /\ delivery'[ph].status = "pending"
          /\ delivery'[ph].attempts = delivery[ph].attempts
          /\ UNCHANGED <<sender, accepted>>
      BY <1>2 DEF Retry, DeliveriesInv, DeliveriesTypeOK
    <2>3. ~SlowSenders => \A v \in Senders : ~ Working(v, ph)
      BY <1>2 DEF Retry, DeliveriesInv, LeaseInv
    <2>4. ClaimInv' /\ LeaseInv' /\ AnswerInv' /\ DeliveredWasAccepted'
      BY <2>2, <2>3 DEF DeliveriesInv, ClaimInv, LeaseInv, AnswerInv, DeliveredWasAccepted,
                        Working, Holds
    <2>5. QED
      BY <2>1, <2>4 DEF DeliveriesInv
  <1>3. ASSUME NEW ph \in Phases, BridgeAccepts(ph)
        PROVE  DeliveriesInv'
    BY <1>3 DEF BridgeAccepts, DeliveriesInv, DeliveriesTypeOK, ClaimInv, LeaseInv, AnswerInv,
                DeliveredWasAccepted, Working, Holds
  <1>4. QED
    BY <1>1, <1>2, <1>3

(* DeliveriesInv is inductive. *)
LEMMA DeliveriesNextPreserves ==
  ASSUME DeliveriesInv, [DeliveriesNext]_deliveryVars
  PROVE  DeliveriesInv'
  <1>1. CASE \E ph \in Phases : Enqueued(ph)
    BY <1>1, EnqueuedPreserves
  <1>2. CASE \E w \in Senders : Deliver(w)
    BY <1>2, ClaimPreserves, SendPreserves, CompletePreserves, MishapPreserves DEF Deliver
  <1>3. CASE \E ph \in Phases : Retry(ph) \/ BridgeAccepts(ph)
    BY <1>3, MishapPreserves
  <1>4. CASE UNCHANGED deliveryVars
    BY <1>4 DEF deliveryVars, DeliveriesInv, DeliveriesTypeOK, ClaimInv, LeaseInv, AnswerInv,
                DeliveredWasAccepted, Working, Holds
  <1>5. QED
    BY <1>1, <1>2, <1>3, <1>4 DEF DeliveriesNext, DeliveriesStep

(* In every reachable state the outbox is typed, claims name their senders,
   and what is delivered was accepted. *)
THEOREM DeliveriesInvariant == DeliveriesSpec => []DeliveriesInv
  BY DeliveriesInitHolds, DeliveriesNextPreserves, PTL DEF DeliveriesSpec

(* Every variable keeps to its set of values. *)
THEOREM DeliveriesAreTyped == DeliveriesSpec => []DeliveriesTypeOK
  <1>1. DeliveriesInv => DeliveriesTypeOK
    BY DEF DeliveriesInv
  <1>2. QED
    BY <1>1, DeliveriesInvariant, PTL

(* A delivery shown as delivered has reached the bridge. *)
THEOREM DeliveredIsAccepted == DeliveriesSpec => []DeliveredWasAccepted
  <1>1. DeliveriesInv => DeliveredWasAccepted
    BY DEF DeliveriesInv
  <1>2. QED
    BY <1>1, DeliveriesInvariant, PTL

(* While leases outlast their senders, no phase is ever posted by two senders
   at once. *)
THEOREM OneSenderAtATime == DeliveriesSpec => []OneSenderPerPhase
  <1>1. DeliveriesInv => OneSenderPerPhase
    BY DEF DeliveriesInv, ClaimInv, LeaseInv, OneSenderPerPhase, Working, Holds
  <1>2. QED
    BY <1>1, DeliveriesInvariant, PTL

(* The status of a row changes only as its claim allows: a claim is ended by
   its holder, delivered is final, and what is left for review is moved by an
   operator alone. *)
THEOREM ClaimHoldersEnd == DeliveriesSpec => OnlyTheClaimHolderEnds
  <1> DEFINE Allowed(ph) ==
        CASE delivery[ph].status = "processing" ->
               \E w \in Senders : Holds(w, ph) /\ sender'[w] = NoClaim
          [] delivery[ph].status = "delivered" -> FALSE
          [] delivery[ph].status = "needs_review" -> UNCHANGED sender
          [] OTHER -> TRUE
  <1>1. ASSUME DeliveriesInv, DeliveriesNext, NEW ph \in Phases,
               delivery'[ph].status # delivery[ph].status
        PROVE  Allowed(ph)
    <2>1. ASSUME NEW q \in Phases, Enqueued(q)
          PROVE  Allowed(ph)
      <3>1. ph = q
        BY <1>1, <2>1 DEF Enqueued, Enqueue
      <3>2. QED
        BY <2>1, <3>1 DEF Enqueued
    <2>2. ASSUME NEW w \in Senders, NEW q \in Phases, Claim(w, q)
          PROVE  Allowed(ph)
      <3>1. ph = q /\ delivery[q].status = "pending"
        BY <1>1, <2>2 DEF Claim, Claimable, DeliveriesInv, DeliveriesTypeOK
      <3>2. QED
        BY <3>1
    <2>3. ASSUME NEW w \in Senders, Complete(w)
          PROVE  Allowed(ph)
      <3>1. /\ ph = sender[w].phase
            /\ delivery[ph].status = "processing"
            /\ Holds(w, ph)
        BY <1>1, <2>3 DEF Complete, DeliveriesInv, DeliveriesTypeOK
      <3>2. sender' = [sender EXCEPT ![w] = NoClaim]
        BY <2>3 DEF Complete
      <3>3. sender'[w] = NoClaim
        BY <1>1, <3>2 DEF DeliveriesInv, DeliveriesTypeOK
      <3>4. QED
        BY <3>1, <3>3
    <2>4. ASSUME NEW q \in Phases, Retry(q)
          PROVE  Allowed(ph)
      <3>1. ph = q
        BY <1>1, <2>4 DEF Retry, DeliveriesInv, DeliveriesTypeOK
      <3>2. QED
        BY <2>4, <3>1 DEF Retry
    <2>5. ASSUME UNCHANGED delivery
          PROVE  FALSE
      BY <1>1, <2>5
    <2>6. QED
      BY <1>1, <2>1, <2>2, <2>3, <2>4, <2>5 DEF DeliveriesNext, DeliveriesStep, Deliver,
         SentAndAccepted, SentAndPostponed, SentAndRefused, MayBePosted, SenderDies, BridgeAccepts
  <1>2. ASSUME DeliveriesInv, [DeliveriesNext]_deliveryVars
        PROVE  [\A ph \in Phases : delivery'[ph].status # delivery[ph].status => Allowed(ph)]_deliveryVars
    BY <1>1, <1>2
  <1>3. QED
    BY <1>2, DeliveriesInvariant, PTL DEF DeliveriesSpec, OnlyTheClaimHolderEnds

(* A claim is paid for by what made the row due, or by the lapse it takes. *)
LEMMA ClaimIsPaidFor ==
  ASSUME DeliveriesInv, AttemptsArePaidFor, NEW w \in Senders, NEW ph \in Phases, Claim(w, ph)
  PROVE  AttemptsArePaidFor'
  <1> DEFINE claim == delivery[ph].attempts + 1
  <1>1. /\ claim \in Nat \ {0} /\ mishaps \in Nat /\ Limit \in Nat
        /\ \A q \in Phases : delivery[q].attempts \in Nat
    BY DEF DeliveriesInv, DeliveriesTypeOK
  <1>2. /\ delivery'[ph] = [status |-> "processing", attempts |-> claim, token |-> claim]
        /\ \A q \in Phases : q # ph => delivery'[q] = delivery[q]
        /\ sender'[w] = [phase |-> ph, token |-> claim, result |-> "none"]
        /\ \A v \in Senders : v # w => sender'[v] = sender[v]
    BY DEF Claim, DeliveriesInv, DeliveriesTypeOK
  <1>3. sender'[w] # NoClaim
    BY <1>1, <1>2
  <1>4. Holds(w, ph)'
    BY <1>2, <1>3 DEF Holds, Working
  <1>5. mishaps' \in Nat /\ mishaps <= mishaps'
    BY <1>1 DEF Claim
  <1>6. claim <= Limit + mishaps'
    <2>1. CASE AnotherIsDue(ph)
      BY <1>1, <1>5, <2>1 DEF AttemptsArePaidFor
    <2>2. CASE ~ AnotherIsDue(ph)
      <3>1. mishaps' = mishaps + 1
        BY <2>2 DEF Claim, Claimable, AnotherIsDue
      <3> QED
        BY <1>1, <3>1 DEF AttemptsArePaidFor
    <2> QED
      BY <2>1, <2>2
  <1>7. \A q \in Phases : q # ph => (AnotherIsDue(q)' => AnotherIsDue(q))
    BY <1>2 DEF AnotherIsDue, Holds, Working, Claim
  <1>8. ~ AnotherIsDue(ph)'
    BY <1>2, <1>4 DEF AnotherIsDue
  <1> QED
    BY <1>1, <1>2, <1>5, <1>6, <1>7, <1>8 DEF AttemptsArePaidFor

LEMMA AttemptsStayPaidFor ==
  DeliveriesInv /\ AttemptsArePaidFor /\ [DeliveriesNext]_deliveryVars => AttemptsArePaidFor'
  <1> SUFFICES ASSUME DeliveriesInv, AttemptsArePaidFor, [DeliveriesNext]_deliveryVars
               PROVE  AttemptsArePaidFor'
    OBVIOUS
  <1>1. /\ mishaps \in Nat /\ Limit \in Nat \ {0}
        /\ \A q \in Phases : delivery[q].attempts \in Nat
    BY DEF DeliveriesInv, DeliveriesTypeOK
  <1>2. ASSUME NEW ph \in Phases, Enqueued(ph)
        PROVE  AttemptsArePaidFor'
    <2>1. /\ delivery'[ph].attempts = 0
          /\ \A q \in Phases : q # ph => delivery'[q] = delivery[q]
          /\ sender' = sender /\ mishaps' = mishaps
      BY <1>2 DEF Enqueued, Enqueue, Absent
    <2> QED
      BY <1>1, <2>1 DEF AttemptsArePaidFor, AnotherIsDue, Holds, Working
  <1>3. ASSUME NEW w \in Senders, SentAndAccepted(w) \/ SentAndPostponed(w) \/ SentAndRefused(w)
        PROVE  AttemptsArePaidFor'
    <2>1. PICK result \in {"pending", "delivered", "needs_review"} :
            sender' = [sender EXCEPT ![w].result = result]
      BY <1>3 DEF SentAndAccepted, SentAndPostponed, SentAndRefused, Answered
    <2>2. sender[w] \in Claims /\ delivery' = delivery /\ mishaps' = mishaps
      BY <1>3 DEF SentAndAccepted, SentAndPostponed, SentAndRefused, MayBePosted, Sending, DeliveriesInv,
                  DeliveriesTypeOK
    <2>3. /\ sender'[w] # NoClaim
          /\ sender'[w].phase = sender[w].phase /\ sender'[w].token = sender[w].token
          /\ \A v \in Senders : v # w => sender'[v] = sender[v]
      BY <2>1, <2>2 DEF DeliveriesInv, DeliveriesTypeOK
    <2>4. \A v \in Senders, ph \in Phases : Holds(v, ph) => Holds(v, ph)'
      BY <2>2, <2>3 DEF Holds, Working
    <2> QED
      BY <2>2, <2>4 DEF AttemptsArePaidFor, AnotherIsDue
  <1>4. ASSUME NEW w \in Senders, Complete(w)
        PROVE  AttemptsArePaidFor'
    <2>0. PICK ph \in Phases : ph = sender[w].phase
      BY <1>4 DEF Complete, DeliveriesInv, DeliveriesTypeOK
    <2>1. /\ mishaps' = mishaps
          /\ \A v \in Senders : v # w => sender'[v] = sender[v]
          /\ \A q \in Phases : /\ q # ph => delivery'[q] = delivery[q]
                               /\ delivery'[q].attempts = delivery[q].attempts
      BY <1>4, <2>0 DEF Complete, DeliveriesInv, DeliveriesTypeOK
    <2>2. \A q \in Phases : q # ph => (AnotherIsDue(q)' => AnotherIsDue(q))
      <3> SUFFICES ASSUME NEW q \in Phases, q # ph, AnotherIsDue(q)'
                   PROVE  AnotherIsDue(q)
        OBVIOUS
      <3>1. ~ Holds(w, q)
        BY <2>0 DEF Holds, Working
      <3>2. \A v \in Senders : v # w => (Holds(v, q) => Holds(v, q)')
        BY <2>1 DEF Holds, Working
      <3> QED
        BY <2>1, <3>1, <3>2 DEF AnotherIsDue
    <2>3. AnotherIsDue(ph)' => AnotherIsDue(ph) \/ delivery[ph].attempts < Limit
      <3>1. CASE delivery[ph].status = "processing" /\ Holds(w, ph)
        <4>1. delivery'[ph].status = EndStatus(ph, sender[w].result)
          BY <1>4, <2>0, <3>1 DEF Complete, DeliveriesInv, DeliveriesTypeOK
        <4>2. sender[w].result \in {"pending", "delivered", "needs_review"}
          BY <1>4 DEF Complete, DeliveriesInv, DeliveriesTypeOK
        <4> QED
          BY <1>1, <2>1, <4>1, <4>2 DEF EndStatus, AnotherIsDue
      <3>2. CASE ~ (delivery[ph].status = "processing" /\ Holds(w, ph))
        <4>1. delivery' = delivery
          BY <1>4, <2>0, <3>2 DEF Complete
        <4>2. \A v \in Senders : v # w => (Holds(v, ph) => Holds(v, ph)')
          BY <2>1, <4>1 DEF Holds, Working
        <4> QED
          BY <3>2, <4>1, <4>2 DEF AnotherIsDue
      <3> QED
        BY <3>1, <3>2
    <2> QED
      BY <1>1, <2>1, <2>2, <2>3 DEF AttemptsArePaidFor
  <1>5. ASSUME NEW w \in Senders, SenderDies(w)
        PROVE  AttemptsArePaidFor'
    <2>1. delivery' = delivery /\ mishaps' = mishaps + 1
      BY <1>5 DEF SenderDies
    <2> QED
      BY <1>1, <2>1 DEF AttemptsArePaidFor
  <1>6. ASSUME NEW ph \in Phases, Retry(ph)
        PROVE  AttemptsArePaidFor'
    <2>1. /\ \A q \in Phases : delivery'[q].attempts = delivery[q].attempts
          /\ mishaps' = mishaps + 1
      BY <1>6 DEF Retry, DeliveriesInv, DeliveriesTypeOK
    <2> QED
      BY <1>1, <2>1 DEF AttemptsArePaidFor
  <1>7. ASSUME NEW ph \in Phases, BridgeAccepts(ph)
        PROVE  AttemptsArePaidFor'
    BY <1>7 DEF BridgeAccepts, AttemptsArePaidFor, AnotherIsDue, Holds, Working
  <1>8. CASE UNCHANGED deliveryVars
    BY <1>8 DEF deliveryVars, AttemptsArePaidFor, AnotherIsDue, Holds, Working
  <1> QED
    BY <1>2, <1>3, <1>4, <1>5, <1>6, <1>7, <1>8, ClaimIsPaidFor
    DEF DeliveriesNext, DeliveriesStep, Deliver

(* Every attempt beyond the limit is paid for by a death, a lapse or a retry. *)
THEOREM AttemptsAreAlwaysPaidFor == DeliveriesSpec => []AttemptsArePaidFor
  <1>1. DeliveriesInit => AttemptsArePaidFor
    BY DEF DeliveriesInit, AttemptsArePaidFor, AnotherIsDue, Absent
  <1> QED
    BY <1>1, AttemptsStayPaidFor, DeliveriesInvariant, PTL DEF DeliveriesSpec

(***************************************************************************)
(* The purchase                                                            *)
(***************************************************************************)
(* The initial state satisfies the invariant and is one of the sale's. *)
LEMMA InitHolds == Init => PurchaseInv /\ Sale!SaleInit
  <1> SUFFICES ASSUME Init
               PROVE  PurchaseInv /\ Sale!SaleInit
    OBVIOUS
  <1>1. CheckoutInv /\ DeliveriesInv
    BY CheckoutInitHolds, DeliveriesInitHolds DEF Init
  <1>2. ReservedInv /\ OutboxInv
    BY DEF Init, CheckoutInit, DeliveriesInit, ReservedInv, OutboxInv, Absent, Phases
  <1>3. Sale!SaleInit
    BY DEF Init, CheckoutInit, DeliveriesInit, Sale!SaleInit
  <1>4. QED
    BY <1>1, <1>2, <1>3 DEF PurchaseInv

(* What a checkout step may queue: the pending phase with the reservation, the
   completed phase with the settlement, and otherwise nothing. *)
LEMMA WhatIsQueued ==
  ASSUME CheckoutInv, ReservedInv, CheckoutNext
  PROVE  \/ /\ status = "absent" /\ status' = "creating" /\ UNCHANGED paidBy
            /\ queued' = {"pending"}
         \/ /\ status \notin {"absent", "paid"} /\ status' = "paid" /\ paidBy' \in Payments
            /\ queued' = queued \cup {"completed"}
         \/ /\ status # "absent" /\ status' # "absent"
            /\ status = "paid" <=> status' = "paid"
            /\ UNCHANGED <<paidBy, queued>>
         \/ UNCHANGED <<status, paidBy, queued>>
  <1>1. CASE GeneratorStep \/ StatusRead
    BY <1>1 DEF GeneratorStep, Create, IntentAnswered, OfferEnds, MethodAnswered,
                AttachAnswered, GeneratorFails, GeneratorDies, StatusRead, Advance, rowVars
  <1>2. CASE ProviderStep
    BY <1>2 DEF ProviderStep, MakesIntent, Attaches, ExpiresCode, PayerPays, rowVars
  <1>3. CASE WebhookStep
    <2>1. PICK h \in Handlers : \/ \E e \in Events : Receive(h, e)
                                \/ Recover(h) \/ RecoverFails(h) \/ Apply(h) \/ HandlerDies(h)
      BY <1>3 DEF WebhookStep
    <2>2. CASE (\E e \in Events : Receive(h, e)) \/ Recover(h) \/ RecoverFails(h) \/ HandlerDies(h)
      BY <2>2 DEF Receive, Recover, RecoverFails, HandlerDies, rowVars
    <2>3. CASE Apply(h)
      <3> DEFINE e == handler[h].event
      <3>1. e \in Events /\ handler[h] # None
        BY <2>3 DEF Apply, CheckoutInv, CheckoutTypeOK
      <3>2. CASE UNCHANGED rowVars
        BY <3>2 DEF rowVars
      <3>3. CASE handler[h].lookup = "found" /\ Settle(e)
        <4>0. status # "absent"
          BY <3>1, <3>3 DEF ReservedInv
        <4>1. CASE e.type = "payment.paid" /\ SettlePaid(e)
          BY <3>1, <4>0, <4>1 DEF SettlePaid, Events
        <4>2. ASSUME NEW result \in {"failed", "expired"}, SettleUnpaid(e, result)
              PROVE  UNCHANGED <<paidBy, queued>> /\ (status = "paid" <=> status' = "paid")
                     /\ status' # "absent"
          BY <4>2 DEF SettleUnpaid
        <4>3. QED
          BY <3>3, <4>0, <4>1, <4>2 DEF Settle
      <3>4. QED
        BY <2>3, <3>2, <3>3 DEF Apply
    <2>4. QED
      BY <2>1, <2>2, <2>3
  <1>4. QED
    BY <1>1, <1>2, <1>3 DEF CheckoutNext

(* A checkout with no row before the step has none found after it either. *)
LEMMA ReservedPreserved ==
  ASSUME CheckoutInv, ReservedInv, [CheckoutNext]_checkoutVars
  PROVE  ReservedInv'
  <1> USE DEF ReservedInv
  <1>1. CASE GeneratorStep \/ StatusRead
    BY <1>1 DEF GeneratorStep, Create, IntentAnswered, OfferEnds, MethodAnswered,
                AttachAnswered, GeneratorFails, GeneratorDies, StatusRead, Advance,
                rowVars, webhookVars
  <1>2. CASE ProviderStep
    BY <1>2 DEF ProviderStep, MakesIntent, Attaches, ExpiresCode, PayerPays, rowVars, webhookVars
  <1>3. CASE WebhookStep
    <2> SUFFICES ASSUME status' = "absent"
                 PROVE  ~bound' /\ \A g \in Handlers : handler'[g] # None => handler'[g].lookup # "found"
      OBVIOUS
    <2>1. PICK h \in Handlers : \/ \E e \in Events : Receive(h, e)
                                \/ Recover(h) \/ RecoverFails(h) \/ Apply(h) \/ HandlerDies(h)
      BY <1>3 DEF WebhookStep
    <2>2. status = "absent"
      BY <2>1 DEF Receive, Recover, RecoverFails, Apply, HandlerDies, Settle, SettlePaid,
                  SettleUnpaid, rowVars
    <2>3. ~bound'
      BY <2>1, <2>2 DEF Receive, Recover, RecoverFails, Apply, HandlerDies, rowVars
    <2>4. handler'[h] # None => handler'[h].lookup # "found"
      BY <2>1, <2>2 DEF Receive, Recover, RecoverFails, Apply, HandlerDies, Recoverable,
                        CheckoutInv, CheckoutTypeOK
    <2>5. \A g \in Handlers : g # h => handler'[g] = handler[g]
      BY <2>1 DEF Receive, Recover, RecoverFails, Apply, HandlerDies, CheckoutInv, CheckoutTypeOK
    <2>6. QED
      BY <2>2, <2>3, <2>4, <2>5
  <1>4. CASE UNCHANGED checkoutVars
    BY <1>4 DEF checkoutVars, rowVars, webhookVars
  <1>5. QED
    BY <1>1, <1>2, <1>3, <1>4 DEF CheckoutNext

(* A checkout step queues at most one phase, which has no row yet: for the
   outbox it is the queueing of one phase, or nothing. *)
LEMMA CheckoutStepQueues ==
  ASSUME PurchaseInv, CheckoutStep
  PROVE  [DeliveriesNext]_deliveryVars /\ OutboxInv'
  <1> USE DEF PurchaseInv
  <1>1. /\ \A ph \in Phases : delivery'[ph] = IF ph \in queued' \ queued
                                              THEN [Absent EXCEPT !.status = "pending"]
                                              ELSE delivery[ph]
        /\ UNCHANGED <<sender, onWire, accepted, mishaps>>
    BY DEF CheckoutStep, Enqueue
  <1>2. /\ status = "absent" => queued = {}
        /\ status # "paid" => "completed" \notin queued
    BY DEF CheckoutInv, CheckoutTypeOK, PaidIsAnnounced, OutboxInv
  <1>3. \/ queued' = queued
        \/ \E ph \in Phases : ph \notin queued /\ queued' = queued \cup {ph}
    BY <1>2, WhatIsQueued DEF CheckoutStep, Phases
  <1>4. "pending" \in queued' => status' # "absent"
    BY <1>2, WhatIsQueued DEF CheckoutStep, OutboxInv
  <1>5. CASE queued' = queued
    <2>1. delivery' = delivery
      BY <1>5 DEF CheckoutStep, Enqueue, DeliveriesInv, DeliveriesTypeOK
    <2>2. QED
      BY <1>1, <1>4, <1>5, <2>1 DEF OutboxInv, deliveryVars
  <1>6. ASSUME NEW ph \in Phases, ph \notin queued, queued' = queued \cup {ph}
        PROVE  Enqueued(ph) /\ OutboxInv'
    <2>1. queued' \ queued = {ph} /\ delivery[ph].status = "absent"
      BY <1>6 DEF OutboxInv
    <2>2. Enqueued(ph)
      BY <2>1 DEF CheckoutStep, Enqueued
    <2>3. QED
      BY <1>1, <1>4, <1>6, <2>1, <2>2 DEF OutboxInv, Absent
  <1>7. QED
    BY <1>3, <1>5, <1>6 DEF DeliveriesNext

(* Only phases with a row reach the bridge, and rows do not vanish. *)
LEMMA DeliveriesStepKeeps ==
  ASSUME PurchaseInv, DeliveriesStep, UNCHANGED checkoutVars
  PROVE  OutboxInv' /\ accepted \subseteq accepted' /\ accepted' \subseteq queued
  <1> USE DEF PurchaseInv
  <1>1. UNCHANGED <<status, queued>>
    BY DEF checkoutVars, rowVars
  <1>2. \A w \in Senders : sender[w] # NoClaim => sender[w].phase \in queued
    <2> SUFFICES ASSUME NEW w \in Senders, sender[w] # NoClaim
                 PROVE  sender[w].phase \in queued
      OBVIOUS
    <2> DEFINE ph == sender[w].phase
    <2>1. ph \in Phases /\ sender[w].token \in Nat \ {0}
      BY DEF DeliveriesInv, DeliveriesTypeOK
    <2>2. sender[w].token <= delivery[ph].attempts
      BY <2>1 DEF DeliveriesInv, ClaimInv, Working
    <2>3. delivery[ph].attempts # 0
      BY <2>1, <2>2 DEF DeliveriesInv, DeliveriesTypeOK
    <2>4. delivery[ph].status # "absent"
      BY <2>1, <2>3 DEF DeliveriesInv, ClaimInv
    <2>5. QED
      BY <2>1, <2>4 DEF OutboxInv
  <1>3. onWire' \cup accepted' \subseteq queued /\ accepted \subseteq accepted'
    BY <1>2 DEF DeliveriesStep, Deliver, Claim, SentAndAccepted, SentAndPostponed,
                SentAndRefused, MayBePosted, Complete, SenderDies, Retry, BridgeAccepts, Sending, OutboxInv
  <1>4. \A ph \in Phases : delivery'[ph].status = "absent" <=> delivery[ph].status = "absent"
    <2>1. ASSUME NEW w \in Senders, NEW q \in Phases, Claim(w, q)
          PROVE  \A ph \in Phases : delivery'[ph].status = "absent" <=> delivery[ph].status = "absent"
      BY <2>1 DEF Claim, Claimable, DeliveriesInv, DeliveriesTypeOK
    <2>2. ASSUME NEW w \in Senders, Complete(w)
          PROVE  \A ph \in Phases : delivery'[ph].status = "absent" <=> delivery[ph].status = "absent"
      BY <2>2 DEF Complete, EndStatus, DeliveriesInv, DeliveriesTypeOK
    <2>3. ASSUME NEW q \in Phases, Retry(q)
          PROVE  \A ph \in Phases : delivery'[ph].status = "absent" <=> delivery[ph].status = "absent"
      BY <2>3 DEF Retry, DeliveriesInv, DeliveriesTypeOK
    <2>4. QED
      BY <2>1, <2>2, <2>3 DEF DeliveriesStep, Deliver, SentAndAccepted, SentAndPostponed,
                              SentAndRefused, MayBePosted, SenderDies, BridgeAccepts
  <1>5. QED
    BY <1>1, <1>3, <1>4 DEF OutboxInv

(* PurchaseInv is inductive. *)
LEMMA NextPreserves ==
  ASSUME PurchaseInv, [Next]_vars
  PROVE  PurchaseInv'
  <1>1. [CheckoutNext]_checkoutVars
    BY DEF Next, CheckoutStep, vars
  <1>2. CheckoutInv' /\ ReservedInv'
    BY <1>1, CheckoutNextPreserves, ReservedPreserved DEF PurchaseInv
  <1>3. CASE CheckoutStep
    BY <1>2, <1>3, CheckoutStepQueues, DeliveriesNextPreserves DEF PurchaseInv
  <1>4. CASE DeliveriesStep /\ UNCHANGED checkoutVars
    <2>1. OutboxInv'
      BY <1>4, DeliveriesStepKeeps
    <2>2. DeliveriesInv'
      BY <1>4, DeliveriesNextPreserves DEF PurchaseInv, DeliveriesNext
    <2>3. QED
      BY <1>2, <2>1, <2>2 DEF PurchaseInv
  <1>5. CASE UNCHANGED vars
    <2>1. OutboxInv'
      BY <1>5 DEF vars, checkoutVars, rowVars, deliveryVars, PurchaseInv, OutboxInv
    <2>2. DeliveriesInv'
      BY <1>5, DeliveriesNextPreserves DEF vars, PurchaseInv
    <2>3. QED
      BY <1>2, <2>1, <2>2 DEF PurchaseInv
  <1>6. QED
    BY <1>3, <1>4, <1>5 DEF Next

(* In every reachable state of a purchase both parts satisfy their invariants
   and the outbox holds what the checkout has queued. *)
THEOREM PurchaseInvariant == Spec => []PurchaseInv
  BY InitHolds, NextPreserves, PTL DEF Spec

(* A purchase is a checkout and an outbox, each by its own specification: what
   is proved of a part alone holds of it in the purchase. *)
THEOREM PartsImplemented == Spec => CheckoutSpec /\ DeliveriesSpec
  <1>1. Init => CheckoutInit /\ DeliveriesInit
    BY DEF Init
  <1>2. ASSUME PurchaseInv, [Next]_vars
        PROVE  [CheckoutNext]_checkoutVars /\ [DeliveriesNext]_deliveryVars
    BY <1>2, CheckoutStepQueues DEF Next, CheckoutStep, vars, DeliveriesNext
  <1>3. QED
    BY <1>1, <1>2, PurchaseInvariant, PTL DEF Spec, CheckoutSpec, DeliveriesSpec

(* Every step of a purchase is a step of the sale, or none. *)
LEMMA NextMaps ==
  ASSUME PurchaseInv, [Next]_vars
  PROVE  [Sale!SaleNext]_(Sale!saleVars)
  <1> USE DEF Sale!SaleNext, Sale!saleVars
  <1>1. CASE CheckoutStep
    <2>1. accepted' = accepted
      BY <1>1 DEF CheckoutStep, Enqueue
    <2>2. QED
      BY <1>1, <2>1, WhatIsQueued DEF CheckoutStep, PurchaseInv, Sale!Open, Sale!SettleBy
  <1>2. CASE DeliveriesStep /\ UNCHANGED checkoutVars
    <2>1. UNCHANGED <<status, paidBy>>
      BY <1>2 DEF checkoutVars, rowVars
    <2>2. accepted' = accepted \/ \E ph \in accepted' : accepted' = accepted \cup {ph}
      BY <1>2 DEF DeliveriesStep, Deliver, Claim, SentAndAccepted, SentAndPostponed,
                  SentAndRefused, MayBePosted, Complete, SenderDies, Retry, BridgeAccepts
    <2>3. CASE accepted' = accepted
      BY <2>1, <2>3
    <2>4. ASSUME NEW ph \in accepted', accepted' = accepted \cup {ph}
          PROVE  Sale!Tell(ph) /\ ph \in {"pending", "completed"}
      <3>1. ph \in queued
        BY <1>2, DeliveriesStepKeeps
      <3>2. ph = "pending" => status # "absent"
        BY <3>1 DEF PurchaseInv, OutboxInv
      <3>3. ph = "completed" => status = "paid"
        BY <3>1 DEF PurchaseInv, CheckoutInv, PaidIsAnnounced
      <3>4. ph \in {"pending", "completed"}
        BY <3>1 DEF PurchaseInv, CheckoutInv, CheckoutTypeOK
      <3>5. QED
        BY <2>1, <2>4, <3>2, <3>3, <3>4 DEF Sale!Tell
    <2>5. QED
      BY <2>2, <2>3, <2>4
  <1>3. CASE UNCHANGED vars
    BY <1>3 DEF vars, checkoutVars, rowVars, deliveryVars
  <1>4. QED
    BY <1>1, <1>2, <1>3 DEF Next

(* The shop is told of a completed sale only once one payment has settled it,
   and that payment stays: the checkout and its outbox implement the sale. *)
THEOREM SaleImplemented == Spec => ImplementsSale
  <1>1. Init => Sale!SaleInit
    BY InitHolds
  <1>2. QED
    BY <1>1, PurchaseInvariant, NextMaps, PTL DEF Spec, ImplementsSale, Sale!SaleSpec
=============================================================================
