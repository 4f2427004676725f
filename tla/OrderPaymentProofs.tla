-------------------------- MODULE OrderPaymentProofs ------------------------
(***************************************************************************)
(* Theorems about OrderPayment for every set of attempts, sessions,        *)
(* commands and event copies, every bound on reviews, and both answers of  *)
(* ExpiresWhileProcessing, CancelAllowed and ClockSkew.                    *)
(*                                                                         *)
(* Each invariant is proved action by action.  PaymentInv is inductive as  *)
(* a whole; its parts are shown preserved in lemmas of their own, each     *)
(* from the parts it needs.                                                *)
(***************************************************************************)
EXTENDS OrderPayment, TLAPS

USE ProviderAssumption, PaymentAssumption

-----------------------------------------------------------------------------
(* Type correctness *)

(* The initial state is typed: an open, unreviewed order with no rows. *)
LEMMA InitTyped == Init => TypeOK
  BY DEF Init, TypeOK, ProviderInit, ProviderTypeOK, Statuses, Approvals, Payments,
         Fulfillments, Events, AttemptStates, CreatorStates, WorkerStates

(* Provider steps keep the provider's variables typed. *)
LEMMA ProviderTyped ==
  ASSUME ProviderTypeOK, ProviderNext
  PROVE  ProviderTypeOK'
  BY DEF ProviderTypeOK, ProviderNext, ProviderCreates, ProviderExpires,
         ProviderRefusesExpiry, SessionLapses, PayerSubmits, PaymentResolves

(* A review keeps the state typed. *)
LEMMA ReviewTyped ==
  ASSUME TypeOK, NEW next \in Approvals, Review(next)
  PROVE  TypeOK'
  BY DEF Review, TypeOK, ProviderTypeOK, attemptVars, controlVars, eventVars,
         processVars, providerVars

(* The steps that create an attempt and its session keep the state typed. *)
LEMMA CreationTyped ==
  ASSUME TypeOK, NEW a \in Attempts, StartPayment(a) \/ Creating(a)
  PROVE  TypeOK'
  <1> USE DEF TypeOK, ProviderTypeOK, orderVars, orderAxes, attemptVars, controlVars,
              eventVars, processVars, providerVars, CreatorStates, AttemptStates
  <1>1. CASE StartPayment(a)
    BY <1>1 DEF StartPayment, Payments
  <1>2. CASE CreateSend(a)
    BY <1>2 DEF CreateSend
  <1>3. CASE \E s \in Sessions : CreateAnswered(a, s) \/ CreateFetched(a, s)
    BY <1>3 DEF CreateAnswered, CreateFetched
  <1>4. CASE CreateFails(a)
    BY <1>4 DEF CreateFails
  <1>5. CASE CreateSaved(a)
    BY <1>5 DEF CreateSaved
  <1>6. CASE CreatorDies(a)
    BY <1>6 DEF CreatorDies
  <1>7. QED
    BY <1>1, <1>2, <1>3, <1>4, <1>5, <1>6 DEF Creating

(* What apply() writes is typed. *)
LEMMA ApplyTyped ==
  ASSUME TypeOK, NEW s \in Sessions, NEW a \in Attempts, Apply(s, a)
  PROVE  /\ revision' \in Nat /\ payment' \in Payments
         /\ UNCHANGED <<status, approval, fulfillment, current>>
         /\ attemptState' \in [Attempts -> AttemptStates \cup {"absent"}]
         /\ attemptSession' \in [Attempts -> Sessions \cup {None}]
         /\ settlement' \in [Attempts -> Sessions \cup {None}]
  BY DEF Apply, Settle, TypeOK, Payments, AttemptStates, orderVars, orderAxes, attemptVars

(* The steps on signed evidence keep the state typed. *)
LEMMA EvidenceTyped ==
  ASSUME TypeOK, NEW e \in Events, Evidence(e)
  PROVE  TypeOK'
  <1> USE DEF TypeOK, ProviderTypeOK, orderVars, orderAxes, attemptVars, controlVars,
              eventVars, processVars, providerVars
  <1>0. e[1] \in Sessions
    BY DEF Events
  <1>1. ASSUME NEW a \in Attempts, ReceiveApplied(e, a)
        PROVE  TypeOK'
    BY <1>0, <1>1, ApplyTyped DEF ReceiveApplied
  <1>2. ASSUME NEW a \in Attempts, ReceiveRejected(e, a)
        PROVE  TypeOK'
    BY <1>2 DEF ReceiveRejected
  <1>3. ASSUME NEW a \in Attempts, ReconcileRead(e, a)
        PROVE  TypeOK'
    BY <1>3 DEF ReconcileRead
  <1>4. ASSUME NEW a \in Attempts, ReconcileCommit(e, a)
        PROVE  TypeOK'
    BY <1>0, <1>4, ApplyTyped DEF ReconcileCommit
  <1>5. CASE ReconcileAborts(e)
    BY <1>5 DEF ReconcileAborts
  <1>6. QED
    BY <1>1, <1>2, <1>3, <1>4, <1>5 DEF Evidence

(* A stored command is a typed row, whichever request made it. *)
LEMMA RequestTyped ==
  ASSUME TypeOK, NEW c \in Controls, NEW action \in Actions,
         NEW effective \in Actions \ {"verify"}, NEW session \in Sessions \cup {None},
         Request(c, action, effective, session)
  PROVE  TypeOK'
  <1> DEFINE row == [action |-> action, effective |-> effective, attempt |-> current,
                     session |-> session, reserved |-> revision + 1]
  <1>1. current \in Attempts /\ session \in Sessions /\ revision + 1 \in Nat
    BY DEF Request, Requestable, TypeOK
  <1>2. row \in ControlRows /\ row.attempt \in Attempts /\ row.session \in Sessions
    BY <1>1 DEF ControlRows
  <1> HIDE DEF row
  <1>3. /\ control' = [control EXCEPT ![c] = row]
        /\ controlState' = [controlState EXCEPT ![c] = "pending"]
        /\ worker' = [worker EXCEPT ![c] = "fetch"]
    BY DEF Request, Requestable, row
  <1>4. /\ control' \in [Controls -> ControlRows \cup {None}]
        /\ controlState' \in
             [Controls -> {"absent", "pending", "unknown", "blocked", "confirmed"}]
        /\ worker' \in [Controls -> WorkerStates]
    BY <1>2, <1>3 DEF TypeOK, WorkerStates
  <1>5. \A d \in Controls : controlState'[d] # "absent" => control'[d] \in ControlRows
    BY <1>2, <1>3 DEF TypeOK
  <1>6. \A d \in Controls : worker'[d] # "idle" =>
          /\ controlState'[d] # "absent"
          /\ control'[d].attempt \in Attempts
          /\ control'[d].session \in Sessions
    BY <1>2, <1>3 DEF TypeOK
  <1>7. QED
    BY <1>1, <1>4, <1>5, <1>6
       DEF Request, Requestable, TypeOK, ProviderTypeOK, AttemptStates, orderAxes, eventVars, providerVars

(* The rows of a local cancellation and of every other request are typed. *)
LEMMA RequestsTyped ==
  ASSUME TypeOK, NEW c \in Controls, Requests(c)
  PROVE  TypeOK'
  <1>1. CASE CancelLocally(c)
    <2> DEFINE row == [action |-> "cancel", effective |-> "cancel", attempt |-> None,
                       session |-> None, reserved |-> revision + 1]
    <2>1. row \in ControlRows
      BY DEF TypeOK, ControlRows, Actions
    <2> HIDE DEF row
    <2>2. /\ control' = [control EXCEPT ![c] = row]
          /\ controlState' = [controlState EXCEPT ![c] = "confirmed"]
          /\ worker' = worker
      BY <1>1 DEF CancelLocally, row, processVars
    <2>3. controlState[c] = "absent"
      BY <1>1 DEF CancelLocally
    <2>4. /\ control' \in [Controls -> ControlRows \cup {None}]
          /\ controlState' \in
               [Controls -> {"absent", "pending", "unknown", "blocked", "confirmed"}]
          /\ \A d \in Controls : controlState'[d] # "absent" => control'[d] \in ControlRows
      BY <2>1, <2>2 DEF TypeOK
    <2>5. worker[c] = "idle"
      BY <2>3 DEF TypeOK
    <2>6. \A d \in Controls : worker'[d] # "idle" =>
            /\ controlState'[d] # "absent"
            /\ control'[d].attempt \in Attempts
            /\ control'[d].session \in Sessions
      BY <2>2, <2>5 DEF TypeOK
    <2>7. QED
      BY <1>1, <2>4, <2>6 DEF CancelLocally, TypeOK, ProviderTypeOK, Statuses,
         Fulfillments, attemptVars, eventVars, processVars, providerVars
  <1>2. CASE RequestCancel(c)
    BY <1>2, RequestTyped DEF RequestCancel, TypeOK, Actions
  <1>3. CASE RequestExpire(c)
    BY <1>3, RequestTyped DEF RequestExpire, TypeOK, Actions
  <1>4. ASSUME NEW t \in Controls, RequestExpireOf(c, t)
        PROVE  TypeOK'
    BY <1>4, RequestTyped DEF RequestExpireOf, Target, TypeOK, ControlRows, Actions
  <1>5. ASSUME NEW t \in Controls, RequestVerify(c, t)
        PROVE  TypeOK'
    BY <1>5, RequestTyped DEF RequestVerify, Target, TypeOK, ControlRows, Actions
  <1>6. ASSUME NEW s \in Sessions, RequestRecover(c, s)
        PROVE  TypeOK'
    BY <1>6, RequestTyped DEF RequestRecover, Actions
  <1>7. QED
    BY <1>1, <1>2, <1>3, <1>4, <1>5, <1>6 DEF Requests

(* The steps of a control's dispatch keep the state typed. *)
LEMMA DispatchTyped ==
  ASSUME TypeOK, NEW c \in Controls, Dispatch(c)
  PROVE  TypeOK'
  <1> USE DEF TypeOK, ProviderTypeOK, orderVars, orderAxes, attemptVars, controlVars,
              eventVars, processVars, providerVars
  <1>1. ASSUME NEW next \in WorkerStates, WorkerReads(c, next)
        PROVE  TypeOK'
    BY <1>1 DEF WorkerReads
  <1>2. CASE WorkerReadFails(c)
    BY <1>2 DEF WorkerReadFails, WorkerStates
  <1>3. CASE WorkerAuthorizes(c)
    BY <1>3 DEF WorkerAuthorizes, WorkerStates
  <1>4. CASE WorkerDenied(c)
    BY <1>4 DEF WorkerDenied, WorkerStates
  <1>5. CASE WorkerSends(c)
    BY <1>5 DEF WorkerSends, WorkerStates
  <1>6. CASE WorkerMarks(c)
    BY <1>6 DEF WorkerMarks, WorkerStates
  <1>7. CASE FinishActive(c)
    <2>1. control[c].session \in Sessions /\ current \in Attempts
      BY <1>7 DEF FinishActive, StillReserved
    <2>2. QED
      BY <1>7, <2>1 DEF FinishActive, WorkerStates, AttemptStates
  <1>8. CASE FinishExpired(c)
    <2>1. control[c].session \in Sessions /\ current \in Attempts
      BY <1>8 DEF FinishExpired, StillReserved
    <2>2. QED
      BY <1>8, <2>1 DEF FinishExpired, WorkerStates, AttemptStates, Statuses, Payments,
                        Fulfillments
  <1>9. CASE WorkerDies(c)
    BY <1>9 DEF WorkerDies, WorkerStates
  <1>10. QED
    BY <1>1, <1>2, <1>3, <1>4, <1>5, <1>6, <1>7, <1>8, <1>9 DEF Dispatch

(* Every step keeps the state typed. *)
LEMMA NextTyped ==
  ASSUME TypeOK, [Next]_vars
  PROVE  TypeOK'
  <1>1. ASSUME NEW next \in Approvals, Review(next)
        PROVE  TypeOK'
    BY <1>1, ReviewTyped
  <1>2. ASSUME NEW a \in Attempts, StartPayment(a) \/ Creating(a)
        PROVE  TypeOK'
    BY <1>2, CreationTyped
  <1>3. ASSUME NEW e \in Events, Evidence(e)
        PROVE  TypeOK'
    BY <1>3, EvidenceTyped
  <1>4. ASSUME NEW c \in Controls, Requests(c) \/ Dispatch(c)
        PROVE  TypeOK'
    BY <1>4, RequestsTyped, DispatchTyped
  <1>5. CASE Provider
    <2>1. ProviderTypeOK'
      BY <1>5, ProviderTyped DEF Provider, TypeOK
    <2>2. QED
      BY <1>5, <2>1 DEF Provider, TypeOK, orderVars, orderAxes, attemptVars, controlVars,
                        eventVars, processVars
  <1>6. CASE UNCHANGED vars
    BY <1>6 DEF vars, TypeOK, ProviderTypeOK, orderVars, orderAxes, attemptVars,
                controlVars, eventVars, processVars, providerVars
  <1>7. QED
    BY <1>1, <1>2, <1>3, <1>4, <1>5, <1>6 DEF Next, Settling

(* Every reachable state is typed: whatever sequence of requests, answers,
   webhooks and crashes led there, no row and no process has a value outside
   its column's range, and a running dispatch has a stored command with an
   attempt and a session. *)
THEOREM TypeCorrect == Spec => []TypeOK
  <1>1. QED
    BY InitTyped, NextTyped, PTL DEF Spec

-----------------------------------------------------------------------------
(* The inductive invariant *)

(* No row, no session: the invariant holds initially. *)
LEMMA InitInv == Init => PaymentInv
  <1>1. SUFFICES ASSUME Init PROVE PaymentInv
    OBVIOUS
  <1>2. TypeOK
    BY <1>1, InitTyped
  <1>3. PointerInv /\ CreationInv /\ BindingInv /\ RetirementInv /\ SettlementInv
    BY <1>1 DEF Init, ProviderInit, PointerInv, CreationInv, BindingInv, RetirementInv,
                SettlementInv, Created
  <1>4. DispatchInv
    BY <1>1 DEF Init, DispatchInv
  <1>5. QED
    BY <1>2, <1>3, <1>4 DEF PaymentInv

(* A review touches an order without an attempt, and only its approval. *)
LEMMA ReviewKeeps ==
  ASSUME PaymentInv, TypeOK', NEW next \in Approvals, Review(next)
  PROVE  PaymentInv'
  BY DEF Review, PaymentInv, PointerInv, CreationInv, BindingInv, RetirementInv,
         SettlementInv, DispatchInv, Dead, Closing, Captured, Created, attemptVars,
         controlVars, eventVars, processVars, providerVars

(* Reserving an attempt and dispatching its creation: the attempt is fresh,
   its POST leaves once, and a late answer writes nothing over what others
   have decided. *)
LEMMA CreationKeeps ==
  ASSUME PaymentInv, TypeOK', NEW a \in Attempts, StartPayment(a) \/ Creating(a)
  PROVE  PaymentInv'
  <1> USE DEF PaymentInv, TypeOK, ProviderTypeOK, PointerInv, CreationInv, BindingInv,
              RetirementInv, SettlementInv, DispatchInv, Dead, Closing, Captured, Created,
              orderVars, orderAxes, attemptVars, controlVars, eventVars, providerVars
  <1>1. CASE StartPayment(a)
    BY <1>1 DEF StartPayment, Eligible
  <1>2. CASE CreateSend(a)
    BY <1>2 DEF CreateSend
  <1>3. ASSUME NEW s \in Sessions, CreateAnswered(a, s)
        PROVE  PaymentInv'
    BY <1>3 DEF CreateAnswered, Updatable
  <1>4. ASSUME NEW s \in Sessions, CreateFetched(a, s)
        PROVE  PaymentInv'
    BY <1>4 DEF CreateFetched
  <1>5. CASE CreateFails(a)
    BY <1>5 DEF CreateFails
  <1>6. CASE CreateSaved(a)
    BY <1>6 DEF CreateSaved, Updatable
  <1>7. CASE CreatorDies(a)
    BY <1>7 DEF CreatorDies
  <1>8. QED
    BY <1>1, <1>2, <1>3, <1>4, <1>5, <1>6, <1>7 DEF Creating

(* apply() on verified evidence settles the attempt the order points at, with
   the only session that attempt has, or repeats a settlement. *)
LEMMA ApplyKeeps ==
  ASSUME PaymentInv, TypeOK', NEW s \in Sessions, NEW a \in Attempts,
         Verified(s, a), Apply(s, a), UNCHANGED <<controlVars, processVars, providerVars>>
  PROVE  PaymentInv'
  <1> USE DEF PaymentInv, controlVars, processVars, providerVars
  <1>1. CASE settlement[a] = s /\ UNCHANGED <<orderVars, attemptVars>>
    BY <1>1 DEF PointerInv, CreationInv, BindingInv, RetirementInv, SettlementInv,
                DispatchInv, Dead, Closing, Captured, Created, orderVars, orderAxes,
                attemptVars
  <1>2. CASE settlement[a] = None /\ Settleable(a) /\ Settle(s, a)
    <2>1. PointerInv'
      BY <1>2 DEF TypeOK, PointerInv, Settleable, Settle
    <2>2. CreationInv'
      BY <1>2 DEF TypeOK, CreationInv, Created, Settleable, Settle
    <2>3. BindingInv'
      BY <1>2 DEF TypeOK, BindingInv, Verified, Settle
    <2>4. RetirementInv'
      BY <1>2 DEF TypeOK, RetirementInv, Dead, Settle
    <2>5. SettlementInv'
      BY <1>2 DEF TypeOK, SettlementInv, Captured, Created, Verified, Settle
    <2>6. DispatchInv'
      BY <1>2 DEF TypeOK, DispatchInv, Dead, Closing, Settleable, Settle
    <2>7. QED
      BY <2>1, <2>2, <2>3, <2>4, <2>5, <2>6
  <1>3. QED
    BY <1>1, <1>2 DEF Apply

(* Receipts and reconciliations change the payment only through apply(). *)
LEMMA EvidenceKeeps ==
  ASSUME PaymentInv, TypeOK', NEW e \in Events, Evidence(e)
  PROVE  PaymentInv'
  <1> USE DEF PaymentInv, PointerInv, CreationInv, BindingInv, RetirementInv,
              SettlementInv, DispatchInv, Dead, Closing, Captured, Created, orderVars,
              orderAxes, attemptVars, controlVars, processVars, providerVars
  <1>0. e[1] \in Sessions
    BY DEF Events
  <1>1. ASSUME NEW a \in Attempts, ReceiveApplied(e, a) \/ ReconcileCommit(e, a)
        PROVE  PaymentInv'
    <2>1. /\ Verified(e[1], a) /\ Apply(e[1], a)
          /\ UNCHANGED <<controlVars, processVars, providerVars>>
      BY <1>1 DEF ReceiveApplied, ReconcileCommit
    <2>2. QED
      BY <1>0, <2>1, ApplyKeeps
  <1>2. ASSUME NEW a \in Attempts, ReceiveRejected(e, a)
        PROVE  PaymentInv'
    BY <1>2 DEF ReceiveRejected
  <1>3. ASSUME NEW a \in Attempts, ReconcileRead(e, a)
        PROVE  PaymentInv'
    BY <1>3 DEF ReconcileRead
  <1>4. CASE ReconcileAborts(e)
    BY <1>4 DEF ReconcileAborts
  <1>5. QED
    BY <1>1, <1>2, <1>3, <1>4 DEF Evidence

(* A request of any kind closes the current attempt and stores a command that
   has proved nothing yet. *)
LEMMA RequestKeeps ==
  ASSUME PaymentInv, TypeOK', NEW c \in Controls, NEW action, NEW effective, NEW session,
         Request(c, action, effective, session)
  PROVE  PaymentInv'
  BY DEF Request, Requestable, Controllable, PaymentInv, TypeOK, ProviderTypeOK, PointerInv, CreationInv,
         BindingInv, RetirementInv, SettlementInv, DispatchInv, Dead, Closing, Captured,
         Created, orderAxes, eventVars, providerVars

(* The only request that is not a Request is the local cancellation, which
   needs an order without an attempt. *)
LEMMA RequestsKeep ==
  ASSUME PaymentInv, TypeOK', NEW c \in Controls, Requests(c)
  PROVE  PaymentInv'
  <1>1. CASE CancelLocally(c)
    BY <1>1 DEF CancelLocally, Controllable, PaymentInv, TypeOK, ProviderTypeOK, PointerInv,
       CreationInv, BindingInv, RetirementInv, SettlementInv, DispatchInv, Dead, Closing,
       Captured, Created, attemptVars, eventVars, processVars, providerVars
  <1>2. CASE ~ CancelLocally(c)
    <2>1. \E action, effective, session : Request(c, action, effective, session)
      BY <1>2 DEF Requests, RequestCancel, RequestExpire, RequestExpireOf, RequestVerify,
                  RequestRecover
    <2>2. QED
      BY <2>1, RequestKeeps
  <1>3. QED
    BY <1>1, <1>2

(* A dispatch acts on what it has read only if that cannot have changed: an
   expired session without a payment stays that way, and a session is made
   for one attempt for ever. *)
LEMMA DispatchKeeps ==
  ASSUME PaymentInv, TypeOK', NEW c \in Controls, Dispatch(c)
  PROVE  PaymentInv'
  <1> USE DEF PaymentInv, TypeOK, ProviderTypeOK, PointerInv, CreationInv, BindingInv,
              RetirementInv, SettlementInv, DispatchInv, Dead, Closing, Captured, Created,
              orderVars, orderAxes, attemptVars, controlVars, eventVars, providerVars
  <1>1. ASSUME NEW next \in WorkerStates, WorkerReads(c, next)
        PROVE  PaymentInv'
    <2>1. worker' = [worker EXCEPT ![c] = next]
          /\ UNCHANGED <<orderVars, attemptVars, controlVars, eventVars, creator,
                         providerVars>>
      BY <1>1 DEF WorkerReads
    <2>2. next = "finishExpired" =>
            /\ sessionRef[control[c].session] = control[c].attempt
            /\ Dead(control[c].session)
      BY <1>1 DEF WorkerReads, ReadLeadsTo, Closable
    <2>3. next = "finishActive" =>
            /\ control[c].effective = "recover"
            /\ sessionRef[control[c].session] = control[c].attempt
      BY <1>1 DEF WorkerReads, ReadLeadsTo, Closable, ControlRows, Actions
    <2>4. DispatchInv'
      BY <2>1, <2>2, <2>3
    <2>5. QED
      BY <2>1, <2>4
  <1>2. CASE WorkerReadFails(c)
    BY <1>2 DEF WorkerReadFails
  <1>3. CASE WorkerAuthorizes(c)
    BY <1>3 DEF WorkerAuthorizes
  <1>4. CASE WorkerDenied(c)
    BY <1>4 DEF WorkerDenied
  <1>5. CASE WorkerSends(c)
    BY <1>5 DEF WorkerSends
  <1>6. CASE WorkerMarks(c)
    BY <1>6 DEF WorkerMarks
  <1>7. CASE FinishActive(c)
    BY <1>7 DEF FinishActive, StillReserved
  <1>8. CASE FinishExpired(c)
    BY <1>8 DEF FinishExpired, StillReserved
  <1>9. CASE WorkerDies(c)
    BY <1>9 DEF WorkerDies
  <1>10. QED
    BY <1>1, <1>2, <1>3, <1>4, <1>5, <1>6, <1>7, <1>8, <1>9 DEF Dispatch

(* Nothing the provider or the payer does revives a retired session or gives
   an attempt a second one. *)
LEMMA ProviderKeeps ==
  ASSUME PaymentInv, TypeOK', Provider
  PROVE  PaymentInv'
  <1> USE DEF PaymentInv, TypeOK, ProviderTypeOK, PointerInv, CreationInv, BindingInv,
              RetirementInv, SettlementInv, DispatchInv, Dead, Closing, Captured, Created,
              orderVars, orderAxes, attemptVars, controlVars, eventVars, processVars
  <1>0. UNCHANGED <<orderVars, attemptVars, controlVars, eventVars, processVars>>
    BY DEF Provider
  <1>1. ASSUME NEW a \in Attempts, NEW s \in Sessions, ProviderCreates(a, s)
        PROVE  PaymentInv'
    BY <1>0, <1>1 DEF ProviderCreates
  <1>2. ASSUME NEW s \in Sessions, ProviderExpires(s)
        PROVE  PaymentInv'
    BY <1>0, <1>2 DEF ProviderExpires, Expirable
  <1>3. ASSUME NEW s \in Sessions, ProviderRefusesExpiry(s)
        PROVE  PaymentInv'
    BY <1>0, <1>3 DEF ProviderRefusesExpiry
  <1>4. ASSUME NEW s \in Sessions, SessionLapses(s)
        PROVE  PaymentInv'
    BY <1>0, <1>4 DEF SessionLapses, Expirable
  <1>5. ASSUME NEW s \in Sessions, PayerSubmits(s)
        PROVE  PaymentInv'
    BY <1>0, <1>5 DEF PayerSubmits
  <1>6. ASSUME NEW s \in Sessions, NEW outcome \in {"paid", "failed"},
               PaymentResolves(s, outcome)
        PROVE  PaymentInv'
    BY <1>0, <1>6 DEF PaymentResolves
  <1>7. QED
    BY <1>1, <1>2, <1>3, <1>4, <1>5, <1>6 DEF Provider, ProviderNext

(* Every step preserves the invariant. *)
LEMMA NextKeeps ==
  ASSUME PaymentInv, [Next]_vars
  PROVE  PaymentInv'
  <1>0. TypeOK'
    BY NextTyped DEF PaymentInv
  <1>1. CASE \E next \in Approvals : Review(next)
    BY <1>0, <1>1, ReviewKeeps
  <1>2. CASE \E a \in Attempts : StartPayment(a) \/ Creating(a)
    BY <1>0, <1>2, CreationKeeps
  <1>3. CASE \E e \in Events : Evidence(e)
    BY <1>0, <1>3, EvidenceKeeps
  <1>4. CASE \E c \in Controls : Requests(c) \/ Dispatch(c)
    BY <1>0, <1>4, RequestsKeep, DispatchKeeps
  <1>5. CASE Provider
    BY <1>0, <1>5, ProviderKeeps
  <1>6. CASE UNCHANGED vars
    BY <1>0, <1>6 DEF PaymentInv, PointerInv, CreationInv, BindingInv, RetirementInv,
       SettlementInv, DispatchInv, Dead, Closing, Captured, Created, vars, orderVars,
       orderAxes, attemptVars, controlVars, eventVars, processVars, providerVars
  <1>7. QED
    BY <1>1, <1>2, <1>3, <1>4, <1>5, <1>6 DEF Next, Settling

(* The protocol's invariant: the order's pointer, its attempts, their
   sessions, the settlements and the dispatches under way agree in every
   reachable state. *)
THEOREM Invariant == Spec => []PaymentInv
  <1>1. QED
    BY InitInv, NextKeeps, PTL DEF Spec

-----------------------------------------------------------------------------
(* What the invariant gives *)

(* A chargeable session is the current attempt's, of a pending or paid order. *)
LEMMA ChargeableIsCurrent ==
  ASSUME PaymentInv, NEW s \in Sessions, Chargeable(s)
  PROVE  /\ sessionRef[s] = current /\ current \in Attempts
         /\ payment \in {"pending", "paid"} /\ status = "open"
  <1>1. sessionRef[s] \in Attempts
    BY DEF PaymentInv, TypeOK, ProviderTypeOK, Chargeable, Created
  <1>2. attemptState[sessionRef[s]] # "absent"
    BY <1>1 DEF PaymentInv, CreationInv
  <1>3. attemptState[sessionRef[s]] # "expired"
    BY <1>1 DEF PaymentInv, RetirementInv, Dead, Chargeable
  <1>4. sessionRef[s] = current
    BY <1>1, <1>2, <1>3 DEF PaymentInv, PointerInv
  <1>5. QED
    BY <1>1, <1>4 DEF PaymentInv, PointerInv

(* Two chargeable sessions are one, none is chargeable while another is being
   created, and a session is being created only for the pending attempt. *)
LEMMA InvGivesOneWayToPay == PaymentInv => OneWayToPay
  <1> SUFFICES ASSUME PaymentInv PROVE OneWayToPay
    OBVIOUS
  <1>1. \A s, t \in Sessions : Chargeable(s) /\ Chargeable(t) => s = t
    BY ChargeableIsCurrent DEF PaymentInv, CreationInv, Chargeable
  <1>2. ASSUME NEW a \in createPosts
        PROVE  a = current /\ payment = "pending"
    <2>1. a \in Attempts
      BY <1>2 DEF PaymentInv, TypeOK, ProviderTypeOK
    <2>2. attemptState[a] \notin {"absent", "expired"}
      BY <1>2, <2>1 DEF PaymentInv, CreationInv, RetirementInv
    <2>3. a = current
      BY <2>1, <2>2 DEF PaymentInv, PointerInv
    <2>4. attemptState[a] # "paid"
      BY <1>2, <2>1 DEF PaymentInv, TypeOK, CreationInv, SettlementInv
    <2>5. QED
      BY <2>1, <2>3, <2>4 DEF PaymentInv, PointerInv, ProviderAssumption
  <1>3. ASSUME NEW s \in Sessions, Chargeable(s)
        PROVE  createPosts = {}
    BY <1>2, <1>3, ChargeableIsCurrent DEF PaymentInv, TypeOK, ProviderTypeOK, CreationInv
  <1>4. QED
    BY <1>1, <1>2, <1>3, ChargeableIsCurrent DEF OneWayToPay

(* In every reachable state there is at most one way to take the payer's
   money, and it is the one the order is waiting for: a session replaced,
   retired or created late can never be charged. *)
THEOREM NoSecondCharge == Spec => []OneWayToPay
  <1>1. QED
    BY Invariant, InvGivesOneWayToPay, PTL

(* A settlement is the current attempt's, whose state is then "paid". *)
LEMMA InvGivesPaidIffSettled == PaymentInv => PaidIffSettled
  <1> SUFFICES ASSUME PaymentInv PROVE PaidIffSettled
    OBVIOUS
  <1> USE DEF PaymentInv, TypeOK, PointerInv, SettlementInv
  <1>1. ASSUME NEW a \in Attempts, settlement[a] # None
        PROVE  a = current /\ attemptState[a] = "paid" /\ payment = "paid"
    <2>1. attemptState[a] = "paid"
      BY <1>1
    <2>2. a = current
      BY <1>1, <2>1
    <2>3. QED
      BY <2>1, <2>2, ProviderAssumption
  <1>2. payment = "paid" => \E a \in Attempts : settlement[a] # None
    BY ProviderAssumption
  <1>3. QED
    BY <1>1, <1>2 DEF PaidIffSettled

(* The payment status of the order and the settlements the webhooks leave
   behind agree in every reachable state, and each settlement names money the
   provider holds on a session made for the current attempt. *)
THEOREM PaidMeansSettled == Spec => []PaidIffSettled
  <1>1. QED
    BY Invariant, InvGivesPaidIffSettled, PTL

(* The attempt of a confirmed closure is retired, and its sessions are dead. *)
LEMMA InvGivesConfirmedClosureIsReal == PaymentInv => ConfirmedClosureIsReal
  BY DEF PaymentInv, TypeOK, DispatchInv, RetirementInv, ConfirmedClosureIsReal,
         Chargeable, Dead, ControlRows

(* A cancellation or expiry that finish() has confirmed left no session of its
   attempt on which money was taken or still can be. *)
THEOREM ClosureIsReal == Spec => []ConfirmedClosureIsReal
  <1>1. QED
    BY Invariant, InvGivesConfirmedClosureIsReal, PTL

-----------------------------------------------------------------------------
(* The protocol implements the ledger *)

(* A new order is unpaid and nothing was taken for it. *)
LEMMA InitMaps == Init => Ledger!LedgerInit
  BY DEF Init, ProviderInit, Ledger!LedgerInit, Phase, Taken, Captured, Created

(* What moves neither the order's status nor a capture is invisible. *)
LEMMA InvisibleStep ==
  ASSUME UNCHANGED <<status, payment, sessionRef, sessionPay>>
  PROVE  UNCHANGED Ledger!ledgerVars
  BY DEF Ledger!ledgerVars, Phase, Taken, Captured, Created

(* Money has been taken only for an order that is reserved or paid. *)
LEMMA TakenIsReserved ==
  ASSUME PaymentInv, Taken # {}
  PROVE  status = "open" /\ payment \in {"pending", "paid"}
  <1>1. PICK s \in Sessions : Captured(s)
    BY DEF Taken
  <1>2. Chargeable(s)
    BY <1>1 DEF Captured, Chargeable
  <1>3. QED
    BY <1>2, ChargeableIsCurrent

(* Starting a payment reserves the order; the rest of a creation is invisible. *)
LEMMA CreationMaps ==
  ASSUME PaymentInv, NEW a \in Attempts, StartPayment(a) \/ Creating(a)
  PROVE  [Ledger!LedgerNext]_(Ledger!ledgerVars)
  <1>1. CASE StartPayment(a)
    <2>1. Phase = "unpaid" /\ Phase' = "reserved"
      BY <1>1 DEF StartPayment, Eligible, Phase
    <2>2. Taken' = Taken
      BY <1>1 DEF StartPayment, providerVars, Taken, Captured, Created
    <2>3. QED
      BY <2>1, <2>2 DEF Ledger!LedgerNext, Ledger!Reserve
  <1>2. CASE ~ StartPayment(a)
    <2>1. UNCHANGED <<status, payment, sessionRef, sessionPay>>
      BY <1>2 DEF Creating, CreateSend, CreateAnswered, CreateFetched, CreateFails,
                  CreateSaved, CreatorDies, orderVars, orderAxes, providerVars
    <2>2. QED
      BY <2>1, InvisibleStep
  <1>3. QED
    BY <1>1, <1>2

(* A first settlement confirms the charge; a repeated one is invisible. *)
LEMMA EvidenceMaps ==
  ASSUME PaymentInv, NEW e \in Events, Evidence(e)
  PROVE  [Ledger!LedgerNext]_(Ledger!ledgerVars)
  <1>0. UNCHANGED providerVars
    BY DEF Evidence, ReceiveApplied, ReceiveRejected, ReconcileRead, ReconcileCommit,
           ReconcileAborts
  <1>1. CASE UNCHANGED <<status, payment>>
    BY <1>0, <1>1, InvisibleStep DEF providerVars
  <1>2. CASE \E a \in Attempts : /\ Verified(e[1], a) /\ Settleable(a) /\ Settle(e[1], a)
    <2>1. e[1] \in Taken
      BY <1>2 DEF Events, Verified, Taken, Captured, Created, ProviderAssumption
    <2>2. Phase = "reserved" /\ Phase' = "paid"
      BY <1>2 DEF Settleable, Settle, Phase
    <2>3. Taken' = Taken
      BY <1>0 DEF providerVars, Taken, Captured, Created
    <2>4. QED
      BY <2>1, <2>2, <2>3 DEF Ledger!LedgerNext, Ledger!Confirm
  <1>3. QED
    BY <1>1, <1>2 DEF Evidence, ReceiveApplied, ReceiveRejected, ReconcileRead,
       ReconcileCommit, ReconcileAborts, Apply, orderVars, orderAxes

(* A local cancellation withdraws the order; every other request is invisible. *)
LEMMA RequestsMap ==
  ASSUME PaymentInv, NEW c \in Controls, Requests(c)
  PROVE  [Ledger!LedgerNext]_(Ledger!ledgerVars)
  <1>1. CASE CancelLocally(c)
    <2>1. Phase = "unpaid" /\ Phase' = "cancelled"
      BY <1>1 DEF CancelLocally, Controllable, Phase, PaymentInv, PointerInv, TypeOK
    <2>2. Taken' = Taken
      BY <1>1 DEF CancelLocally, providerVars, Taken, Captured, Created
    <2>3. QED
      BY <2>1, <2>2 DEF Ledger!LedgerNext, Ledger!Withdraw
  <1>2. CASE ~ CancelLocally(c)
    <2>1. UNCHANGED <<status, payment, sessionRef, sessionPay>>
      BY <1>2 DEF Requests, RequestCancel, RequestExpire, RequestExpireOf, RequestVerify,
                  RequestRecover, Request, orderAxes, providerVars
    <2>2. QED
      BY <2>1, InvisibleStep
  <1>3. QED
    BY <1>1, <1>2

(* A confirmed closure releases an order for which nothing was taken: the
   session it closed was the attempt's only one.  The other steps of a
   dispatch are invisible. *)
LEMMA DispatchMaps ==
  ASSUME PaymentInv, PaymentInv', NEW c \in Controls, Dispatch(c)
  PROVE  [Ledger!LedgerNext]_(Ledger!ledgerVars)
  <1>1. CASE FinishExpired(c)
    <2>1. Taken' = Taken
      BY <1>1 DEF FinishExpired, providerVars, Taken, Captured, Created
    <2>2. Taken' = {}
      <3>1. payment' = "unpaid"
        BY <1>1 DEF FinishExpired
      <3>2. ~ \E s \in Sessions : Captured(s)'
        BY <3>1 DEF PaymentInv, TypeOK, ProviderTypeOK, PointerInv, CreationInv,
                    RetirementInv, Dead, Captured, Created
      <3>3. QED
        BY <3>2 DEF Taken
    <2>3. Phase = "unpaid" \/ Phase = "reserved"
      BY <1>1 DEF FinishExpired, StillReserved, Phase
    <2>4. Phase' = "unpaid" \/ Phase' = "cancelled"
      BY <1>1 DEF FinishExpired, StillReserved, Phase
    <2>5. payment = "pending"
      BY <1>1 DEF FinishExpired, StillReserved, PaymentInv, TypeOK, PointerInv
    <2>6. Phase = "reserved"
      BY <1>1, <2>5 DEF FinishExpired, StillReserved, Phase
    <2>7. QED
      BY <2>1, <2>2, <2>4, <2>6 DEF Ledger!LedgerNext, Ledger!Release
  <1>2. CASE ~ FinishExpired(c)
    <2>1. UNCHANGED <<status, payment, sessionRef, sessionPay>>
      BY <1>2 DEF Dispatch, WorkerReads, WorkerReadFails, WorkerAuthorizes, WorkerDenied,
                  WorkerSends, WorkerMarks, FinishActive, WorkerDies, orderVars, orderAxes,
                  providerVars
    <2>2. QED
      BY <2>1, InvisibleStep
  <1>3. QED
    BY <1>1, <1>2

(* The provider's only visible step is a capture: on the one chargeable
   session, of an order that is reserved and for which nothing was taken. *)
LEMMA ProviderMaps ==
  ASSUME PaymentInv, Provider
  PROVE  [Ledger!LedgerNext]_(Ledger!ledgerVars)
  <1>0. UNCHANGED <<status, payment>> /\ Phase' = Phase
    BY DEF Provider, orderVars, orderAxes, Phase
  <1>1. CASE Taken' = Taken
    BY <1>0, <1>1 DEF Ledger!ledgerVars
  <1>2. ASSUME NEW s \in Sessions, PaymentResolves(s, "paid")
        PROVE  [Ledger!LedgerNext]_(Ledger!ledgerVars)
    <2>1. Chargeable(s) /\ ~ Captured(s)
      BY <1>2 DEF PaymentResolves, Chargeable, Captured
    <2>2. \A t \in Sessions : Captured(t) => t = s
      BY <2>1, InvGivesOneWayToPay DEF OneWayToPay, Captured, Chargeable
    <2>3. Taken = {}
      BY <2>1, <2>2 DEF Taken
    <2>4. Taken' = {s}
      BY <1>2, <2>2 DEF PaymentResolves, Taken, Captured, Created, PaymentInv, TypeOK,
                        ProviderTypeOK
    <2>5. status = "open" /\ payment \in {"pending", "paid"}
      BY <2>1, ChargeableIsCurrent
    <2>6. payment # "paid"
      BY <2>1, <2>2 DEF PaymentInv, TypeOK, PointerInv, SettlementInv
    <2>7. Phase = "reserved"
      BY <2>5, <2>6 DEF Phase
    <2>8. QED
      BY <1>0, <2>3, <2>4, <2>7 DEF Ledger!LedgerNext, Ledger!Charge
  <1>3. ASSUME ~ \E s \in Sessions : PaymentResolves(s, "paid")
        PROVE  Taken' = Taken
    <2> USE DEF PaymentInv, TypeOK, ProviderTypeOK, CreationInv, Captured, Created
    <2>1. ASSUME NEW s \in Sessions
          PROVE  Captured(s)' <=> Captured(s)
      <3>1. CASE \E a \in Attempts, t \in Sessions : ProviderCreates(a, t)
        BY <3>1 DEF ProviderCreates
      <3>2. CASE \E t \in Sessions :
                   ProviderExpires(t) \/ ProviderRefusesExpiry(t) \/ SessionLapses(t)
        BY <3>2 DEF ProviderExpires, ProviderRefusesExpiry, SessionLapses
      <3>3. CASE \E t \in Sessions : PayerSubmits(t)
        BY <3>3 DEF PayerSubmits
      <3>4. CASE \E t \in Sessions : PaymentResolves(t, "failed")
        BY <3>4 DEF PaymentResolves
      <3>5. QED
        BY <1>3, <3>1, <3>2, <3>3, <3>4 DEF Provider, ProviderNext
    <2>2. QED
      BY <2>1 DEF Taken
  <1>4. QED
    BY <1>1, <1>2, <1>3

(* Every step of the protocol is a step of the ledger, or none. *)
LEMMA NextMaps ==
  ASSUME PaymentInv, PaymentInv', [Next]_vars
  PROVE  [Ledger!LedgerNext]_(Ledger!ledgerVars)
  <1>1. CASE \E next \in Approvals : Review(next)
    BY <1>1, InvisibleStep DEF Review, providerVars
  <1>2. CASE \E a \in Attempts : StartPayment(a) \/ Creating(a)
    BY <1>2, CreationMaps
  <1>3. CASE \E e \in Events : Evidence(e)
    BY <1>3, EvidenceMaps
  <1>4. CASE \E c \in Controls : Requests(c) \/ Dispatch(c)
    BY <1>4, RequestsMap, DispatchMaps
  <1>5. CASE Provider
    BY <1>5, ProviderMaps
  <1>6. CASE UNCHANGED vars
    BY <1>6, InvisibleStep DEF vars, orderVars, orderAxes, providerVars
  <1>7. QED
    BY <1>1, <1>2, <1>3, <1>4, <1>5, <1>6 DEF Next, Settling

(* The webhooks, controls and provider exchanges together do no more than the
   ledger allows: reserve, charge at most once and only while reserved,
   confirm, and release or cancel only uncharged. *)
THEOREM LedgerImplemented == Spec => ImplementsLedger
  <1>1. QED
    BY Invariant, InitMaps, NextMaps, PTL DEF Spec, ImplementsLedger, Ledger!LedgerSpec

-----------------------------------------------------------------------------
(* No save is refused *)

(* The invariant gives what the order's hook asks of a stored order. *)
LEMMA StoredOrder ==
  ASSUME PaymentInv
  PROVE  /\ ConsistentAxes(Axes)
         /\ payment = "pending" => current # None
         /\ payment = "paid" => attemptState[current] = "paid" /\ settlement[current] # None
  BY DEF PaymentInv, PointerInv, SettlementInv, TypeOK, ConsistentAxes, Axes, Started

(* What remains to be shown of a save: the step between two stored orders. *)
LEMMA OrderHook ==
  ASSUME PaymentInv, PaymentInv',
         AllowedStep(Axes, Axes'),
         revision' \in NextRevisions,
         ~ (payment = "pending" /\ payment' = "unpaid")
  PROVE  OrderHookAccepts
  <1>1. /\ ConsistentAxes(Axes')
        /\ payment' = "pending" => current' # None
        /\ payment' = "paid" => attemptState'[current'] = "paid" /\ settlement'[current'] # None
    BY DEF PaymentInv, PointerInv, SettlementInv, TypeOK, ConsistentAxes, Axes, Started
  <1>2. QED
    BY <1>1 DEF OrderHookAccepts

LEMMA OrderUntouched ==
  ASSUME PaymentInv, PaymentInv', UNCHANGED <<status, approval, payment, fulfillment, current>>,
         revision' \in {revision, revision + 1}
  PROVE  OrderHookAccepts
  <1>1. AllowedStep(Axes, Axes') /\ Axes' = Axes
    BY DEF AllowedStep, Axes
  <1>2. revision' \in NextRevisions
    BY <1>1 DEF NextRevisions
  <1>3. QED
    BY <1>1, <1>2, OrderHook

LEMMA AttemptsUntouched ==
  ASSUME UNCHANGED <<attemptState, attemptSession>>
  PROVE  \A a \in Attempts : AttemptHookAccepts(a)
  BY DEF AttemptHookAccepts

LEMMA ControlsUntouched ==
  ASSUME UNCHANGED controlState
  PROVE  \A c \in Controls : ControlHookAccepts(c)
  BY DEF ControlHookAccepts

LEMMA ReviewAccepted ==
  ASSUME PaymentInv, PaymentInv', NEW next \in Approvals, Review(next)
  PROVE  HooksAccept
  <1>1. AllowedStep(Axes, Axes')
    BY DEF Review, AllowedStep, Axes
  <1>2. revision' \in NextRevisions
    BY DEF Review, NextRevisions
  <1>3. OrderHookAccepts
    BY <1>1, <1>2, OrderHook DEF Review
  <1>4. QED
    BY <1>3, AttemptsUntouched, ControlsUntouched DEF Review, attemptVars, controlVars, HooksAccept

LEMMA StartAccepted ==
  ASSUME PaymentInv, PaymentInv', NEW a \in Attempts, StartPayment(a)
  PROVE  HooksAccept
  <1>1. AllowedStep(Axes, Axes')
    BY DEF StartPayment, Eligible, AllowedStep, Axes, PaymentNext, Payments
  <1>2. revision' \in NextRevisions
    BY DEF StartPayment, NextRevisions
  <1>3. OrderHookAccepts
    BY <1>1, <1>2, OrderHook DEF StartPayment
  <1>4. \A b \in Attempts : AttemptHookAccepts(b)
    BY DEF StartPayment, AttemptHookAccepts, PaymentInv, TypeOK
  <1>5. QED
    BY <1>3, <1>4, ControlsUntouched DEF StartPayment, controlVars, HooksAccept

(* The session an attempt has is the only one made for it. *)
LEMMA BoundIsUnique ==
  ASSUME PaymentInv, NEW a \in Attempts, NEW s \in Sessions, sessionRef[s] = a,
         attemptSession[a] # None
  PROVE  attemptSession[a] = s
  BY DEF PaymentInv, BindingInv, CreationInv, Created, TypeOK, ProviderTypeOK, ProviderAssumption

LEMMA CreatingAccepted ==
  ASSUME PaymentInv, PaymentInv', NEW a \in Attempts, Creating(a)
  PROVE  HooksAccept
  <1>1. OrderHookAccepts /\ \A c \in Controls : ControlHookAccepts(c)
    BY OrderUntouched, ControlsUntouched
       DEF Creating, CreateSend, CreateAnswered, CreateFetched, CreateFails, CreateSaved,
           CreatorDies, orderVars, orderAxes, controlVars
  <1>2. ASSUME NEW s \in Sessions, CreateAnswered(a, s)
        PROVE  \A b \in Attempts : AttemptHookAccepts(b)
    BY <1>2, BoundIsUnique DEF CreateAnswered, AttemptHookAccepts, PaymentInv, TypeOK
  <1>3. CASE CreateSaved(a)
    <2>1. Updatable(a) => attemptState[a] = "creating"
      BY <1>3 DEF CreateSaved, Updatable, PaymentInv, CreationInv, TypeOK, AttemptStates
    <2>2. \A b \in Attempts : AttemptHookAccepts(b)
      BY <1>3, <2>1 DEF CreateSaved, AttemptHookAccepts, AttemptNext, AttemptStates, PaymentInv, TypeOK
    <2>3. QED
      BY <1>1, <2>2 DEF HooksAccept
  <1>4. CASE UNCHANGED <<attemptState, attemptSession>>
    BY <1>1, <1>4, AttemptsUntouched DEF HooksAccept
  <1>5. QED
    BY <1>1, <1>2, <1>3, <1>4 DEF Creating, CreateSend, CreateFetched, CreateFails, CreatorDies,
       attemptVars, HooksAccept

LEMMA EvidenceAccepted ==
  ASSUME PaymentInv, PaymentInv', NEW e \in Events, Evidence(e)
  PROVE  HooksAccept
  <1>1. \A c \in Controls : ControlHookAccepts(c)
    BY ControlsUntouched DEF Evidence, ReceiveApplied, ReceiveRejected, ReconcileRead,
       ReconcileCommit, ReconcileAborts, controlVars
  <1>2. ASSUME NEW a \in Attempts, NEW s \in Sessions, Verified(s, a), Settleable(a), Settle(s, a)
        PROVE  OrderHookAccepts /\ \A b \in Attempts : AttemptHookAccepts(b)
    <2>1. AllowedStep(Axes, Axes')
      BY <1>2 DEF Settle, Settleable, AllowedStep, Axes, PaymentNext, Payments
    <2>2. revision' \in NextRevisions
      BY <1>2 DEF Settle, NextRevisions
    <2>3. OrderHookAccepts
      BY <1>2, <2>1, <2>2, OrderHook DEF Settle
    <2>4. \A b \in Attempts : AttemptHookAccepts(b)
      BY <1>2 DEF Settle, Settleable, Verified, AttemptHookAccepts, AttemptNext, AttemptStates,
                  PaymentInv, TypeOK
    <2>5. QED
      BY <2>3, <2>4
  <1>3. CASE UNCHANGED <<orderVars, attemptVars>>
    BY <1>1, <1>3, OrderUntouched, AttemptsUntouched DEF orderVars, orderAxes, attemptVars, HooksAccept
  <1>4. e[1] \in Sessions
    BY DEF Events
  <1>5. QED
    BY <1>1, <1>2, <1>3, <1>4 DEF Evidence, ReceiveApplied, ReceiveRejected, ReconcileRead,
       ReconcileCommit, ReconcileAborts, Apply, HooksAccept

LEMMA RequestsAccepted ==
  ASSUME PaymentInv, PaymentInv', NEW c \in Controls, Requests(c)
  PROVE  HooksAccept
  <1>1. CASE CancelLocally(c)
    <2>1. AllowedStep(Axes, Axes')
      BY <1>1 DEF CancelLocally, Controllable, AllowedStep, Axes, StatusNext, FulfillmentNext,
                  Statuses, Fulfillments, PaymentInv, PointerInv, TypeOK
    <2>2. revision' \in NextRevisions
      BY <1>1 DEF CancelLocally, Controllable, NextRevisions, Axes, PaymentInv, PointerInv
    <2>3. OrderHookAccepts
      BY <1>1, <2>1, <2>2, OrderHook DEF CancelLocally
    <2>4. \A d \in Controls : ControlHookAccepts(d)
      BY <1>1 DEF CancelLocally, ControlHookAccepts, PaymentInv, TypeOK
    <2>5. QED
      BY <1>1, <2>3, <2>4, AttemptsUntouched DEF CancelLocally, attemptVars, HooksAccept
  <1>2. ASSUME NEW action, NEW effective, NEW session, Request(c, action, effective, session)
        PROVE  HooksAccept
    <2>1. OrderHookAccepts
      BY <1>2, OrderUntouched DEF Request, orderAxes
    <2>2. \A b \in Attempts : AttemptHookAccepts(b)
      BY <1>2 DEF Request, Requestable, AttemptHookAccepts, AttemptNext, AttemptStates,
                  PaymentInv, TypeOK
    <2>3. \A d \in Controls : ControlHookAccepts(d)
      BY <1>2 DEF Request, ControlHookAccepts, PaymentInv, TypeOK
    <2>4. QED
      BY <2>1, <2>2, <2>3 DEF HooksAccept
  <1>3. QED
    BY <1>1, <1>2 DEF Requests, RequestCancel, RequestExpire, RequestExpireOf, RequestVerify,
       RequestRecover

LEMMA FinishAccepted ==
  ASSUME PaymentInv, PaymentInv', NEW c \in Controls, FinishActive(c) \/ FinishExpired(c)
  PROVE  HooksAccept
  <1> DEFINE session == control[c].session
  <1>1. /\ current \in Attempts /\ session \in Sessions
        /\ sessionRef[session] = current /\ attemptState[current] = "closing"
        /\ status = "open" /\ revision \in Nat
        /\ controlState[c] = "pending"
    BY DEF FinishActive, FinishExpired, StillReserved, PaymentInv, DispatchInv, TypeOK, ControlRows
  <1>2. \A b \in Attempts : AttemptHookAccepts(b)
    BY <1>1, BoundIsUnique DEF FinishActive, FinishExpired, AttemptHookAccepts, AttemptNext,
       AttemptStates, PaymentInv, TypeOK
  <1>3. \A d \in Controls : ControlHookAccepts(d)
    BY <1>1 DEF FinishActive, FinishExpired, ControlHookAccepts, PaymentInv, TypeOK
  <1>4. CASE FinishActive(c)
    BY <1>2, <1>3, <1>4, OrderUntouched DEF FinishActive, orderAxes, HooksAccept
  <1>5. CASE FinishExpired(c)
    <2>1. payment = "pending" /\ fulfillment = "not_started"
      BY <1>1, ProviderAssumption DEF PaymentInv, PointerInv, TypeOK
    <2>2. AllowedStep(Axes, Axes')
      BY <1>1, <1>5, <2>1 DEF FinishExpired, AllowedStep, Axes, StatusNext, FulfillmentNext,
                  PaymentNext, Statuses, Fulfillments, Payments
    <2>3. revision' \in NextRevisions
      BY <1>1, <1>5, <2>1 DEF FinishExpired, NextRevisions
    <2>4. /\ current' = None
          /\ attemptState'[current] = "expired"
          /\ settlement[current] = None
          /\ controlState'[c] = "confirmed" /\ control[c].attempt = current
      BY <1>1, <1>5 DEF FinishExpired, StillReserved, PaymentInv, SettlementInv, TypeOK
    <2>5. /\ ConsistentAxes(Axes')
          /\ payment' = "unpaid"
      BY <1>5 DEF FinishExpired, PaymentInv, PointerInv, TypeOK, ConsistentAxes, Axes, Started
    <2>6. OrderHookAccepts
      BY <2>2, <2>3, <2>4, <2>5 DEF OrderHookAccepts
    <2>7. QED
      BY <1>2, <1>3, <2>6 DEF HooksAccept
  <1>6. QED
    BY <1>4, <1>5

LEMMA DispatchAccepted ==
  ASSUME PaymentInv, PaymentInv', NEW c \in Controls, Dispatch(c)
  PROVE  HooksAccept
  <1>1. CASE FinishActive(c) \/ FinishExpired(c)
    BY <1>1, FinishAccepted
  <1>2. CASE WorkerMarks(c)
    <2>1. \A d \in Controls : ControlHookAccepts(d)
      BY <1>2 DEF WorkerMarks, ControlHookAccepts, PaymentInv, TypeOK
    <2>2. QED
      BY <1>2, <2>1, OrderUntouched, AttemptsUntouched
         DEF WorkerMarks, orderVars, orderAxes, attemptVars, HooksAccept
  <1>3. CASE UNCHANGED <<orderVars, attemptVars, controlVars>>
    BY <1>3, OrderUntouched, AttemptsUntouched, ControlsUntouched
       DEF orderVars, orderAxes, attemptVars, controlVars, HooksAccept
  <1>4. QED
    BY <1>1, <1>2, <1>3 DEF Dispatch, WorkerReads, WorkerReadFails, WorkerAuthorizes, WorkerDenied,
       WorkerSends, WorkerDies

(* No interleaving of requests, webhooks, dispatches and crashes reaches a save
   that a hook of Order, PaymentAttempt or PaymentControl refuses. *)
THEOREM SavesAreAccepted == Spec => HooksNeverRefuse
  <1>1. ASSUME PaymentInv, PaymentInv', [Next]_vars
        PROVE  [HooksAccept]_vars
    <2>1. CASE \E next \in Approvals : Review(next)
      BY <1>1, <2>1, ReviewAccepted
    <2>2. CASE \E a \in Attempts : StartPayment(a) \/ Creating(a)
      BY <1>1, <2>2, StartAccepted, CreatingAccepted
    <2>3. CASE \E e \in Events : Evidence(e)
      BY <1>1, <2>3, EvidenceAccepted
    <2>4. CASE \E c \in Controls : Requests(c) \/ Dispatch(c)
      BY <1>1, <2>4, RequestsAccepted, DispatchAccepted
    <2>5. CASE Provider
      BY <1>1, <2>5, OrderUntouched, AttemptsUntouched, ControlsUntouched
         DEF Provider, orderVars, orderAxes, attemptVars, controlVars, HooksAccept
    <2>6. QED
      BY <1>1, <2>1, <2>2, <2>3, <2>4, <2>5 DEF Next, Settling
  <1>2. QED
    BY <1>1, Invariant, PTL DEF Spec, HooksNeverRefuse
-----------------------------------------------------------------------------
(* Money that can always be settled *)

(* A session with a payment on it expires only where the provider does that. *)
LEMMA NextLives == TypeOK /\ LiveInv /\ [Next]_vars => LiveInv'
  <1> SUFFICES ASSUME TypeOK, LiveInv, [Next]_vars PROVE LiveInv'
    OBVIOUS
  <1>1. CASE ProviderNext
    BY <1>1 DEF ProviderNext, ProviderCreates, ProviderExpires, ProviderRefusesExpiry,
       SessionLapses, Expirable, PayerSubmits, PaymentResolves, LiveInv, TypeOK, ProviderTypeOK
  <1>2. CASE UNCHANGED <<sessionStatus, sessionPay>>
    BY <1>2 DEF LiveInv
  <1>3. ProviderNext \/ UNCHANGED <<sessionStatus, sessionPay>>
    <2>1. ASSUME NEW c \in Controls, Requests(c) \/ Dispatch(c)
          PROVE  UNCHANGED <<sessionStatus, sessionPay>>
      BY <2>1 DEF Requests, CancelLocally, RequestCancel, RequestExpire, RequestExpireOf,
         RequestVerify, RequestRecover, Request, Dispatch, WorkerReads, WorkerReadFails,
         WorkerAuthorizes, WorkerDenied, WorkerSends, WorkerMarks, FinishActive,
         FinishExpired, WorkerDies, providerVars
    <2>2. ASSUME NEW e \in Events, Evidence(e)
          PROVE  UNCHANGED <<sessionStatus, sessionPay>>
      BY <2>2 DEF Evidence, ReceiveApplied, ReceiveRejected, ReconcileRead, ReconcileCommit,
         ReconcileAborts, providerVars
    <2>3. ASSUME NEW a \in Attempts, StartPayment(a) \/ Creating(a)
          PROVE  UNCHANGED <<sessionStatus, sessionPay>>
      BY <2>3 DEF StartPayment, Creating, CreateSend, CreateAnswered, CreateFetched,
         CreateFails, CreateSaved, CreatorDies, providerVars
    <2>4. QED
      BY <2>1, <2>2, <2>3 DEF Next, Settling, Review, Provider, vars, providerVars
  <1>4. QED
    BY <1>1, <1>2, <1>3

LEMMA ProviderLives == Spec => []LiveInv
  <1>1. Init => LiveInv
    BY DEF Init, ProviderInit, LiveInv
  <1>2. QED
    BY <1>1, NextLives, TypeCorrect, PTL DEF Spec

(* A captured session is the current attempt's only one.  A pending order can
   take it in each state of that attempt, and a paid one has taken it. *)
LEMMA InvGivesSettling ==
  ASSUME PaymentInv, NEW s \in Sessions, Captured(s), sessionStatus[s] = "active"
  PROVE  Candidate(s, current) /\ Verified(s, current) /\ CanApply(s, current)
  <1>1. /\ sessionRef[s] = current /\ current \in Attempts
        /\ payment \in {"pending", "paid"} /\ status = "open"
    BY ChargeableIsCurrent DEF Captured, Chargeable
  <1>2. \A t \in Sessions : sessionRef[t] = current => t = s
    BY <1>1, ProviderAssumption DEF PaymentInv, CreationInv, Captured, Created
  <1>3. attemptSession[current] \in {None, s}
    BY <1>1, <1>2 DEF PaymentInv, BindingInv, TypeOK
  <1>4. Candidate(s, current)
    BY <1>1, ProviderAssumption DEF Candidate, PaymentInv, BindingInv, TypeOK
  <1>5. Verified(s, current)
    BY <1>1, <1>3 DEF Verified, Captured
  <1>6. CASE payment = "pending"
    <2>1. Settleable(current)
      BY <1>1, <1>6 DEF Settleable, PaymentInv, PointerInv
    <2>2. settlement[current] = None
      BY <1>1, <2>1 DEF Settleable, PaymentInv, SettlementInv
    <2>3. QED
      BY <1>4, <1>5, <2>1, <2>2 DEF CanApply
  <1>7. CASE payment = "paid"
    <2>1. settlement[current] # None
      BY <1>1, <1>7 DEF PaymentInv, PointerInv, SettlementInv
    <2>2. settlement[current] \in Sessions /\ sessionRef[settlement[current]] = current
      BY <1>1, <2>1 DEF PaymentInv, SettlementInv, TypeOK
    <2>3. QED
      BY <1>2, <1>4, <1>5, <2>2 DEF CanApply
  <1>8. QED
    BY <1>1, <1>6, <1>7

(* What the application has been paid is never out of its reach: in every
   reachable state the signed event of a capture can be applied, unless the
   provider let its session expire under the payment. *)
THEOREM MoneyIsWithinReach == Spec => []OnlyExpiryStrandsMoney
  <1>1. PaymentInv /\ LiveInv => OnlyExpiryStrandsMoney
    <2> SUFFICES ASSUME PaymentInv, LiveInv, NEW s \in Sessions, Captured(s),
                        ~ (sessionStatus[s] = "expired" /\ ExpiresWhileProcessing)
                 PROVE  \E a \in Attempts : Candidate(s, a) /\ Verified(s, a) /\ CanApply(s, a)
      BY DEF OnlyExpiryStrandsMoney
    <2>1. sessionStatus[s] = "active"
      BY DEF LiveInv, Captured, PaymentInv, TypeOK, ProviderTypeOK
    <2>2. current \in Attempts
      BY <2>1, ChargeableIsCurrent DEF Captured, Chargeable
    <2>3. QED
      BY <2>1, <2>2, InvGivesSettling
  <1>2. QED
    BY <1>1, Invariant, ProviderLives, PTL

-----------------------------------------------------------------------------
(* Closures that no recovery overtakes *)

(* No command is stored in the initial state. *)
LEMMA InitHeld == Init => HeldInv
  BY DEF Init, HeldInv

(* The reservation of a stored command is a revision. *)
LEMMA ReservedIsRevision ==
  ASSUME TypeOK, NEW c \in Controls, controlState[c] # "absent"
  PROVE  /\ control[c].reserved \in Nat /\ revision \in Nat
         /\ control[c].effective \in {"cancel", "expire", "recover"}
  BY DEF TypeOK, ControlRows, Actions

(* A step that neither moves the order's pointer, nor an attempt that has been
   asked to close, nor stores a command. *)
LEMMA HeldUntouched ==
  ASSUME TypeOK, HeldInv, UNCHANGED <<current, controlVars>>,
         revision' \in Nat, revision' >= revision,
         current # None /\ attemptState[current] \in {"closing", "paid"} =>
           attemptState'[current] \in {"closing", "paid"}
  PROVE  HeldInv'
  BY ReservedIsRevision DEF HeldInv, Closing, controlVars

(* A pointer that is set to a fresh attempt, or cleared, leaves no command of
   the current attempt. *)
LEMMA HeldByFreshPointer ==
  ASSUME PaymentInv, HeldInv, controlVars' = controlVars, revision' = revision + 1,
         NEW a \in Attempts, attemptState[a] = "absent", current' = a
  PROVE  HeldInv'
  BY ReservedIsRevision DEF HeldInv, PaymentInv, DispatchInv, Closing, controlVars

(* Reserving and creating: a creation dispatch writes nothing over an attempt
   that has been asked to close. *)
LEMMA CreationHolds ==
  ASSUME PaymentInv, HeldInv, NEW a \in Attempts, StartPayment(a) \/ Creating(a)
  PROVE  HeldInv'
  <1> USE DEF PaymentInv, TypeOK
  <1>1. CASE StartPayment(a)
    BY <1>1, HeldByFreshPointer DEF StartPayment
  <1>2. CASE CreateSaved(a)
    BY <1>2, HeldUntouched DEF CreateSaved, Updatable, orderVars
  <1>3. CASE Creating(a) /\ ~ CreateSaved(a)
    BY <1>3, HeldUntouched DEF Creating, CreateSend, CreateAnswered, CreateFetched,
       CreateFails, CreatorDies, orderVars, attemptVars
  <1>4. QED
    BY <1>1, <1>2, <1>3

(* Evidence can only turn the current attempt into a paid one. *)
LEMMA EvidenceHolds ==
  ASSUME PaymentInv, HeldInv, NEW e \in Events, Evidence(e)
  PROVE  HeldInv'
  <1> USE DEF PaymentInv, TypeOK
  <1>1. UNCHANGED <<current, controlVars>>
    BY DEF Evidence, ReceiveApplied, ReceiveRejected, ReconcileRead, ReconcileCommit,
           ReconcileAborts, Apply, Settle, orderVars
  <1>2. ASSUME NEW s \in Sessions, NEW a \in Attempts, Apply(s, a)
        PROVE  HeldInv'
    BY <1>1, <1>2, HeldUntouched DEF Apply, Settle, orderVars, attemptVars
  <1>3. CASE UNCHANGED <<orderVars, attemptVars>>
    BY <1>1, <1>3, HeldUntouched DEF orderVars, attemptVars
  <1>4. e[1] \in Sessions
    BY DEF Events
  <1>5. QED
    BY <1>2, <1>3, <1>4 DEF Evidence, ReceiveApplied, ReceiveRejected, ReconcileRead,
       ReconcileCommit, ReconcileAborts

(* A request reserves the next revision, so what the attempt was asked before
   is out of date; a recovery after a closure is what the line excludes. *)
LEMMA RequestHolds ==
  ASSUME PaymentInv, HeldInv, ClosuresAreNotOvertaken, NEW c \in Controls, NEW action,
         NEW effective, NEW session, Request(c, action, effective, session)
  PROVE  HeldInv'
  <1> DEFINE row == [action |-> action, effective |-> effective, attempt |-> current,
                     session |-> session, reserved |-> revision + 1]
  <1>1. /\ row.attempt = current /\ row.reserved = revision + 1 /\ row.effective = effective
    OBVIOUS
  <1> HIDE DEF row
  <1>2. /\ controlState[c] = "absent" /\ controlState' = [controlState EXCEPT ![c] = "pending"]
        /\ control' = [control EXCEPT ![c] = row]
        /\ current' = current /\ current \in Attempts
        /\ attemptState'[current] = "closing" /\ revision' = revision + 1
    BY DEF Request, Requestable, PaymentInv, TypeOK, orderAxes, row
  <1>3. /\ control'[c] = row /\ controlState'[c] = "pending"
        /\ \A d \in Controls : d # c => control'[d] = control[d] /\ controlState'[d] = controlState[d]
    BY <1>2 DEF PaymentInv, TypeOK
  <1>4. \A d \in Controls : controlState'[d] # "absent" =>
          /\ control'[d].reserved <= revision'
          /\ control'[d].attempt = None => controlState'[d] = "confirmed"
    BY <1>1, <1>2, <1>3, ReservedIsRevision, ProviderAssumption DEF HeldInv, PaymentInv, TypeOK
  <1>5. ASSUME NEW d \in Controls, NEW b \in Controls,
               controlState'[d] # "absent", Closing(d)', control'[d].attempt = current,
               controlState'[b] # "absent", ~ Closing(b)', control'[b].attempt = current
        PROVE  control'[b].reserved < control'[d].reserved
    <2>1. CASE d = c
      <3>1. b # c
        BY <1>5, <2>1
      <3>2. QED
        BY <1>1, <1>2, <1>3, <1>5, <2>1, <3>1, ReservedIsRevision DEF HeldInv, PaymentInv, TypeOK
    <2>2. CASE d # c /\ b = c
      BY <1>1, <1>2, <1>3, <1>5, <2>2 DEF ClosuresAreNotOvertaken, Closing
    <2>3. CASE d # c /\ b # c
      BY <1>2, <1>3, <1>5, <2>3, ProviderAssumption DEF HeldInv, Closing
    <2>4. QED
      BY <2>1, <2>2, <2>3
  <1>6. QED
    BY <1>2, <1>4, <1>5 DEF HeldInv

(* The local cancellation belongs to no attempt. *)
LEMMA RequestsHold ==
  ASSUME PaymentInv, HeldInv, ClosuresAreNotOvertaken, NEW c \in Controls, Requests(c)
  PROVE  HeldInv'
  <1>1. CASE CancelLocally(c)
    <2>1. \A d \in Controls : d # c => control'[d] = control[d] /\ controlState'[d] = controlState[d]
      BY <1>1 DEF CancelLocally, PaymentInv, TypeOK
    <2>2. /\ control'[c].reserved = revision + 1 /\ controlState'[c] = "confirmed"
          /\ revision' = revision + 2 /\ current' = None
      BY <1>1 DEF CancelLocally, PaymentInv, TypeOK
    <2>3. QED
      BY <2>1, <2>2, ReservedIsRevision DEF HeldInv, PaymentInv, TypeOK
  <1>2. ASSUME NEW action, NEW effective, NEW session, Request(c, action, effective, session)
        PROVE  HeldInv'
    BY <1>2, RequestHolds
  <1>3. QED
    BY <1>1, <1>2 DEF Requests, RequestCancel, RequestExpire, RequestExpireOf, RequestVerify,
       RequestRecover

(* A dispatch makes the attempt payable again only for a recovery that is
   still reserved, and no closure was then asked for after it. *)
LEMMA DispatchHolds ==
  ASSUME PaymentInv, HeldInv, NEW c \in Controls, Dispatch(c)
  PROVE  HeldInv'
  <1>1. CASE FinishActive(c)
    <2>1. /\ controlState[c] # "absent" /\ ~ Closing(c) /\ control[c].attempt = current
          /\ current # None /\ control[c].reserved = revision
      BY <1>1, ProviderAssumption
         DEF FinishActive, StillReserved, Closing, PaymentInv, TypeOK, DispatchInv
    <2>2. ASSUME NEW d \in Controls, controlState[d] # "absent", Closing(d),
                 control[d].attempt = current
          PROVE  FALSE
      BY <2>1, <2>2, ReservedIsRevision DEF HeldInv, PaymentInv
    <2>3. \A d \in Controls : /\ controlState'[d] = "absent" <=> controlState[d] = "absent"
                              /\ controlState[d] = "confirmed" => controlState'[d] = "confirmed"
      BY <1>1 DEF FinishActive, StillReserved, PaymentInv, TypeOK
    <2>4. QED
      BY <1>1, <2>1, <2>2, <2>3, ReservedIsRevision DEF FinishActive, HeldInv, Closing, PaymentInv, TypeOK
  <1>2. CASE FinishExpired(c)
    <2>1. \A d \in Controls : /\ controlState'[d] = "absent" <=> controlState[d] = "absent"
                              /\ controlState[d] = "confirmed" => controlState'[d] = "confirmed"
      BY <1>2 DEF FinishExpired, StillReserved, PaymentInv, TypeOK
    <2>2. QED
      BY <1>2, <2>1, ReservedIsRevision DEF FinishExpired, HeldInv, PaymentInv, TypeOK
  <1>3. CASE WorkerMarks(c)
    <2>1. \A d \in Controls : /\ controlState'[d] = "absent" <=> controlState[d] = "absent"
                              /\ controlState[d] = "confirmed" => controlState'[d] = "confirmed"
      BY <1>3 DEF WorkerMarks, PaymentInv, TypeOK
    <2>2. QED
      BY <1>3, <2>1 DEF WorkerMarks, HeldInv, Closing, orderVars, attemptVars
  <1>4. CASE UNCHANGED <<orderVars, attemptVars, controlVars>>
    BY <1>4, HeldUntouched DEF orderVars, attemptVars, PaymentInv, TypeOK
  <1>5. QED
    BY <1>1, <1>2, <1>3, <1>4 DEF Dispatch, WorkerReads, WorkerReadFails, WorkerAuthorizes,
       WorkerDenied, WorkerSends, WorkerDies

(* Every step in which no closure is overtaken. *)
LEMMA NextHolds ==
  PaymentInv /\ HeldInv /\ [Next /\ ClosuresAreNotOvertaken]_vars => HeldInv'
  <1> SUFFICES ASSUME PaymentInv, HeldInv, [Next /\ ClosuresAreNotOvertaken]_vars
               PROVE  HeldInv'
    OBVIOUS
  <1>1. ASSUME NEW next \in Approvals, Review(next)
        PROVE  HeldInv'
    BY <1>1, HeldUntouched DEF Review, attemptVars, PaymentInv, TypeOK
  <1>2. CASE \E a \in Attempts : StartPayment(a) \/ Creating(a)
    BY <1>2, CreationHolds
  <1>3. CASE \E e \in Events : Evidence(e)
    BY <1>3, EvidenceHolds
  <1>4. ASSUME NEW c \in Controls, Dispatch(c) \/ (Requests(c) /\ ClosuresAreNotOvertaken)
        PROVE  HeldInv'
    BY <1>4, RequestsHold, DispatchHolds
  <1>5. CASE Provider \/ UNCHANGED vars
    BY <1>5, HeldUntouched DEF Provider, vars, orderVars, attemptVars, PaymentInv, TypeOK
  <1>6. QED
    BY <1>1, <1>2, <1>3, <1>4, <1>5 DEF Next, Settling

(* A closure that is unknown is one of a stored command. *)
LEMMA HeldGivesHidden == HeldInv => ClosureHidesPayment
  <1> SUFFICES ASSUME HeldInv, NEW c \in Controls, controlState[c] = "unknown", Closing(c),
                      control[c].attempt = current
               PROVE  attemptState[control[c].attempt] # "active"
    BY DEF ClosureHidesPayment
  <1>1. current # None
    BY DEF HeldInv
  <1>2. QED
    BY <1>1 DEF HeldInv

(* The specification without overtaken closures is one of the protocol's. *)
LEMMA HeldStep == [Next /\ ClosuresAreNotOvertaken]_vars => [Next]_vars
  OBVIOUS

(* When nobody requests or verifies a recovery on an attempt that has been
   asked to close, the attempt is closing or paid as long as it is current,
   and every recovery of it has lost its reservation. *)
THEOREM ClosuresAreHeld == HeldSpec => []HeldInv
  <1>1. HeldSpec => []PaymentInv
    BY HeldStep, Invariant, PTL DEF HeldSpec, Spec
  <1>2. QED
    BY <1>1, InitHeld, NextHolds, PTL DEF HeldSpec

(* The plan's sentence holds then: a closure whose outcome is unknown keeps the
   payment page hidden, whatever dispatch, webhook or crash comes after it. *)
THEOREM UnresolvedClosuresHidePayment == HeldSpec => []ClosureHidesPayment
  <1>1. QED
    BY ClosuresAreHeld, HeldGivesHidden, PTL
=============================================================================
