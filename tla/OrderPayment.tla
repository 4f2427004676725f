---------------------------- MODULE OrderPayment ----------------------------
(***************************************************************************)
(* How one order is paid: reserving a payment attempt, creating its hosted *)
(* session, settling it from signed webhooks, retiring or recovering it by *)
(* control commands, and reconciling a rejected receipt.                   *)
(*                                                                         *)
(*   src/app/Actions/Payments/PaymentAttemptActions.php                    *)
(*   src/app/Actions/Payments/PaymentControlActions.php                    *)
(*   src/app/Actions/Payments/PaymentEventActions.php                      *)
(*   src/app/Actions/Payments/PaymentSettlementActions.php                 *)
(*   src/app/Actions/Payments/PaymentOperations.php                        *)
(*   src/app/Services/Payments/CheckoutSession.php, CheckoutClosure.php    *)
(*                                                                         *)
(* One action is one database transaction (RetryingTransaction::run) or    *)
(* one HTTP exchange; everything else interleaves between them.  The work  *)
(* that DB::afterCommit starts runs as a process with a program counter:   *)
(* creator[a] for the creation of attempt a, worker[c] for control c.  It  *)
(* may die between any two of its steps and nothing restarts it.  What an  *)
(* HTTP client reads is kept only as far as the branch it selects: that    *)
(* branch is the next value of the program counter.                        *)
(*                                                                         *)
(* A request replayed with its operation id returns the stored receipt     *)
(* and changes nothing (PaymentCommand, PaymentControl, PaymentResolution):*)
(* it is a stuttering step here.  So is every refused request.             *)
(***************************************************************************)
EXTENDS Naturals, OrderLifecycle, CheckoutProvider

CONSTANTS
  Controls,       \* control commands (their operation ids)
  Copies,         \* distinct event ids the provider sends for one payment
  CancelAllowed,  \* customer_cancel_before_payment of the captured policy
  ClockSkew,      \* a paid_at may lie more than 300 s in this host's future
  ReviewBound     \* no review command, but the expiry of an approval, once the
                  \* revision has reached it

ASSUME PaymentAssumption ==
  /\ None \notin Controls
  /\ CancelAllowed \in BOOLEAN
  /\ ClockSkew \in BOOLEAN
  /\ ReviewBound \in Nat

VARIABLES
  revision, status, approval, payment, fulfillment,   \* the orders row
  current,         \* orders.payment_attempt_id
  attemptState,    \* payment_attempts.state; "absent": no row yet
  attemptSession,  \* payment_attempts.provider_session_id
  settlement,      \* payment_settlements, by attempt: the session paid
  creator,         \* PaymentAttemptActions::dispatch of an attempt
  control,         \* payment_controls, the immutable columns
  controlState,    \* payment_controls.state; "absent": no row yet
  worker,          \* PaymentControlActions::dispatch of a control
  receipt,         \* payment_events.state, by provider event
  reconciling,     \* the expected_revision of a reconciliation under way
  resolved         \* payment_resolutions, by provider event

orderAxes   == <<status, approval, payment, fulfillment>>
orderVars   == <<revision, orderAxes, current>>
attemptVars == <<attemptState, attemptSession, settlement>>
controlVars == <<control, controlState>>
eventVars   == <<receipt, reconciling, resolved>>
processVars == <<creator, worker>>

vars == <<orderVars, attemptVars, controlVars, eventVars, processVars, providerVars>>

-----------------------------------------------------------------------------
(* Types *)

Events == Sessions \X Copies          \* provider_event_id: one payment, one copy

AttemptStates == {"creating", "unknown", "active", "closing",
                  "paid", "expired", "rejected"}

CreatorStates == {"idle", "post", "posted", "fetch",
                  "saveActive", "saveUnknown", "done", "dead"}

WorkerStates == {"idle", "fetch", "authorize", "send", "refetch", "finishActive",
                 "finishExpired", "markUnknown", "markBlocked", "done", "dead"}

Actions == {"cancel", "expire", "recover", "verify"}

ControlRows == [action    : Actions,
                effective : Actions \ {"verify"},
                attempt   : Attempts \cup {None},
                session   : Sessions \cup {None},
                reserved  : Nat]

TypeOK ==
  /\ ProviderTypeOK
  /\ revision \in Nat
  /\ status \in Statuses
  /\ approval \in Approvals
  /\ payment \in Payments
  /\ fulfillment \in Fulfillments
  /\ current \in Attempts \cup {None}
  /\ attemptState \in [Attempts -> AttemptStates \cup {"absent"}]
  /\ attemptSession \in [Attempts -> Sessions \cup {None}]
  /\ settlement \in [Attempts -> Sessions \cup {None}]
  /\ creator \in [Attempts -> CreatorStates]
  /\ control \in [Controls -> ControlRows \cup {None}]
  /\ controlState \in
       [Controls -> {"absent", "pending", "unknown", "blocked", "confirmed"}]
  /\ \A c \in Controls : controlState[c] # "absent" => control[c] \in ControlRows
  /\ worker \in [Controls -> WorkerStates]
  /\ \A c \in Controls : worker[c] # "idle" =>
       /\ controlState[c] # "absent"
       /\ control[c].attempt \in Attempts
       /\ control[c].session \in Sessions
  /\ receipt \in [Events -> {"none", "applied", "rejected"}]
  /\ reconciling \in [Events -> Nat]
  /\ resolved \subseteq Events

Init ==
  /\ ProviderInit
  /\ revision = 1
  /\ status = "open" /\ approval = "pending"
  /\ payment = "unpaid" /\ fulfillment = "not_started"
  /\ current = None
  /\ attemptState = [a \in Attempts |-> "absent"]
  /\ attemptSession = [a \in Attempts |-> None]
  /\ settlement = [a \in Attempts |-> None]
  /\ creator = [a \in Attempts |-> "idle"]
  /\ control = [c \in Controls |-> None]
  /\ controlState = [c \in Controls |-> "absent"]
  /\ worker = [c \in Controls |-> "idle"]
  /\ receipt = [e \in Events |-> "none"]
  /\ reconciling = [e \in Events |-> 0]
  /\ resolved = {}

-----------------------------------------------------------------------------
(* The request's review, as far as it changes the order row                *)

(* OrderReviewActions::command and ::expire: every command of the customer
   or the staff moves the approval along OrderLifecycle, or leaves it, and
   takes the next revision; an order with a payment is not reviewed.        *)
Review(next) ==
  /\ status = "open"
  /\ payment = "unpaid"
  /\ next \in ApprovalNext[approval] \cup {approval}
  /\ revision < ReviewBound \/ (approval = "approved" /\ next = "expired")
  /\ approval' = next
  /\ revision' = revision + 1
  /\ UNCHANGED <<status, payment, fulfillment, current, attemptVars, controlVars, eventVars, processVars, providerVars>>

-----------------------------------------------------------------------------
(* Starting a payment *)

\* Mutant of Eligible: eligible() looks at the payment status only.
EligibleUnlessPaid == status = "open" /\ approval = "approved" /\ payment # "paid"

(* eligible().  That the approval has not run out and that no proposal is
   pending can be false at any time; the request is then refused. *)
Eligible ==
  /\ status = "open"
  /\ payment = "unpaid"
  /\ approval = "approved"
  /\ current = None

(* The second transaction of PaymentAttemptActions::start.  The first one
   only turns requests away, and the second repeats all of its checks. *)
StartPayment(a) ==
  /\ attemptState[a] = "absent"
  /\ Eligible
  /\ attemptState' = [attemptState EXCEPT ![a] = "creating"]
  /\ creator' = [creator EXCEPT ![a] = "post"]
  /\ payment' = "pending"
  /\ current' = a
  /\ revision' = revision + 1
  /\ UNCHANGED <<status, approval, fulfillment, attemptSession, settlement, controlVars, eventVars, worker, providerVars>>

\* Mutant of Updatable: update() without its early return.
UpdatableAlways(a) == TRUE

(* update() writes nothing once another actor has closed or ended the attempt. *)
Updatable(a) == attemptState[a] \notin {"closing", "paid", "expired", "rejected"}

CreateSend(a) ==
  /\ creator[a] = "post"
  /\ createPosts' = createPosts \cup {a}
  /\ creator' = [creator EXCEPT ![a] = "posted"]
  /\ UNCHANGED <<orderVars, attemptVars, controlVars, eventVars, worker,
                 expirePosts, sessionRef, sessionStatus, sessionPay>>

(* The POST answered with the identity of the session made for it. *)
CreateAnswered(a, s) ==
  /\ creator[a] = "posted"
  /\ sessionRef[s] = a
  /\ attemptSession' = IF Updatable(a) THEN [attemptSession EXCEPT ![a] = s]
                                       ELSE attemptSession
  /\ creator' = [creator EXCEPT ![a] = "fetch"]
  /\ UNCHANGED <<orderVars, attemptState, settlement, controlVars, eventVars,
                 worker, providerVars>>

(* retrieve() and CheckoutSession::verify on the session just created: it is
   offered to the customer only when active and without any payment. *)
CreateFetched(a, s) ==
  /\ creator[a] = "fetch"
  /\ sessionRef[s] = a
  /\ creator' = [creator EXCEPT ![a] =
       IF sessionStatus[s] = "active" /\ sessionPay[s] = "none"
         THEN "saveActive" ELSE "saveUnknown"]
  /\ UNCHANGED <<orderVars, attemptVars, controlVars, eventVars, worker, providerVars>>

\* Mutant of CreateFails: a POST that timed out is sent again.
CreateFailsRetries(a) ==
  /\ creator[a] \in {"post", "posted", "fetch"}
  /\ creator' = [creator EXCEPT ![a] = IF @ = "posted" THEN "post" ELSE "saveUnknown"]
  /\ UNCHANGED <<orderVars, attemptVars, controlVars, eventVars, worker, providerVars>>

(* PayMongoFailure of the POST or of the GET: refused, lost, or answered
   with something that does not verify. *)
CreateFails(a) ==
  /\ creator[a] \in {"post", "posted", "fetch"}
  /\ creator' = [creator EXCEPT ![a] = "saveUnknown"]
  /\ UNCHANGED <<orderVars, attemptVars, controlVars, eventVars, worker, providerVars>>

CreateSaved(a) ==
  /\ creator[a] \in {"saveActive", "saveUnknown"}
  /\ attemptState' =
       IF Updatable(a)
         THEN [attemptState EXCEPT ![a] =
                 IF creator[a] = "saveActive" THEN "active" ELSE "unknown"]
         ELSE attemptState
  /\ creator' = [creator EXCEPT ![a] = "done"]
  /\ UNCHANGED <<orderVars, attemptSession, settlement, controlVars, eventVars,
                 worker, providerVars>>

(* The PHP process dies, or an error that is not a PayMongoFailure ends it. *)
CreatorDies(a) ==
  /\ creator[a] \notin {"idle", "done", "dead"}
  /\ creator' = [creator EXCEPT ![a] = "dead"]
  /\ UNCHANGED <<orderVars, attemptVars, controlVars, eventVars, worker, providerVars>>

-----------------------------------------------------------------------------
(* Settling from signed evidence *)

(* PaymentEventActions::receive finds the attempt by the session's identity,
   and by the signed attempt_reference when no attempt has that session. *)
Candidate(s, a) ==
  \/ attemptSession[a] = s
  \/ sessionRef[s] = a /\ \A b \in Attempts : attemptSession[b] # s

(* PaymentSettlementActions::verify: one capture, on a session that is still
   active and was made for this attempt. *)
Verified(s, a) ==
  /\ attemptSession[a] \in {None, s}
  /\ sessionRef[s] = a
  /\ sessionStatus[s] = "active"
  /\ sessionPay[s] = "paid"

\* Mutant of Settleable: no settlement while a closure is under way.
SettleableUnlessClosing(a) ==
  /\ status = "open" /\ payment = "pending" /\ current = a
  /\ attemptState[a] \in {"creating", "unknown", "active"}

Settleable(a) ==
  /\ status = "open"
  /\ payment = "pending"
  /\ current = a
  /\ attemptState[a] \in {"creating", "unknown", "active", "closing"}

(* PaymentSettlementActions::apply, the part that writes. *)
Settle(s, a) ==
  /\ settlement' = [settlement EXCEPT ![a] = s]
  /\ attemptSession' = [attemptSession EXCEPT ![a] = s]
  /\ attemptState' = [attemptState EXCEPT ![a] = "paid"]
  /\ payment' = "paid"
  /\ revision' = revision + 1
  /\ UNCHANGED <<status, approval, fulfillment, current>>

(* apply() of a receipt whose evidence verified: the first settles, a later
   one of the same payment finds the settlement and changes nothing. *)
Apply(s, a) ==
  \/ /\ settlement[a] = s
     /\ UNCHANGED <<orderVars, attemptVars>>
  \/ /\ settlement[a] = None
     /\ Settleable(a)
     /\ Settle(s, a)

CanApply(s, a) ==
  settlement[a] = s \/ (settlement[a] = None /\ Settleable(a))

ReceiveApplied(e, a) ==
  /\ receipt[e] = "none"
  /\ Captured(e[1])
  /\ Candidate(e[1], a)
  /\ Verified(e[1], a)
  /\ Apply(e[1], a)
  /\ receipt' = [receipt EXCEPT ![e] = "applied"]
  /\ UNCHANGED <<reconciling, resolved, controlVars, processVars, providerVars>>

(* The evidence does not verify - with a skewed clock that can be any
   evidence - or the order cannot take it: the receipt is kept, rejected. *)
ReceiveRejected(e, a) ==
  /\ receipt[e] = "none"
  /\ Captured(e[1])
  /\ Candidate(e[1], a)
  /\ ClockSkew \/ ~ Verified(e[1], a) \/ ~ CanApply(e[1], a)
  /\ receipt' = [receipt EXCEPT ![e] = "rejected"]
  /\ UNCHANGED <<orderVars, attemptVars, reconciling, resolved, controlVars,
                 processVars, providerVars>>

(* PaymentOperations::reconcile up to its GET: the administrator's expected
   revision is kept, and the read must show the capture for the request to
   go on.  Every other precondition is checked again by ReconcileCommit. *)
ReconcileRead(e, a) ==
  /\ receipt[e] = "rejected"
  /\ e \notin resolved
  /\ reconciling[e] = 0
  /\ Candidate(e[1], a)
  /\ attemptSession[a] # None
  /\ Verified(attemptSession[a], a)
  /\ reconciling' = [reconciling EXCEPT ![e] = revision]
  /\ UNCHANGED <<orderVars, attemptVars, receipt, resolved, controlVars,
                 processVars, providerVars>>

ReconcileCommit(e, a) ==
  /\ reconciling[e] = revision
  /\ e \notin resolved
  /\ Candidate(e[1], a)
  /\ attemptSession[a] = e[1]
  /\ Verified(e[1], a)
  /\ Apply(e[1], a)
  /\ reconciling' = [reconciling EXCEPT ![e] = 0]
  /\ resolved' = resolved \cup {e}
  /\ UNCHANGED <<receipt, controlVars, processVars, providerVars>>

(* Refused (409), timed out or crashed: nothing was written. *)
ReconcileAborts(e) ==
  /\ reconciling[e] # 0
  /\ reconciling' = [reconciling EXCEPT ![e] = 0]
  /\ UNCHANGED <<orderVars, attemptVars, receipt, resolved, controlVars,
                 processVars, providerVars>>

-----------------------------------------------------------------------------
(* Requesting a control *)

Controllable ==
  /\ status = "open"
  /\ payment \in {"unpaid", "pending"}

(* PaymentControlActions::start without an attempt: nothing can be payable,
   and the cancellation is requested and confirmed in one transaction, which
   saves the order twice. *)
CancelLocally(c) ==
  /\ controlState[c] = "absent"
  /\ Controllable
  /\ CancelAllowed
  /\ current = None
  /\ control' = [control EXCEPT ![c] =
       [action |-> "cancel", effective |-> "cancel", attempt |-> None,
        session |-> None, reserved |-> revision + 1]]
  /\ controlState' = [controlState EXCEPT ![c] = "confirmed"]
  /\ status' = "cancelled"
  /\ fulfillment' = "cancelled"
  /\ revision' = revision + 2
  /\ UNCHANGED <<approval, payment, current, attemptVars, eventVars, processVars, providerVars>>

Requestable(session) ==
  /\ current # None
  /\ session # None
  /\ attemptState[current] \in {"active", "unknown", "closing"}

(* The rest of start(): the command and the attempt's closing are stored, the
   next revision is reserved, and the dispatch follows the commit. *)
Request(c, action, effective, session) ==
  /\ controlState[c] = "absent"
  /\ Controllable
  /\ Requestable(session)
  /\ control' = [control EXCEPT ![c] =
       [action |-> action, effective |-> effective, attempt |-> current,
        session |-> session, reserved |-> revision + 1]]
  /\ controlState' = [controlState EXCEPT ![c] = "pending"]
  /\ worker' = [worker EXCEPT ![c] = "fetch"]
  /\ attemptState' = [attemptState EXCEPT ![current] = "closing"]
  /\ revision' = revision + 1
  /\ UNCHANGED <<orderAxes, current, attemptSession, settlement, eventVars, creator, providerVars>>

RequestCancel(c) ==
  /\ CancelAllowed
  /\ current # None
  /\ attemptState[current] # "closing"
  /\ Request(c, "cancel", "cancel", attemptSession[current])

RequestExpire(c) ==
  /\ current # None
  /\ payment = "pending"
  /\ Request(c, "expire", "expire", attemptSession[current])

(* A command may be taken up by a later one: not a verification, not one that
   is already confirmed, and of the attempt that is still current. *)
Target(t) ==
  /\ controlState[t] \notin {"absent", "confirmed"}
  /\ control[t].action # "verify"
  /\ control[t].attempt = current

(* expire with a control sends the POST again for an unconfirmed closure, and
   on confirmation does what its root command asked for. *)
RequestExpireOf(c, t) ==
  /\ Target(t)
  /\ control[t].effective \in {"cancel", "expire"}
  /\ payment = "pending"
  /\ Request(c, "expire", control[t].effective, control[t].session)

RequestVerify(c, t) ==
  /\ Target(t)
  /\ payment = "pending"
  /\ Request(c, "verify", control[t].effective, control[t].session)

(* recover names the session an administrator found at the provider. *)
RequestRecover(c, s) ==
  /\ current # None
  /\ payment = "pending"
  /\ attemptSession[current] = None
  /\ attemptState[current] \in {"unknown", "closing"}
  /\ Request(c, "recover", "recover", s)

-----------------------------------------------------------------------------
(* Dispatching a control *)

Closing(c) == control[c].effective \in {"cancel", "expire"}

\* Mutant of Closable: CheckoutClosure without its loop over the payments.
ClosableWhilePaying(c) ==
  /\ attemptSession[control[c].attempt] \in {None, control[c].session}
  /\ sessionRef[control[c].session] = control[c].attempt

(* CheckoutClosure::verify: made for this attempt, and no payment on it that
   was, or may still become, captured. *)
Closable(c) ==
  LET s == control[c].session
      a == control[c].attempt
  IN /\ attemptSession[a] \in {None, s}
     /\ sessionRef[s] = a
     /\ sessionPay[s] \in {"none", "failed"}

(* What dispatch() does next with a session that answered the GET: a closure
   asks for the expiry on its first read only, a recovery takes an active
   session back unless a payment failed on it, and an expired session retires
   the attempt whatever was asked. *)
ReadLeadsTo(c, next) ==
  LET s == control[c].session
  IN \/ next = "markBlocked" /\ ~ Closable(c)
     \/ next = "finishExpired" /\ Closable(c) /\ sessionStatus[s] = "expired"
     \/ /\ Closable(c)
        /\ sessionStatus[s] = "active"
        /\ \/ /\ next = "authorize"
              /\ Closing(c) /\ worker[c] = "fetch" /\ control[c].action # "verify"
           \/ /\ next = "markUnknown"
              /\ Closing(c) /\ (worker[c] = "refetch" \/ control[c].action = "verify")
           \/ next = "markBlocked" /\ ~ Closing(c) /\ sessionPay[s] = "failed"
           \/ next = "finishActive" /\ ~ Closing(c) /\ sessionPay[s] = "none"

WorkerReads(c, next) ==
  /\ worker[c] \in {"fetch", "refetch"}
  /\ Created(control[c].session)
  /\ ReadLeadsTo(c, next)
  /\ worker' = [worker EXCEPT ![c] = next]
  /\ UNCHANGED <<orderVars, attemptVars, controlVars, eventVars, creator, providerVars>>

(* Transport failure, or a session the provider does not know. *)
WorkerReadFails(c) ==
  /\ worker[c] \in {"fetch", "refetch"}
  /\ worker' = [worker EXCEPT ![c] = "markUnknown"]
  /\ UNCHANGED <<orderVars, attemptVars, controlVars, eventVars, creator, providerVars>>

\* Mutant of StillReserved: finish() without the reservation's revision.
StillPending(c) == controlState[c] = "pending" /\ status = "open"

(* The conditions authorizeDispatch() and finish() share: nothing has moved
   the order since the command reserved its revision. *)
StillReserved(c) ==
  /\ controlState[c] = "pending"
  /\ status = "open"
  /\ revision = control[c].reserved
  /\ current = control[c].attempt
  /\ attemptState[current] = "closing"

WorkerAuthorizes(c) ==
  /\ worker[c] = "authorize"
  /\ StillReserved(c)
  /\ payment = "pending"
  /\ worker' = [worker EXCEPT ![c] = "send"]
  /\ UNCHANGED <<orderVars, attemptVars, controlVars, eventVars, creator, providerVars>>

(* 409: the reservation is gone; 403: the actor has lost the role, which can
   happen at any time. *)
WorkerDenied(c) ==
  /\ worker[c] \in {"authorize", "finishActive", "finishExpired"}
  /\ worker' = [worker EXCEPT ![c] = "markBlocked"]
  /\ UNCHANGED <<orderVars, attemptVars, controlVars, eventVars, creator, providerVars>>

\* Mutant of WorkerSends: the POST is taken for the expiry, without the second GET.
WorkerSendsTrusting(c) ==
  /\ worker[c] = "send"
  /\ expirePosts' = expirePosts \cup {control[c].session}
  /\ worker' = [worker EXCEPT ![c] = "finishExpired"]
  /\ UNCHANGED <<orderVars, attemptVars, controlVars, eventVars, creator,
                 createPosts, sessionRef, sessionStatus, sessionPay>>

(* The expire POST of this command: it leaves, or it never does, and its
   failure is ignored. *)
WorkerSends(c) ==
  /\ worker[c] = "send"
  /\ expirePosts' \in {expirePosts, expirePosts \cup {control[c].session}}
  /\ worker' = [worker EXCEPT ![c] = "refetch"]
  /\ UNCHANGED <<orderVars, attemptVars, controlVars, eventVars, creator,
                 createPosts, sessionRef, sessionStatus, sessionPay>>

(* outcome(): nothing but the command's own state. *)
WorkerMarks(c) ==
  /\ worker[c] \in {"markUnknown", "markBlocked"}
  /\ controlState' =
       IF controlState[c] = "pending"
         THEN [controlState EXCEPT ![c] =
                 IF worker[c] = "markUnknown" THEN "unknown" ELSE "blocked"]
         ELSE controlState
  /\ worker' = [worker EXCEPT ![c] = "done"]
  /\ UNCHANGED <<orderVars, attemptVars, control, eventVars, creator, providerVars>>

(* finish(): the recovered session is bound and payable again. *)
FinishActive(c) ==
  /\ worker[c] = "finishActive"
  /\ StillReserved(c)
  /\ payment \in {"unpaid", "pending"}
  /\ attemptState' = [attemptState EXCEPT ![current] = "active"]
  /\ attemptSession' = [attemptSession EXCEPT ![current] = control[c].session]
  /\ controlState' = [controlState EXCEPT ![c] = "confirmed"]
  /\ revision' = revision + 1
  /\ worker' = [worker EXCEPT ![c] = "done"]
  /\ UNCHANGED <<orderAxes, current, settlement, control, eventVars, creator, providerVars>>

(* finish(): the attempt is retired on proof of its expiry, the order is
   unpaid again, and a cancellation takes effect. *)
FinishExpired(c) ==
  /\ worker[c] = "finishExpired"
  /\ StillReserved(c)
  /\ payment \in {"unpaid", "pending"}
  /\ attemptState' = [attemptState EXCEPT ![current] = "expired"]
  /\ attemptSession' = [attemptSession EXCEPT ![current] = control[c].session]
  /\ controlState' = [controlState EXCEPT ![c] = "confirmed"]
  /\ current' = None
  /\ payment' = "unpaid"
  /\ IF control[c].effective = "cancel"
       THEN status' = "cancelled" /\ fulfillment' = "cancelled"
       ELSE UNCHANGED <<status, fulfillment>>
  /\ revision' = revision + 1
  /\ worker' = [worker EXCEPT ![c] = "done"]
  /\ UNCHANGED <<approval, settlement, control, eventVars, creator, providerVars>>

WorkerDies(c) ==
  /\ worker[c] \notin {"idle", "done", "dead"}
  /\ worker' = [worker EXCEPT ![c] = "dead"]
  /\ UNCHANGED <<orderVars, attemptVars, controlVars, eventVars, creator, providerVars>>

-----------------------------------------------------------------------------
(* The specification *)

Provider ==
  ProviderNext /\ UNCHANGED <<orderVars, attemptVars, controlVars, eventVars, processVars>>

Creating(a) ==
  \/ CreateSend(a)
  \/ \E s \in Sessions : CreateAnswered(a, s) \/ CreateFetched(a, s)
  \/ CreateFails(a)
  \/ CreateSaved(a)
  \/ CreatorDies(a)

Evidence(e) ==
  \/ \E a \in Attempts : \/ ReceiveApplied(e, a)
                         \/ ReceiveRejected(e, a)
                         \/ ReconcileRead(e, a)
                         \/ ReconcileCommit(e, a)
  \/ ReconcileAborts(e)

Requests(c) ==
  \/ CancelLocally(c)
  \/ RequestCancel(c)
  \/ RequestExpire(c)
  \/ \E t \in Controls : RequestExpireOf(c, t) \/ RequestVerify(c, t)
  \/ \E s \in Sessions : RequestRecover(c, s)

Dispatch(c) ==
  \/ \E next \in WorkerStates : WorkerReads(c, next)
  \/ WorkerReadFails(c)
  \/ WorkerAuthorizes(c)
  \/ WorkerDenied(c)
  \/ WorkerSends(c)
  \/ WorkerMarks(c)
  \/ FinishActive(c)
  \/ FinishExpired(c)
  \/ WorkerDies(c)

(* Everything that moves a payment once it has been started. *)
Settling ==
  \/ \E a \in Attempts : Creating(a)
  \/ \E e \in Events : Evidence(e)
  \/ \E c \in Controls : Requests(c) \/ Dispatch(c)
  \/ Provider

Next ==
  \/ \E next \in Approvals : Review(next)
  \/ \E a \in Attempts : StartPayment(a)
  \/ Settling

Spec == Init /\ [][Next]_vars

-----------------------------------------------------------------------------
(* Safety *)

(* At no time can money be taken from the payer in two ways.  A session that
   is chargeable - active, or with a payment processing or captured on it -
   is the only one, no second one is being created, and it belongs to the
   attempt that holds the open order's payment.  The pointer swap of start()
   and finish(), and every late answer of the provider, are what could break
   it. *)
OneWayToPay ==
  /\ \A s, t \in Sessions : Chargeable(s) /\ Chargeable(t) => s = t
  /\ \A s \in Sessions : Chargeable(s) =>
       /\ createPosts = {}
       /\ sessionRef[s] = current
       /\ status = "open"
       /\ payment \in {"pending", "paid"}
  /\ \A a \in createPosts : a = current /\ payment = "pending"

(* An order is paid exactly when its current attempt has a settlement, and a
   settlement always names a session on which the provider holds the money. *)
PaidIffSettled ==
  /\ (payment = "paid") <=> (\E a \in Attempts : settlement[a] # None)
  /\ \A a \in Attempts : settlement[a] # None =>
       /\ a = current
       /\ attemptState[a] = "paid"
       /\ Captured(settlement[a])
       /\ sessionRef[settlement[a]] = a

(* A closure the application has confirmed is real: the session of the
   command is expired at the provider and nothing was taken on any session of
   its attempt, whatever arrived late or crashed in between. *)
ConfirmedClosureIsReal ==
  \A c \in Controls :
    controlState[c] = "confirmed" /\ Closing(c) /\ control[c].attempt # None =>
      /\ sessionRef[control[c].session] = control[c].attempt
      /\ \A s \in Sessions :
           sessionRef[s] = control[c].attempt => ~ Chargeable(s)

(* Money the provider has taken can be settled at once by its signed event, in
   every state: no command under way, answer still missing or process dead
   stands in its way.  Only a session that expired while the payment on it was
   being processed strands it (payment_mismatch). *)
OnlyExpiryStrandsMoney ==
  \A s \in Sessions : Captured(s) =>
    \/ sessionStatus[s] = "expired" /\ ExpiresWhileProcessing
    \/ \E a \in Attempts : Candidate(s, a) /\ Verified(s, a) /\ CanApply(s, a)

(* "Hide payable continuation while closure is unresolved": a cancellation or
   expiry of the current attempt whose recorded outcome is unknown has not
   been followed by an active attempt, the only one with a checkout_url.
   (docs/plans/2026-10-18-paymongo-operations.md; the code does not keep it.) *)
ClosureHidesPayment ==
  \A c \in Controls :
    controlState[c] = "unknown" /\ Closing(c) /\ control[c].attempt = current
      => attemptState[control[c].attempt] # "active"

(* What would keep it: no recovery is requested or verified on an attempt that
   has been asked to close. *)
ClosuresAreNotOvertaken ==
  \A c, d \in Controls :
    /\ controlState[c] = "absent" /\ controlState'[c] # "absent"
    /\ controlState[d] # "absent" /\ Closing(d)
    /\ control'[c].attempt = control[d].attempt
    => Closing(c)'

HeldSpec == Init /\ [][Next /\ ClosuresAreNotOvertaken]_vars

Axes == [status |-> status, approval |-> approval,
         payment |-> payment, fulfillment |-> fulfillment]

(* The saving hooks of PaymentAttempt and PaymentControl, as predicates. *)
AttemptNext ==
  [from \in AttemptStates |->
     CASE from = "creating" -> {"active", "unknown", "rejected", "paid"}
       [] from = "unknown"  -> {"active", "closing", "expired", "paid"}
       [] from = "active"   -> {"closing", "expired", "paid"}
       [] from = "closing"  -> {"active", "expired", "paid"}
       [] OTHER             -> {}]

AttemptHookAccepts(a) ==
  /\ attemptState'[a] # attemptState[a] =>
       IF attemptState[a] = "absent" THEN attemptState'[a] = "creating"
       ELSE attemptState'[a] \in AttemptNext[attemptState[a]]
  /\ attemptSession[a] # None => attemptSession'[a] = attemptSession[a]

ControlHookAccepts(c) ==
  /\ controlState[c] \in {"blocked", "confirmed"} => controlState'[c] = controlState[c]
  /\ controlState[c] = "unknown" => controlState'[c] # "pending"

(* A save moves the revision by one or leaves it; one that changes the axes or
   the current attempt moves it.  CancelLocally saves twice: the reservation,
   then the cancellation. *)
NextRevisions ==
  IF Axes' = Axes /\ current' = current THEN {revision, revision + 1}
  ELSE IF payment = "unpaid" /\ status' # status THEN {revision + 2}
  ELSE {revision + 1}

(* The saving hook of Order: the next revision, OrderLifecycle::validate, and
   the rules of retirement and settlement.  Its rules for approval_expires_at
   (:44-46) and pending_proposal_id (:51-54) are in DealInv of OrderReview. *)
OrderHookAccepts ==
  /\ ConsistentAxes(Axes')
  /\ AllowedStep(Axes, Axes')
  /\ revision' \in NextRevisions
  /\ payment = "pending" /\ payment' = "unpaid" =>
       /\ current' = None
       /\ attemptState'[current] = "expired"
       /\ settlement[current] = None
       /\ \E c \in Controls : /\ controlState'[c] = "confirmed"
                              /\ control[c].attempt = current
  /\ payment' = "pending" => current' # None
  /\ payment' = "paid" => /\ attemptState'[current'] = "paid"
                                /\ settlement'[current'] # None

HooksAccept ==
  /\ OrderHookAccepts
  /\ \A a \in Attempts : AttemptHookAccepts(a)
  /\ \A c \in Controls : ControlHookAccepts(c)

(* The models refuse an illegal save by an exception, which would roll back a
   step after an irreversible exchange with the provider.  No interleaving
   ever gets there: every save that happens is one the hooks accept. *)
HooksNeverRefuse == [][HooksAccept]_vars

-----------------------------------------------------------------------------
(* The inductive invariant behind the safety properties *)

(* The order row and the attempt it points at move together. *)
PointerInv ==
  /\ payment \in {"unpaid", "pending", "paid"}
  /\ payment = "unpaid" <=> current = None
  /\ payment # "unpaid" => status = "open" /\ approval = "approved"
  /\ \/ status = "open" /\ fulfillment = "not_started"
     \/ status = "cancelled" /\ fulfillment = "cancelled"
  /\ payment = "pending" =>
       attemptState[current] \in {"creating", "unknown", "active", "closing"}
  /\ payment = "paid" => attemptState[current] = "paid"
  /\ \A a \in Attempts : a # current => attemptState[a] \in {"absent", "expired"}

(* An attempt has at most one session, because its POST leaves at most once;
   it can be closed only after its creation dispatch has ended. *)
CreationInv ==
  /\ \A a \in Attempts :
       /\ creator[a] = "idle" <=> attemptState[a] = "absent"
       /\ creator[a] \in {"idle", "post"} => a \notin createPosts
       /\ creator[a] \in {"idle", "post"} \/ a \in createPosts =>
            \A s \in Sessions : sessionRef[s] # a
       /\ attemptState[a] \in {"unknown", "active", "closing", "expired"} =>
            creator[a] = "done"
  /\ \A s, t \in Sessions : Created(s) /\ sessionRef[s] = sessionRef[t] => s = t
  /\ \A s \in Sessions : ~ Created(s) => sessionPay[s] = "none"

BindingInv ==
  \A a \in Attempts : attemptSession[a] # None => sessionRef[attemptSession[a]] = a

\* Nothing was taken on the session and nothing can be any more.
Dead(s) == sessionStatus[s] = "expired" /\ sessionPay[s] \in {"none", "failed"}

RetirementInv ==
  \A a \in Attempts : attemptState[a] = "expired" =>
    /\ a \notin createPosts
    /\ \A s \in Sessions : sessionRef[s] = a => Dead(s)

SettlementInv ==
  \A a \in Attempts :
    /\ attemptState[a] = "paid" <=> settlement[a] # None
    /\ settlement[a] # None => /\ Captured(settlement[a])
                               /\ sessionRef[settlement[a]] = a

(* What a dispatch has read stays true until it acts on it. *)
DispatchInv ==
  \A c \in Controls :
    /\ worker[c] = "finishActive" =>
         /\ control[c].effective = "recover"
         /\ sessionRef[control[c].session] = control[c].attempt
    /\ worker[c] = "finishExpired" =>
         /\ sessionRef[control[c].session] = control[c].attempt
         /\ Dead(control[c].session)
    /\ controlState[c] # "absent" /\ control[c].attempt # None =>
         attemptState[control[c].attempt] # "absent"
    /\ controlState[c] = "confirmed" /\ Closing(c) /\ control[c].attempt # None =>
         /\ attemptState[control[c].attempt] = "expired"
         /\ sessionRef[control[c].session] = control[c].attempt

(* Under HeldSpec, what was reserved to make an attempt payable again was
   reserved before any closure of it, and is out of date. *)
HeldInv ==
  /\ \A c \in Controls : controlState[c] # "absent" =>
       /\ control[c].reserved <= revision
       /\ control[c].attempt = None => controlState[c] = "confirmed"
  /\ \A d \in Controls :
       controlState[d] # "absent" /\ Closing(d) /\ control[d].attempt = current /\ current # None =>
         /\ attemptState[current] \in {"closing", "paid"}
         /\ \A c \in Controls :
              controlState[c] # "absent" /\ ~Closing(c) /\ control[c].attempt = current =>
                control[c].reserved < control[d].reserved

\* A payment in flight or captured keeps its session active.
LiveInv ==
  \A s \in Sessions :
    sessionStatus[s] = "expired" /\ sessionPay[s] \in {"processing", "paid"} => ExpiresWhileProcessing

PaymentInv ==
  /\ TypeOK
  /\ PointerInv
  /\ CreationInv
  /\ BindingInv
  /\ RetirementInv
  /\ SettlementInv
  /\ DispatchInv

-----------------------------------------------------------------------------
(* Refinement *)

Phase == IF status = "cancelled" THEN "cancelled"
         ELSE IF payment = "pending" THEN "reserved" ELSE payment

Taken == {s \in Sessions : Captured(s)}

Ledger == INSTANCE PaymentLedger WITH Charges <- Sessions, phase <- Phase, charged <- Taken

(* The payment protocol implements the ledger: reserve, charge once, confirm;
   never charged while released or cancelled. *)
ImplementsLedger == Ledger!LedgerSpec

-----------------------------------------------------------------------------
(* Liveness *)

(* The provider repeats a signed delivery until it is answered, so a receipt
   that can be applied is eventually applied.  No progress of the customer,
   the administrator or a crashed dispatch is assumed. *)
FairSpec ==
  Spec /\ \A e \in Events : WF_vars(\E a \in Attempts : ReceiveApplied(e, a))

(* Money the provider has taken ends up as a paid order, whichever control
   commands run against the webhook and wherever the dispatches die. *)
CaptureIsAcknowledged == Ledger!Acknowledges
=============================================================================
