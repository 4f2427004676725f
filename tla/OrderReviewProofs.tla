------------------------- MODULE OrderReviewProofs --------------------------
(***************************************************************************)
(* Theorems about OrderReview.  A review implements the payment protocol,  *)
(* so the invariant of OrderPayment is available; what is added is that    *)
(* pages, consents, approvals and charges agree.                           *)
(***************************************************************************)
EXTENDS OrderReview, OrderPaymentProofs

USE ReviewAssumption

-----------------------------------------------------------------------------
(* The refinement *)

LEMMA CommandIsReview ==
  ASSUME NEW t, NEW next \in Approvals, Command(t, next)
  PROVE  Next
  BY DEF Command, Next

(* Every step is one of the payment protocol, or does not touch it. *)
LEMMA ReviewStepsPay ==
  ASSUME TypeOK, [ReviewNext]_<<vars, reviewVars>>
  PROVE  [Next]_vars
  <1>1. ASSUME NEW t \in Tabs, Customer(t)
        PROVE  Next
    <2>1. CASE Resubmit(t) \/ AcceptProposal(t)
      BY <2>1, CommandIsReview DEF Resubmit, AcceptProposal, Approvals
    <2>2. CASE Converse(t)
      BY <2>2, CommandIsReview DEF Converse, TypeOK
    <2>3. CASE \E a \in Attempts : Pay(t, a)
      BY <2>3 DEF Pay, Next
    <2>4. QED
      BY <1>1, <2>1, <2>2, <2>3 DEF Customer
  <1>2. ASSUME NEW t \in Staff, Reviewer(t)
        PROVE  Next
    <2>1. CASE Approve(t) \/ Reject(t) \/ Clarify(t) \/ Propose(t)
      BY <2>1, CommandIsReview DEF Approve, Reject, Clarify, Propose, Approvals
    <2>2. CASE Converse(t)
      BY <2>2, CommandIsReview DEF Converse, TypeOK
    <2>3. QED
      BY <1>2, <2>1, <2>2 DEF Reviewer
  <1>3. CASE ExpireListed
    BY <1>3 DEF ExpireListed, Next, Approvals
  <1>4. CASE Settling
    BY <1>4 DEF Next
  <1>5. QED
    BY <1>1, <1>2, <1>3, <1>4 DEF ReviewNext, Look, ListOverdue, DropListed, Lapse,
       Requote, SwitchSale

(* Review and payment together are a payment: pages, contents and expiries only
   refuse steps that the protocol of OrderPayment would allow.  All of its
   theorems therefore hold of the composition. *)
THEOREM PaymentImplemented == ReviewSpec => ImplementsPayment
  <1>1. ReviewInit => Init
    BY DEF ReviewInit
  <1>2. TypeOK /\ [ReviewNext]_<<vars, reviewVars>> => TypeOK'
    BY ReviewStepsPay, NextTyped
  <1>3. TypeOK /\ [ReviewNext]_<<vars, reviewVars>> => [Next]_vars
    BY ReviewStepsPay
  <1>4. Init => TypeOK
    BY InitTyped
  <1>5. QED
    BY <1>1, <1>2, <1>3, <1>4, PTL DEF ReviewSpec, ImplementsPayment, Spec

-----------------------------------------------------------------------------
(* The invariant *)

LEMMA ReviewInitInv == ReviewInit => ReviewInv
  <1> SUFFICES ASSUME ReviewInit PROVE ReviewInv
    OBVIOUS
  <1> USE DEF ReviewInit, Init
  <1>1. accepted \in Deals /\ NoCharge \in [deal : Deals, seen : Deals, lapsed : BOOLEAN]
    BY DEF Deals, NoCharge
  <1>2. Page \in Shown
    BY <1>1 DEF Page, Shown
  <1>3. ReviewTypeOK
    <2>1. proposals \in Seq(Nat) /\ proposal \in 0..Len(proposals)
      OBVIOUS
    <2>2. screen \in [Screens -> Shown] /\ live \in Nat
      BY <1>2
    <2>3. charged \in [Attempts -> [deal : Deals, seen : Deals, lapsed : BOOLEAN]]
      BY <1>1
    <2>4. QED
      BY <1>1, <2>1, <2>2, <2>3 DEF ReviewTypeOK
  <1>4. ScreenInv /\ DealInv
    BY DEF ScreenInv, DealInv, Newest, Page
  <1>5. ChargedAsAgreed
    BY DEF ChargedAsAgreed
  <1>6. QED
    BY <1>3, <1>4, <1>5 DEF ReviewInv

(* A payment under way moves the revision forward, leaves the approval alone,
   makes no attempt and points the order at no other one. *)
LEMMA SettlingShape ==
  ASSUME PaymentInv, Settling
  PROVE  /\ approval' = approval
         /\ revision' \in Nat /\ revision <= revision'
         /\ current' \in {current, None}
         /\ \A a \in Attempts : attemptState'[a] # "absent" => attemptState[a] # "absent"
  <1> USE DEF PaymentInv, TypeOK, orderVars, orderAxes, attemptVars
  <1>1. ASSUME NEW a \in Attempts, Creating(a)
        PROVE  /\ UNCHANGED <<approval, revision, current>>
               /\ \A b \in Attempts : attemptState'[b] # "absent" => attemptState[b] # "absent"
    BY <1>1 DEF Creating, CreateSend, CreateAnswered, CreateFetched, CreateFails,
                CreateSaved, CreatorDies, CreationInv
  <1>2. ASSUME NEW e \in Events, Evidence(e)
        PROVE  /\ UNCHANGED <<approval, current>>
               /\ revision' \in {revision, revision + 1}
               /\ \A b \in Attempts : attemptState'[b] # "absent" => attemptState[b] # "absent"
    BY <1>2 DEF Evidence, ReceiveApplied, ReceiveRejected, ReconcileRead, ReconcileCommit,
                ReconcileAborts, Apply, Settle, Settleable
  <1>3. ASSUME NEW c \in Controls, Requests(c)
        PROVE  /\ UNCHANGED <<approval, current>>
               /\ revision' \in {revision + 1, revision + 2}
               /\ \A b \in Attempts : attemptState'[b] # "absent" => attemptState[b] # "absent"
    BY <1>3 DEF Requests, CancelLocally, RequestCancel, RequestExpire, RequestExpireOf,
                RequestVerify, RequestRecover, Request, Requestable
  <1>4. ASSUME NEW c \in Controls, Dispatch(c)
        PROVE  /\ UNCHANGED approval
               /\ current' \in {current, None}
               /\ revision' \in {revision, revision + 1}
               /\ \A b \in Attempts : attemptState'[b] # "absent" => attemptState[b] # "absent"
    BY <1>4 DEF Dispatch, WorkerReads, WorkerReadFails, WorkerAuthorizes, WorkerDenied,
                WorkerSends, WorkerMarks, FinishActive, FinishExpired, WorkerDies, StillReserved
  <1>5. CASE Provider
    BY <1>5 DEF Provider
  <1>6. QED
    BY <1>1, <1>2, <1>3, <1>4, <1>5 DEF Settling

(* The steps that write neither the order nor its contents. *)
LEMMA SurroundingsKeep ==
  ASSUME PaymentInv, ReviewInv,
         \/ Requote \/ SwitchSale \/ Lapse \/ ListOverdue \/ DropListed
         \/ UNCHANGED <<vars, reviewVars>>
  PROVE  ReviewInv'
  <1>1. UNCHANGED <<revision, approval, current, attemptState, dealVars, screen, charged>>
    BY DEF Requote, SwitchSale, Lapse, ListOverdue, DropListed, vars, orderVars, orderAxes,
           attemptVars, reviewVars
  <1>2. live' \in Nat
    BY DEF Requote, SwitchSale, Lapse, ListOverdue, DropListed, reviewVars, quoteVars, ReviewInv,
           ReviewTypeOK
  <1>3. sellable' \in BOOLEAN /\ listed' \in BOOLEAN
    BY Zenon DEF Requote, SwitchSale, Lapse, ListOverdue, DropListed, reviewVars, quoteVars,
           ReviewInv, ReviewTypeOK
  <1>4. lapsed' = lapsed \/ (lapsed' = TRUE /\ approval = "approved")
    <2>1. CASE Lapse
      BY <2>1 DEF Lapse
    <2>2. CASE ~ Lapse
      BY <2>2 DEF Requote, SwitchSale, ListOverdue, DropListed, reviewVars
    <2>3. QED
      BY <2>1, <2>2
  <1>5. lapsed' \in BOOLEAN
    BY <1>4 DEF ReviewInv, ReviewTypeOK
  <1>6. lapsed' => approval = "approved"
    <2>1. CASE lapsed' = lapsed
      BY <2>1, Zenon DEF ReviewInv, DealInv
    <2>2. CASE approval = "approved"
      BY <2>2
    <2>3. QED
      BY <1>4, <2>1, <2>2
  <1>7. QED
    BY <1>1, <1>2, <1>3, <1>5, <1>6 DEF ReviewInv, ReviewTypeOK, ScreenInv, DealInv, Newest, ChargedAsAgreed, dealVars

LEMMA LookKeeps ==
  ASSUME PaymentInv, ReviewInv, NEW t \in Screens, Look(t)
  PROVE  ReviewInv'
  <1>1. Page \in Shown
    BY DEF Page, Shown, ReviewInv, ReviewTypeOK, PaymentInv, TypeOK
  <1>2. ReviewTypeOK'
    BY <1>1 DEF Look, ReviewInv, ReviewTypeOK, dealVars, quoteVars
  <1>3. ScreenInv'
    BY <1>1 DEF Look, Page, ReviewInv, ReviewTypeOK, ScreenInv, PaymentInv, TypeOK, vars,
                orderVars, dealVars
  <1>4. DealInv' /\ ChargedAsAgreed'
    BY DEF Look, ReviewInv, DealInv, Newest, ChargedAsAgreed, vars, orderVars,
           orderAxes, attemptVars, dealVars
  <1>5. QED
    BY <1>2, <1>3, <1>4 DEF ReviewInv

LEMMA SettlingKeeps ==
  ASSUME PaymentInv, ReviewInv, Settling, UNCHANGED reviewVars
  PROVE  ReviewInv'
  <1> USE DEF ReviewInv, reviewVars, quoteVars, dealVars
  <1>1. ReviewTypeOK'
    BY DEF ReviewTypeOK
  <1>2. ScreenInv'
    BY SettlingShape DEF ScreenInv, ReviewTypeOK, Shown, PaymentInv, TypeOK
  <1>3. DealInv'
    BY SettlingShape DEF DealInv, Newest
  <1>4. ChargedAsAgreed'
    <2> SUFFICES ASSUME NEW a \in Attempts, attemptState'[a] # "absent"
                 PROVE  /\ charged[a].deal = charged[a].seen
                        /\ charged[a].deal \in consents \cap approvals
                        /\ ~ charged[a].lapsed
                        /\ a = current' => accepted = charged[a].deal
      BY DEF ChargedAsAgreed
    <2>1. attemptState[a] # "absent" /\ (a = current' => a = current)
      BY SettlingShape, ProviderAssumption
    <2>2. QED
      BY <2>1 DEF ChargedAsAgreed
  <1>5. QED
    BY <1>1, <1>2, <1>3, <1>4

(* The order row after a command: a new revision, and no payment. *)
LEMMA CommandShape ==
  ASSUME PaymentInv, ReviewInv, NEW t \in Screens, NEW next \in Approvals, Command(t, next)
  PROVE  /\ screen[t].deal = accepted /\ screen[t].proposal = proposal
         /\ approval' = next /\ revision' = revision + 1 /\ revision \in Nat
         /\ current = None /\ current' = None
         /\ UNCHANGED <<attemptState, live, sellable, listed, screen, charged>>
         /\ lapsed' = (lapsed /\ next = "approved")
         /\ next \in ApprovalNext[approval] \cup {approval}
  BY DEF Command, Expected, Review, PaymentInv, PointerInv, TypeOK, ReviewInv, ScreenInv,
         attemptVars, quoteVars

(* What a command leaves to show: the contents. *)
LEMMA CommandKeeps ==
  ASSUME PaymentInv, ReviewInv, NEW t \in Screens, NEW next \in Approvals, Command(t, next),
         accepted' \in Deals, proposals' \in Seq(Nat), proposal' \in 0..Len(proposals'),
         consents' \subseteq Deals, approvals' \subseteq Deals,
         consents \subseteq consents', approvals \subseteq approvals',
         accepted' \in consents',
         next = "approved" => accepted' \in approvals',
         proposal' # 0 => next = "clarification",
         proposal' # 0 => proposal' = Len(proposals'),
         proposal' = 0 /\ next # "rejected" /\ proposals' # <<>> =>
           accepted'.content = proposals'[Len(proposals')]
  PROVE  ReviewInv'
  <1>1. ReviewTypeOK'
    BY CommandShape DEF ReviewInv, ReviewTypeOK
  <1>2. ScreenInv'
    BY CommandShape DEF ReviewInv, ReviewTypeOK, ScreenInv, Shown
  <1>3. DealInv'
    BY CommandShape DEF ReviewInv, DealInv, Newest, ReviewTypeOK
  <1>4. ChargedAsAgreed'
    <2> SUFFICES ASSUME NEW a \in Attempts, attemptState'[a] # "absent"
                 PROVE  /\ charged'[a].deal = charged'[a].seen
                        /\ charged'[a].deal \in consents' \cap approvals'
                        /\ ~ charged'[a].lapsed
                        /\ a # current'
      BY DEF ChargedAsAgreed
    <2>1. attemptState[a] # "absent" /\ charged' = charged /\ current' = None
      BY CommandShape
    <2>2. QED
      BY <2>1, ProviderAssumption DEF ReviewInv, ChargedAsAgreed
  <1>5. QED
    BY <1>1, <1>2, <1>3, <1>4 DEF ReviewInv

LEMMA ReviewerKeeps ==
  ASSUME PaymentInv, ReviewInv, NEW t \in Screens, Reviewer(t)
  PROVE  ReviewInv'
  <1> USE DEF ReviewInv, ReviewTypeOK, DealInv, dealVars, Newest
  <1>1. CASE Approve(t)
    BY <1>1, CommandShape, CommandKeeps DEF Approve, Approvals
  <1>2. CASE Reject(t)
    BY <1>2, CommandShape, CommandKeeps DEF Reject, Approvals
  <1>3. CASE Clarify(t)
    BY <1>3, CommandShape, CommandKeeps DEF Clarify, Approvals
  <1>4. CASE Propose(t)
    <2>1. Command(t, "clarification") /\ "clarification" \in Approvals
      BY <1>4 DEF Propose, Approvals
    <2>2. /\ approval' = "clarification"
          /\ UNCHANGED <<accepted, consents, approvals>>
      BY <1>4, <2>1, CommandShape DEF Propose
    <2>3. proposals' \in Seq(Nat) /\ proposal' = Len(proposals') /\ proposal' # 0
      BY <1>4 DEF Propose
    <2>4. QED
      BY <2>1, <2>2, <2>3, CommandKeeps
  <1>5. CASE Converse(t)
    BY <1>5, CommandShape, CommandKeeps DEF Converse, PaymentInv, TypeOK
  <1>6. QED
    BY <1>1, <1>2, <1>3, <1>4, <1>5 DEF Reviewer

LEMMA CustomerKeeps ==
  ASSUME PaymentInv, ReviewInv, NEW t \in Screens, Customer(t)
  PROVE  ReviewInv'
  <1> USE DEF ReviewInv, ReviewTypeOK, DealInv, dealVars, Newest
  <1>1. ASSUME NEW content \in Nat, Command(t, "pending"),
               Accept([version |-> accepted.version + 1, content |-> content], content),
               proposals # <<>> => content = Newest
        PROVE  ReviewInv'
    <2>1. "pending" \in Approvals
      BY DEF Approvals
    <2>2. accepted' = [version |-> accepted.version + 1, content |-> content]
      BY <1>1 DEF Accept
    <2>3. accepted' \in Deals /\ accepted'.content = content
      BY <1>1, <2>2 DEF Deals
    <2>4. /\ proposals' = proposals /\ proposal' = 0 /\ approvals' = approvals
          /\ consents' = consents \cup {accepted'}
      BY <1>1, <2>2 DEF Accept
    <2>5. QED
      BY <1>1, <2>1, <2>3, <2>4, CommandKeeps DEF Newest
  <1>2. CASE Resubmit(t)
    <2>1. Command(t, "pending") /\ screen[t].deal = accepted
      BY <1>2, CommandShape DEF Resubmit, Approvals
    <2>2. /\ [accepted EXCEPT !.version = @ + 1]
               = [version |-> accepted.version + 1, content |-> accepted.content]
          /\ accepted.content \in Nat
      BY DEF Deals
    <2>3. proposals # <<>> => accepted.content = Newest
      BY <1>2 DEF Resubmit
    <2>4. QED
      BY <1>1, <1>2, <2>1, <2>2, <2>3 DEF Resubmit
  <1>3. CASE AcceptProposal(t)
    <2>1. /\ Command(t, "pending") /\ screen[t].deal = accepted
          /\ screen[t].proposal = proposal /\ proposal # 0
      BY <1>3, CommandShape DEF AcceptProposal, Approvals
    <2>2. proposals[proposal] \in Nat /\ proposals[proposal] = Newest
      BY <2>1 DEF Newest
    <2>3. QED
      BY <1>1, <1>3, <2>1, <2>2 DEF AcceptProposal
  <1>4. CASE Converse(t)
    BY <1>4, CommandShape, CommandKeeps DEF Converse, PaymentInv, TypeOK
  <1>5. CASE \E a \in Attempts : Pay(t, a)
    <2>1. PICK a \in Attempts : Pay(t, a)
      BY <1>5
    <2>2. /\ screen[t].deal = accepted /\ approval = "approved" /\ ~ lapsed
          /\ attemptState[a] = "absent" /\ current = None
          /\ attemptState' = [attemptState EXCEPT ![a] = "creating"]
          /\ current' = a /\ revision' = revision + 1 /\ approval' = approval
          /\ charged' = [charged EXCEPT ![a] =
               [deal |-> accepted, seen |-> screen[t].deal, lapsed |-> lapsed]]
          /\ UNCHANGED <<quoteVars, dealVars, lapsed, listed, screen>>
      BY <2>1 DEF Pay, Payable, Expected, StartPayment, Eligible, ScreenInv
    <2>3. [deal |-> accepted, seen |-> screen[t].deal, lapsed |-> lapsed]
            \in [deal : Deals, seen : Deals, lapsed : BOOLEAN]
      BY <2>2
    <2>4. ReviewTypeOK'
      BY <2>2, <2>3 DEF quoteVars
    <2>5. ScreenInv'
      BY <2>2 DEF ScreenInv, Shown, PaymentInv, TypeOK
    <2>6. DealInv'
      BY <2>2
    <2>7. ChargedAsAgreed'
      <3> SUFFICES ASSUME NEW b \in Attempts, attemptState'[b] # "absent"
                   PROVE  /\ charged'[b].deal = charged'[b].seen
                          /\ charged'[b].deal \in consents \cap approvals
                          /\ ~ charged'[b].lapsed
                          /\ b = current' => accepted = charged'[b].deal
        BY <2>2 DEF ChargedAsAgreed
      <3>1. CASE b = a
        BY <2>2, <3>1
      <3>2. CASE b # a
        BY <2>2, <3>2 DEF ChargedAsAgreed, PaymentInv, TypeOK
      <3>3. QED
        BY <3>1, <3>2
    <2>8. QED
      BY <2>4, <2>5, <2>6, <2>7
  <1>6. QED
    BY <1>2, <1>3, <1>4, <1>5 DEF Customer

LEMMA ExpiryKeeps ==
  ASSUME PaymentInv, ReviewInv, ExpireListed
  PROVE  ReviewInv'
  <1> USE DEF ReviewInv, ReviewTypeOK
  <1>1. /\ approval = "approved" /\ approval' = "expired" /\ revision' = revision + 1
        /\ current' = current /\ attemptState' = attemptState
        /\ lapsed' = FALSE /\ listed' = FALSE
        /\ UNCHANGED <<live, sellable, accepted, proposals, proposal, consents, approvals,
                       screen, charged>>
    BY DEF ExpireListed, Overdue, Review, attemptVars, quoteVars, dealVars
  <1>2. ReviewTypeOK'
    BY <1>1
  <1>3. ScreenInv'
    BY <1>1 DEF ScreenInv, Shown, PaymentInv, TypeOK
  <1>4. DealInv' /\ ChargedAsAgreed'
    BY <1>1 DEF DealInv, Newest, ChargedAsAgreed
  <1>5. QED
    BY <1>2, <1>3, <1>4

LEMMA ReviewStepKeeps ==
  ASSUME PaymentInv, ReviewInv, [ReviewNext]_<<vars, reviewVars>>
  PROVE  ReviewInv'
  <1>1. Tabs \subseteq Screens /\ Staff \subseteq Screens
    BY DEF Screens
  <1>2. QED
    BY <1>1, SurroundingsKeep, LookKeeps, SettlingKeeps, ReviewerKeeps, CustomerKeeps, ExpiryKeeps
       DEF ReviewNext

(* In every reachable state the pages that are up to date show the deal, the
   current deal is one its customer agreed to, and an approval is of it. *)
THEOREM ReviewInvariant == ReviewSpec => []ReviewInv
  <1>1. QED
    BY ReviewInitInv, ReviewStepKeeps, PaymentImplemented, Invariant, PTL
       DEF ReviewSpec, ImplementsPayment

(* Whatever pages are stale and however late the scheduler is, a payer is
   charged exactly for what was shown, agreed to and approved. *)
THEOREM ChargesAreAgreed == ReviewSpec => []ChargedAsAgreed
  <1>1. QED
    BY ReviewInvariant, PTL DEF ReviewInv

(* A deal the staff have proposed to change never comes back. *)
THEOREM ProposalsAreNotBypassed == ReviewSpec => []ProposalIsNotBypassed
  <1>1. ReviewInv => ProposalIsNotBypassed
    BY DEF ReviewInv, DealInv, ProposalIsNotBypassed
  <1>2. QED
    BY <1>1, ReviewInvariant, PTL

(* What is accepted changes only to what is on offer, proposed and shown. *)
THEOREM ChangesStayCurrent == ReviewSpec => ChangesAreCurrent
  <1>1. ASSUME PaymentInv, ReviewInv, [ReviewNext]_<<vars, reviewVars>>
        PROVE  [ChangeIsCurrent]_<<vars, reviewVars>>
    <2>1. ASSUME NEW t \in Screens, AcceptProposal(t)
          PROVE  ChangeIsCurrent
      <3>1. Command(t, "pending") /\ "pending" \in Approvals /\ proposal # 0
        BY <2>1 DEF AcceptProposal, Approvals
      <3>2. screen[t].deal = accepted /\ screen[t].proposal = proposal
        BY <1>1, <3>1, CommandShape
      <3>3. /\ accepted' = [version |-> accepted.version + 1, content |-> proposals[proposal]]
            /\ accepted' \in consents' /\ sellable /\ proposals[proposal] = live
        BY <2>1, <3>2 DEF AcceptProposal, Accept, StillQuoted
      <3>4. proposal \in DOMAIN proposals
        BY <1>1, <3>1 DEF ReviewInv, ReviewTypeOK
      <3>5. QED
        BY <3>3, <3>4 DEF ChangeIsCurrent
    <2>2. ASSUME NEW t \in Screens, Customer(t), ~ AcceptProposal(t)
          PROVE  accepted'.content = accepted.content
      BY <2>2 DEF Customer, Resubmit, Accept, Converse, Pay, dealVars
    <2>3. ASSUME NEW t \in Screens, Reviewer(t)
          PROVE  accepted' = accepted
      BY <2>3 DEF Reviewer, Approve, Reject, Clarify, Propose, Converse, dealVars
    <2>4. Tabs \subseteq Screens /\ Staff \subseteq Screens
      BY DEF Screens
    <2>5. QED
      BY <1>1, <2>1, <2>2, <2>3, <2>4 DEF ChangeIsCurrent, ReviewNext, Look, ListOverdue, ExpireListed, DropListed,
         Lapse, Requote, SwitchSale, dealVars, reviewVars
  <1>2. QED
    BY <1>1, ReviewInvariant, PaymentImplemented, Invariant, PTL
       DEF ReviewSpec, ImplementsPayment, ChangesAreCurrent

(* A fresh approval is never expired by an old list. *)
THEOREM ExpiriesAreDue == ReviewSpec => ExpiryIsDue
  <1> DEFINE Due == approval = "approved" /\ approval' = "expired" =>
                      lapsed /\ payment = "unpaid" /\ current = None
  <1>1. ASSUME PaymentInv, ReviewInv, [ReviewNext]_<<vars, reviewVars>>
        PROVE  [Due]_<<vars, reviewVars>>
    <2>1. CASE ExpireListed
      BY <1>1, <2>1 DEF ExpireListed, Overdue, PaymentInv, PointerInv
    <2>2. ASSUME NEW t \in Screens, Customer(t)
          PROVE  approval' # "expired" \/ approval' = approval
      BY <2>2 DEF Customer, Resubmit, AcceptProposal, Converse, Pay, Command, Review, StartPayment
    <2>3. ASSUME NEW t \in Screens, Reviewer(t)
          PROVE  approval' # "expired" \/ approval' = approval
      BY <2>3 DEF Reviewer, Approve, Reject, Clarify, Propose, Converse, Command, Review
    <2>4. Settling => approval' = approval
      BY <1>1, SettlingShape
    <2>5. Tabs \subseteq Screens /\ Staff \subseteq Screens
      BY DEF Screens
    <2>6. QED
      BY <1>1, <2>1, <2>2, <2>3, <2>4, <2>5 DEF ReviewNext, Look, ListOverdue, DropListed, Lapse,
         Requote, SwitchSale, vars, orderVars, orderAxes
  <1>2. QED
    BY <1>1, ReviewInvariant, PaymentImplemented, Invariant, PTL
       DEF ReviewSpec, ImplementsPayment, ExpiryIsDue
(* All that holds of a payment holds of one that is reviewed: with every command
   of staff and customer around it, an order is charged in one way, paid exactly
   when settled, closed only for real, and never cut off from its money. *)
THEOREM ReviewedOrdersPayOnce ==
  ReviewSpec => [](OneWayToPay /\ PaidIffSettled /\ ConfirmedClosureIsReal /\ OnlyExpiryStrandsMoney)
  <1>1. ReviewSpec => Spec
    BY PaymentImplemented DEF ImplementsPayment
  <1>2. QED
    BY <1>1, NoSecondCharge, PaidMeansSettled, ClosureIsReal, MoneyIsWithinReach, PTL

(* A reviewed order is the ledger too, and none of its saves is refused. *)
THEOREM ReviewedOrdersKeepLedger == ReviewSpec => ImplementsLedger /\ HooksNeverRefuse
  <1>1. ReviewSpec => Spec
    BY PaymentImplemented DEF ImplementsPayment
  <1>2. QED
    BY <1>1, LedgerImplemented, SavesAreAccepted
=============================================================================
