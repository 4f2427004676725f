---------------------------- MODULE OrderReview -----------------------------
(***************************************************************************)
(* How the request behind an order is negotiated, approved and offered for *)
(* payment: the review commands of the staff and of the customer, the      *)
(* expiry of approvals by the scheduler, and the start of the payment.     *)
(*                                                                         *)
(*   src/app/Actions/Orders/OrderReviewActions.php                         *)
(*   src/app/Console/Commands/ExpireOrderApprovals.php                     *)
(*   src/app/Actions/Payments/PaymentAttemptActions.php, eligible()        *)
(*   src/app/Models/Order.php, the rules on approval and proposal          *)
(*                                                                         *)
(* The payment protocol of OrderPayment goes on underneath: this module    *)
(* adds what that one leaves open, which content a command is about.       *)
(*                                                                         *)
(* Requests carry the revision of the page they were made from: a screen   *)
(* keeps what it showed.  Content is named by the number of the quote it   *)
(* comes from: quote() hashes the current policy, the products' newest     *)
(* prices and terms, all of which only ever get newer versions.  A replay  *)
(* of a stored operation id changes nothing and is left out.               *)
(***************************************************************************)
EXTENDS OrderPayment, Sequences

CONSTANTS
  Tabs,        \* screens of the customer
  Staff,       \* screens of the staff
  QuoteBound   \* no new quote once it has this number

Screens == Tabs \cup Staff

ASSUME ReviewAssumption ==
  /\ Tabs \cap Staff = {}
  /\ QuoteBound \in Nat

VARIABLES
  live,        \* the content quote() would return now
  sellable,    \* quote() does not abort: all products on sale, no conflict
  accepted,    \* the current order_revisions row: its version and content
  proposals,   \* order_proposals: their contents, oldest first
  proposal,    \* orders.pending_proposal_id; 0 for none
  lapsed,      \* approval_expires_at has passed
  listed,      \* the scheduler has the order on its list
  screen,      \* what each screen shows
  consents,    \* the deals customers have agreed to, as their screens showed them
  approvals,   \* the deals staff have approved, as their screens showed them
  charged      \* payment_attempts.order_revision_id, and what its payer saw

quoteVars  == <<live, sellable>>
dealVars   == <<accepted, proposals, proposal, consents, approvals>>
reviewVars == <<quoteVars, dealVars, lapsed, listed, screen, charged>>

-----------------------------------------------------------------------------
(* Types and the initial state *)

Deals     == [version : Nat, content : Nat]
Shown     == [revision : Nat, deal : Deals, proposal : Nat]

\* The page as it is rendered now.
Page == [revision |-> revision, deal |-> accepted, proposal |-> proposal]

NoCharge == [deal |-> [version |-> 0, content |-> 0],
             seen |-> [version |-> 0, content |-> 0], lapsed |-> FALSE]

ReviewTypeOK ==
  /\ live \in Nat /\ sellable \in BOOLEAN
  /\ accepted \in Deals
  /\ proposals \in Seq(Nat)
  /\ proposal \in 0..Len(proposals)
  /\ lapsed \in BOOLEAN /\ listed \in BOOLEAN
  /\ screen \in [Screens -> Shown]
  /\ consents \subseteq Deals /\ approvals \subseteq Deals
  /\ charged \in [Attempts -> [deal : Deals, seen : Deals, lapsed : BOOLEAN]]

(* An order is submitted with the first quote, which its customer has seen. *)
ReviewInit ==
  /\ Init
  /\ live = 1 /\ sellable = TRUE
  /\ accepted = [version |-> 1, content |-> 1]
  /\ proposals = <<>> /\ proposal = 0
  /\ lapsed = FALSE /\ listed = FALSE
  /\ screen = [t \in Screens |-> Page]
  /\ consents = {accepted} /\ approvals = {}
  /\ charged = [a \in Attempts |-> NoCharge]

-----------------------------------------------------------------------------
(* What happens around the order *)

(* CatalogActions and CommercePolicyActions: a new price, new terms or a new
   policy, and a product taken from sale or put back. *)
Requote ==
  /\ live < QuoteBound
  /\ live' = live + 1
  /\ UNCHANGED <<vars, sellable, dealVars, lapsed, listed, screen, charged>>

SwitchSale ==
  /\ sellable' = ~ sellable
  /\ UNCHANGED <<vars, live, dealVars, lapsed, listed, screen, charged>>

Look(t) ==
  /\ screen' = [screen EXCEPT ![t] = Page]
  /\ UNCHANGED <<vars, quoteVars, dealVars, lapsed, listed, charged>>

Lapse ==
  /\ approval = "approved"
  /\ lapsed' = TRUE
  /\ UNCHANGED <<vars, quoteVars, dealVars, listed, screen, charged>>

-----------------------------------------------------------------------------
(* Review commands *)

\* Mutant of Expected: command() without its check of expected_revision.
ExpectedNever(t) == TRUE

(* expected_revision: nothing has happened to the order since the page. *)
Expected(t) == screen[t].revision = revision

\* Mutant of Command: the expiry outlives the approval.
CommandKeepsExpiry(t, next) ==
  /\ Expected(t)
  /\ Review(next)
  /\ UNCHANGED <<quoteVars, lapsed, listed, screen, charged>>

(* What command() does for every action: check the revision, the status and the
   payment, move the approval along, drop its expiry when it is left, and take
   the next revision. *)
Command(t, next) ==
  /\ Expected(t)
  /\ Review(next)
  /\ lapsed' = (lapsed /\ next = "approved")
  /\ UNCHANGED <<quoteVars, listed, screen, charged>>

Approve(t) ==
  /\ approval = "pending"
  /\ proposal = 0
  /\ Command(t, "approved")
  /\ approvals' = approvals \cup {screen[t].deal}
  /\ UNCHANGED <<accepted, proposals, proposal, consents>>

Reject(t) ==
  /\ approval \in {"pending", "clarification"}
  /\ Command(t, "rejected")
  /\ proposal' = 0
  /\ UNCHANGED <<accepted, proposals, consents, approvals>>

(* A proposal that is pending stays so. *)
Clarify(t) ==
  /\ approval # "rejected"
  /\ Command(t, "clarification")
  /\ UNCHANGED dealVars

(* The newest proposal takes the place of the pending one. *)
Propose(t) ==
  /\ approval # "rejected"
  /\ sellable
  /\ Command(t, "clarification")
  /\ proposals' = Append(proposals, live)
  /\ proposal' = Len(proposals) + 1
  /\ UNCHANGED <<accepted, consents, approvals>>

\* accept(): the customer's next accepted revision.
Accept(shown, content) ==
  /\ accepted' = [version |-> accepted.version + 1, content |-> content]
  /\ consents' = consents \cup {shown}
  /\ proposal' = 0
  /\ UNCHANGED <<proposals, approvals>>

\* Mutant of Resubmit: a resubmission while a proposal is pending.
ResubmitOver(t) ==
  /\ approval \in {"clarification", "expired"}
  /\ Command(t, "pending")
  /\ Accept([screen[t].deal EXCEPT !.version = @ + 1], accepted.content)

(* acceptedQuote(): the accepted content again, not the current quote. *)
Resubmit(t) ==
  /\ approval \in {"clarification", "expired"}
  /\ proposal = 0
  /\ Command(t, "pending")
  /\ Accept([screen[t].deal EXCEPT !.version = @ + 1], accepted.content)

\* Mutant of StillQuoted: accept_proposal without the hash of the quote.
StillQuotedAlways(content) == TRUE

(* proposalCurrent(): the proposal's content is what quote() returns now. *)
StillQuoted(content) == sellable /\ content = live

(* The page names the proposal, which has to be the pending one. *)
AcceptProposal(t) ==
  LET shown == screen[t].proposal
  IN /\ approval \in {"clarification", "expired"}
     /\ shown # 0 /\ proposal = shown
     /\ StillQuoted(proposals[proposal])
     /\ Command(t, "pending")
     /\ Accept([version |-> screen[t].deal.version + 1,
                content |-> proposals[shown]],
               proposals[proposal])

(* reply of the customer, message and note of the staff. *)
Converse(t) ==
  /\ t \in Staff \/ approval # "rejected"
  /\ Command(t, approval)
  /\ UNCHANGED dealVars

-----------------------------------------------------------------------------
(* The scheduler *)

Overdue ==
  /\ status = "open" /\ payment = "unpaid"
  /\ approval = "approved" /\ lapsed

\* Mutant of ListOverdue: only orders without a payment attempt are selected.
ListUnattempted ==
  /\ ~ listed
  /\ Overdue
  /\ \A a \in Attempts : attemptState[a] = "absent"
  /\ listed' = TRUE
  /\ UNCHANGED <<vars, quoteVars, dealVars, lapsed, screen, charged>>

(* ExpireOrderApprovals selects its candidates without a lock ... *)
ListOverdue ==
  /\ ~ listed
  /\ Overdue
  /\ listed' = TRUE
  /\ UNCHANGED <<vars, quoteVars, dealVars, lapsed, screen, charged>>

\* Mutant of ExpireListed: expire() relies on the list.
ExpireUnchecked ==
  /\ listed
  /\ approval = "approved"
  /\ Review("expired")
  /\ lapsed' = FALSE
  /\ listed' = FALSE
  /\ UNCHANGED <<quoteVars, dealVars, screen, charged>>

\* Mutant of ExpireListed: the scheduler does not take a revision.
ExpireInPlace ==
  /\ listed
  /\ Overdue
  /\ approval' = "expired"
  /\ lapsed' = FALSE
  /\ listed' = FALSE
  /\ UNCHANGED <<revision, status, payment, fulfillment, current, attemptVars,
                 controlVars, eventVars, processVars, providerVars,
                 quoteVars, dealVars, screen, charged>>

(* ... and expire() looks at each of them again under the order's lock. *)
ExpireListed ==
  /\ listed
  /\ Overdue
  /\ Review("expired")
  /\ lapsed' = FALSE
  /\ listed' = FALSE
  /\ UNCHANGED <<quoteVars, dealVars, screen, charged>>

(* It finds nothing to expire any more, or the command dies. *)
DropListed ==
  /\ listed
  /\ listed' = FALSE
  /\ UNCHANGED <<vars, quoteVars, dealVars, lapsed, screen, charged>>

-----------------------------------------------------------------------------
(* The payment *)

(* The part of eligible() that OrderPayment leaves open. *)
Payable(t) ==
  /\ Expected(t)
  /\ ~ lapsed
  /\ proposal = 0

Pay(t, a) ==
  /\ Payable(t)
  /\ StartPayment(a)
  /\ charged' = [charged EXCEPT ![a] =
       [deal |-> accepted, seen |-> screen[t].deal, lapsed |-> lapsed]]
  /\ UNCHANGED <<quoteVars, dealVars, lapsed, listed, screen>>

-----------------------------------------------------------------------------
(* The specification *)

Customer(t) ==
  \/ Resubmit(t)
  \/ AcceptProposal(t)
  \/ Converse(t)
  \/ \E a \in Attempts : Pay(t, a)

Reviewer(t) ==
  \/ Approve(t)
  \/ Reject(t)
  \/ Clarify(t)
  \/ Propose(t)
  \/ Converse(t)

ReviewNext ==
  \/ \E t \in Tabs : Customer(t)
  \/ \E t \in Staff : Reviewer(t)
  \/ \E t \in Screens : Look(t)
  \/ ListOverdue
  \/ ExpireListed
  \/ DropListed
  \/ Lapse
  \/ Requote
  \/ SwitchSale
  \/ Settling /\ UNCHANGED reviewVars

ReviewSpec == ReviewInit /\ [][ReviewNext]_<<vars, reviewVars>>

-----------------------------------------------------------------------------
(* Safety *)

(* A payer is charged for the deal the page showed, which is one the customer
   agreed to and the staff approved, each from a page that showed it, and not
   on an approval that had run out; and the deal stands while the payment does.
   Stale pages of both sides, a scheduler that is late, replaced proposals and
   new prices are what could break it. *)
ChargedAsAgreed ==
  \A a \in Attempts : attemptState[a] # "absent" =>
    /\ charged[a].deal = charged[a].seen
    /\ charged[a].deal \in consents \cap approvals
    /\ ~ charged[a].lapsed
    /\ a = current => accepted = charged[a].deal

Newest == proposals[Len(proposals)]

(* Once the staff have proposed a change, the request is approved, or waits for
   it, only with the content of the newest proposal: no resubmission, stale page
   or replaced proposal brings back what was proposed away.  ("Ordinary
   resubmission cannot bypass a pending material proposal",
   docs/plans/2026-10-18-order-review.md.) *)
ProposalIsNotBypassed ==
  approval \in {"pending", "approved", "expired"} /\ proposals # <<>> =>
    accepted.content = Newest

(* What is accepted changes only to content that is on offer at that moment,
   which a proposal of the staff named and a customer's page showed. *)
ChangeIsCurrent ==
  accepted'.content # accepted.content =>
    /\ sellable /\ accepted'.content = live
    /\ \E i \in DOMAIN proposals : proposals[i] = accepted'.content
    /\ accepted' \in consents'

ChangesAreCurrent == [][ChangeIsCurrent]_<<vars, reviewVars>>

(* Only an approval that has run out is expired, however old the scheduler's
   list is, and never under a payment. *)
ExpiryIsDue ==
  [][ approval = "approved" /\ approval' = "expired" =>
        lapsed /\ payment = "unpaid" /\ current = None ]_<<vars, reviewVars>>

-----------------------------------------------------------------------------
(* The inductive invariant behind the safety properties *)

(* A page that shows the current revision shows the current content. *)
ScreenInv ==
  \A t \in Screens :
    /\ screen[t].revision <= revision
    /\ screen[t].revision = revision =>
         screen[t].deal = accepted /\ screen[t].proposal = proposal

DealInv ==
  /\ accepted \in consents
  /\ approval = "approved" => accepted \in approvals
  /\ lapsed => approval = "approved"
  /\ proposal # 0 => approval = "clarification"
  /\ proposal # 0 => proposal = Len(proposals)
  /\ proposal = 0 /\ approval # "rejected" /\ proposals # <<>> => accepted.content = Newest

ReviewInv ==
  /\ ReviewTypeOK
  /\ ScreenInv
  /\ DealInv
  /\ ChargedAsAgreed

-----------------------------------------------------------------------------
(* Refinement and liveness *)

(* Without the contents, a review is the payment protocol's. *)
ImplementsPayment == Spec

(* The scheduler runs every minute (routes/console.php) and does not die each
   time; the provider repeats what was not acknowledged. *)
FairReviewSpec ==
  /\ ReviewSpec
  /\ WF_<<vars, reviewVars>>(ListOverdue)
  /\ SF_<<vars, reviewVars>>(ExpireListed)
  /\ \A e \in Events : WF_<<vars, reviewVars>>(
       \E a \in Attempts : ReceiveApplied(e, a) /\ UNCHANGED reviewVars)

(* An approval that has run out on an unpaid order does not stay an approval,
   also one that ran out while a payment was attempted and retired. *)
OverdueIsExpired == Overdue ~> ~ Overdue
=============================================================================
