-------------------------- MODULE PackageDeliveries --------------------------
(***************************************************************************)
(* The outbox of one package checkout: at most one notification per phase, *)
(* claimed under a lease by the scheduler or by the after-response job,    *)
(* posted to the WordPress bridge, and completed, retried or left for      *)
(* review.                                                                 *)
(*                                                                         *)
(*   src/app/Services/PackageCheckout/PackagePurchaseDeliveries.php        *)
(*                                                                         *)
(* A sender is one run of deliverReference() or one turn of the loop of    *)
(* deliver(); the loop's limits only decide how many turns one run takes.  *)
(* attempts grows with every claim, so its value names the claim: it       *)
(* stands for the random claim_token, 0 for a token that is null.  Time is *)
(* abstract: a back-off may be over whenever it is asked for, and a lease  *)
(* may lapse under a dead sender, or under a slow one if SlowSenders.      *)
(*                                                                         *)
(* mishaps counts what the bounds forbid to happen for ever: deaths,       *)
(* lapses under a live sender, and operators' retries.                     *)
(***************************************************************************)
EXTENDS Naturals

CONSTANTS
  Senders,
  NoClaim,      \* a sender at rest
  Limit,        \* attempts after which a delivery is not repeated (10)
  SlowSenders,  \* a sender may outlive its five-minute lease
  MishapBound   \* no mishap once this many have happened

Phases == {"pending", "completed"}

(* What a sender carries from its claim to its completion. *)
Claims ==
  [phase: Phases, token: Nat \ {0}, result: {"none", "pending", "delivered", "needs_review"}]

ASSUME DeliveriesAssumption ==
  /\ NoClaim \notin Claims
  /\ Limit \in Nat \ {0}
  /\ SlowSenders \in BOOLEAN
  /\ MishapBound \in Nat

VARIABLES
  delivery,  \* the package_purchase_deliveries rows, by phase
  sender,    \* claim, send and complete of a worker
  onWire,    \* phases posted that the bridge has yet to act on
  accepted,  \* phases the bridge has accepted
  mishaps

deliveryVars == <<delivery, sender, onWire, accepted, mishaps>>

Absent == [status |-> "absent", attempts |-> 0, token |-> 0]

DeliveriesTypeOK ==
  /\ delivery \in [Phases -> [status: {"absent", "pending", "processing", "delivered", "needs_review"},
                              attempts: Nat, token: Nat]]
  /\ sender \in [Senders -> Claims \cup {NoClaim}]
  /\ onWire \subseteq Phases
  /\ accepted \subseteq Phases
  /\ mishaps \in 0 .. MishapBound

DeliveriesInit ==
  /\ delivery = [ph \in Phases |-> Absent]
  /\ sender = [w \in Senders |-> NoClaim]
  /\ onWire = {}
  /\ accepted = {}
  /\ mishaps = 0

-----------------------------------------------------------------------------

(* enqueue(), in the transaction that makes the phase true. *)
Enqueue(phases) ==
  /\ delivery' = [ph \in Phases |-> IF ph \in phases
                                    THEN [Absent EXCEPT !.status = "pending"]
                                    ELSE delivery[ph]]
  /\ UNCHANGED <<sender, onWire, accepted, mishaps>>

Working(w, ph) == sender[w] # NoClaim /\ sender[w].phase = ph

Holds(w, ph) == Working(w, ph) /\ sender[w].token = delivery[ph].token

\* Mutant of Lapsed: claim() without the age of the earlier claim.
LapsedAtOnce(ph) == TRUE

Lapsed(ph) ==
  \/ ~ \E w \in Senders : Holds(w, ph)
  \/ SlowSenders /\ mishaps < MishapBound

\* Mutant of Claimable: claim() without the abandoned rows.
ClaimableWhenPending(ph) == delivery[ph].status = "pending"

(* Due, or abandoned: claimed more than five minutes ago. *)
Claimable(ph) ==
  \/ delivery[ph].status = "pending"
  \/ delivery[ph].status = "processing" /\ Lapsed(ph)

Claim(w, ph) ==
  /\ sender[w] = NoClaim
  /\ Claimable(ph)
  /\ LET claim == delivery[ph].attempts + 1
     IN  /\ delivery' = [delivery EXCEPT ![ph] =
              [status |-> "processing", attempts |-> claim, token |-> claim]]
         /\ sender' = [sender EXCEPT ![w] = [phase |-> ph, token |-> claim, result |-> "none"]]
  /\ mishaps' = IF delivery[ph].status = "processing" /\ (\E v \in Senders : Holds(v, ph))
                THEN mishaps + 1 ELSE mishaps
  /\ UNCHANGED <<onWire, accepted>>

Sending(w) == sender[w] # NoClaim /\ sender[w].result = "none"

Answered(w, result) == sender' = [sender EXCEPT ![w].result = result]

(* The request never left, or the bridge may yet act on it; all requests of a
   phase are the same to it, and one it has accepted needs no further action. *)
MayBePosted(w) == onWire' \in {onWire, onWire \cup ({sender[w].phase} \ accepted)}

(* 200 captured or delivered: the bridge has accepted the phase. *)
SentAndAccepted(w) ==
  /\ Sending(w)
  /\ accepted' = accepted \cup {sender[w].phase}
  /\ Answered(w, "delivered")
  /\ UNCHANGED <<delivery, onWire, mishaps>>

\* Mutant of SentAndPostponed: a 202 counts as delivered.
SentAndBelieved(w) ==
  /\ Sending(w)
  /\ Answered(w, "delivered")
  /\ UNCHANGED <<delivery, onWire, accepted, mishaps>>

(* 202, another status, a body that does not fit, or no answer: to be tried
   again, though the bridge may have the request and act on it later. *)
SentAndPostponed(w) ==
  /\ Sending(w)
  /\ MayBePosted(w)
  /\ Answered(w, "pending")
  /\ UNCHANGED <<delivery, accepted, mishaps>>

(* A conflict, a refusal, a review on the other side, which may yet end in an
   acceptance, or a local error, before the request left or after. *)
SentAndRefused(w) ==
  /\ Sending(w)
  /\ MayBePosted(w)
  /\ Answered(w, "needs_review")
  /\ UNCHANGED <<delivery, accepted, mishaps>>

\* Mutant of EndStatus: the limit is compared with the attempts before this one.
EndStatusLate(ph, result) ==
  IF result = "pending" /\ delivery[ph].attempts > Limit THEN "needs_review" ELSE result

(* The last of Limit attempts is not repeated. *)
EndStatus(ph, result) ==
  IF result = "pending" /\ delivery[ph].attempts >= Limit THEN "needs_review" ELSE result

\* Mutant of Complete: complete() without comparing the claim_token.
CompleteAnyClaim(w) ==
  /\ sender[w] # NoClaim
  /\ sender[w].result # "none"
  /\ LET ph == sender[w].phase
     IN  delivery' = IF delivery[ph].status = "processing"
                     THEN [delivery EXCEPT ![ph].status = EndStatus(ph, sender[w].result),
                                           ![ph].token = 0]
                     ELSE delivery
  /\ sender' = [sender EXCEPT ![w] = NoClaim]
  /\ UNCHANGED <<onWire, accepted, mishaps>>

(* complete(): only the sender whose claim the row still carries ends it. *)
Complete(w) ==
  /\ sender[w] # NoClaim
  /\ sender[w].result # "none"
  /\ LET ph == sender[w].phase
     IN  delivery' = IF delivery[ph].status = "processing" /\ Holds(w, ph)
                     THEN [delivery EXCEPT ![ph].status = EndStatus(ph, sender[w].result),
                                           ![ph].token = 0]
                     ELSE delivery
  /\ sender' = [sender EXCEPT ![w] = NoClaim]
  /\ UNCHANGED <<onWire, accepted, mishaps>>

SenderDies(w) ==
  /\ sender[w] # NoClaim
  /\ mishaps < MishapBound
  /\ mishaps' = mishaps + 1
  /\ sender' = [sender EXCEPT ![w] = NoClaim]
  /\ IF Sending(w) THEN MayBePosted(w) ELSE UNCHANGED onWire
  /\ UNCHANGED <<delivery, accepted>>

(* retry(): an operator queues a reviewed delivery again; attempts stay. *)
Retry(ph) ==
  /\ delivery[ph].status = "needs_review"
  /\ mishaps < MishapBound
  /\ mishaps' = mishaps + 1
  /\ delivery' = [delivery EXCEPT ![ph].status = "pending", ![ph].token = 0]
  /\ UNCHANGED <<sender, onWire, accepted>>

(* The bridge (external) acts on a request whose sender is not waiting. *)
BridgeAccepts(ph) ==
  /\ ph \in onWire
  /\ onWire' = onWire \ {ph}
  /\ accepted' = accepted \cup {ph}
  /\ UNCHANGED <<delivery, sender, mishaps>>

-----------------------------------------------------------------------------

Deliver(w) ==
  \/ \E ph \in Phases : Claim(w, ph)
  \/ SentAndAccepted(w)
  \/ SentAndPostponed(w)
  \/ SentAndRefused(w)
  \/ Complete(w)
  \/ SenderDies(w)

DeliveriesStep ==
  \/ \E w \in Senders : Deliver(w)
  \/ \E ph \in Phases : Retry(ph) \/ BridgeAccepts(ph)

(* On its own, the outbox is given its phases in any order. *)
Enqueued(ph) == delivery[ph].status = "absent" /\ Enqueue({ph})

DeliveriesNext == DeliveriesStep \/ \E ph \in Phases : Enqueued(ph)

DeliveriesSpec == DeliveriesInit /\ [][DeliveriesNext]_deliveryVars

(* The scheduler runs the command every minute, so a delivery that can be
   claimed again and again is claimed; the HTTP exchange is bounded by its
   timeouts, and a sender that has its result completes.  Nothing is assumed
   of the bridge's answers, of operators, or of a sender's survival. *)
DeliveriesFairness ==
  /\ \A ph \in Phases : SF_deliveryVars(\E w \in Senders : Claim(w, ph))
  /\ \A w \in Senders :
       /\ WF_deliveryVars(SentAndAccepted(w) \/ SentAndPostponed(w) \/ SentAndRefused(w))
       /\ WF_deliveryVars(Complete(w))

FairDeliveriesSpec == DeliveriesSpec /\ DeliveriesFairness

-----------------------------------------------------------------------------
(* Properties *)

(* What is shown as delivered has been accepted by the bridge, in whatever
   order crashed, lapsed and repeated senders end. *)
DeliveredWasAccepted ==
  \A ph \in Phases : delivery[ph].status = "delivered" => ph \in accepted

(* A claim is ended by the sender that made it, or taken over after its lease:
   a sender that outlived its lease never ends its successor's claim, nor
   brings a delivery back that was delivered or left for review. *)
OnlyTheClaimHolderEnds ==
  [][ \A ph \in Phases : delivery'[ph].status # delivery[ph].status =>
        CASE delivery[ph].status = "processing" ->
               \E w \in Senders : Holds(w, ph) /\ sender'[w] = NoClaim
          [] delivery[ph].status = "delivered" -> FALSE
          [] delivery[ph].status = "needs_review" -> UNCHANGED sender
          [] OTHER -> TRUE
    ]_deliveryVars

(* Without lapsed leases a phase has one sender at a time, so the bridge never
   sees two posts of it at once. *)
OneSenderPerPhase ==
  ~SlowSenders => \A w, v \in Senders, ph \in Phases :
                    Working(w, ph) /\ Working(v, ph) => w = v

(* docs/reviews/2026-10-22-package-purchase-fulfillment.md:42: "Ten
   unsuccessful attempts stop in needs_review."  The last attempt is then not
   followed by another unless an operator has asked for it. *)
TenAttemptsStop ==
  [][ \A ph \in Phases :
        delivery[ph].status = "processing" /\ delivery[ph].attempts >= Limit =>
          delivery'[ph].attempts = delivery[ph].attempts
    ]_deliveryVars

AnotherIsDue(ph) ==
  \/ delivery[ph].status = "pending"
  \/ delivery[ph].status = "processing" /\ ~ \E w \in Senders : Holds(w, ph)

(* What is true of the limit: every attempt beyond it has been paid for by a
   death, a lease that lapsed under a live sender or an operator's retry, in
   whatever order they come, and so has the next one of a row that is due or
   abandoned. *)
AttemptsArePaidFor ==
  \A ph \in Phases :
    /\ delivery[ph].attempts <= Limit + mishaps
    /\ AnotherIsDue(ph) => delivery[ph].attempts < Limit + mishaps

(* Every queued notification ends as delivered or in front of an operator,
   wherever its senders die and whatever the bridge answers. *)
QueuedIsSettled ==
  \A ph \in Phases :
    delivery[ph].status \in {"pending", "processing"}
      ~> delivery[ph].status \in {"delivered", "needs_review"}
-----------------------------------------------------------------------------
(* The inductive invariant *)

(* A sender's claim names it: claims of one phase differ, none is newer than
   the row's last, and a row being processed carries that one. *)
ClaimInv ==
  /\ \A ph \in Phases :
       /\ delivery[ph].status = "absent" => delivery[ph].attempts = 0
       /\ delivery[ph].status = "processing" => delivery[ph].token = delivery[ph].attempts
  /\ \A w \in Senders, ph \in Phases : Working(w, ph) =>
       sender[w].token <= delivery[ph].attempts
  /\ \A w, v \in Senders, ph \in Phases :
       Working(w, ph) /\ Working(v, ph) /\ sender[w].token = sender[v].token => w = v

(* Unless leases lapse under live senders, a live sender holds its claim. *)
LeaseInv ==
  ~SlowSenders => \A w \in Senders, ph \in Phases :
    Working(w, ph) => delivery[ph].status = "processing" /\ Holds(w, ph)

AnswerInv ==
  \A w \in Senders, ph \in Phases :
    Working(w, ph) /\ sender[w].result = "delivered" => ph \in accepted

(* Everything a step relies on, together: what the proofs carry from state to
   state, and the reason for one sender per phase. *)
DeliveriesInv ==
  /\ DeliveriesTypeOK
  /\ ClaimInv
  /\ LeaseInv
  /\ AnswerInv
  /\ DeliveredWasAccepted
=============================================================================
