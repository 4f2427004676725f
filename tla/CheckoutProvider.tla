-------------------------- MODULE CheckoutProvider --------------------------
(***************************************************************************)
(* The hosted-checkout provider as the application uses it: a POST creates *)
(* a session, a POST expires one, a payer pays on an active session, and   *)
(* every one of these happens at a moment of the provider's own choosing.  *)
(* The provider is not part of the repository; src/app/Services/Payments/  *)
(* PayMongoClient.php is the only way the code reaches it.                 *)
(*                                                                         *)
(* What is assumed is deliberately weak.  A request that the client has    *)
(* given up on can still be executed later, or never.  A session can lapse *)
(* without being asked to.  When ExpiresWhileProcessing is TRUE a session  *)
(* may even expire while a payment on it is being processed, and that      *)
(* payment may be captured afterwards.                                     *)
(***************************************************************************)
CONSTANTS
  Attempts,                \* payment attempts of the order (their references)
  Sessions,                \* provider session identities (cs_...)
  None,
  ExpiresWhileProcessing

ASSUME ProviderAssumption ==
  /\ None \notin Attempts
  /\ None \notin Sessions
  /\ ExpiresWhileProcessing \in BOOLEAN

VARIABLES
  createPosts,     \* attempts whose create POST is on its way
  expirePosts,     \* sessions whose expire POST is on its way
  sessionRef,      \* reference_number of a session; None: not created yet
  sessionStatus,   \* "active" or "expired"
  sessionPay       \* the payment on the session's intent

providerVars == <<createPosts, expirePosts, sessionRef, sessionStatus, sessionPay>>

ProviderTypeOK ==
  /\ createPosts \subseteq Attempts
  /\ expirePosts \subseteq Sessions
  /\ sessionRef \in [Sessions -> Attempts \cup {None}]
  /\ sessionStatus \in [Sessions -> {"active", "expired"}]
  /\ sessionPay \in [Sessions -> {"none", "failed", "processing", "paid"}]

ProviderInit ==
  /\ createPosts = {}
  /\ expirePosts = {}
  /\ sessionRef = [s \in Sessions |-> None]
  /\ sessionStatus = [s \in Sessions |-> "active"]
  /\ sessionPay = [s \in Sessions |-> "none"]

Created(s) == sessionRef[s] # None

\* A session on which money can still be, is being, or has been taken.
Chargeable(s) ==
  /\ Created(s)
  /\ sessionStatus[s] = "active" \/ sessionPay[s] \in {"processing", "paid"}

Captured(s) == Created(s) /\ sessionPay[s] = "paid"

ProviderCreates(a, s) ==
  /\ a \in createPosts
  /\ ~ Created(s)
  /\ createPosts' = createPosts \ {a}
  /\ sessionRef' = [sessionRef EXCEPT ![s] = a]
  /\ UNCHANGED <<expirePosts, sessionStatus, sessionPay>>

Expirable(s) ==
  /\ Created(s)
  /\ sessionStatus[s] = "active"
  /\ sessionPay[s] # "paid"
  /\ sessionPay[s] = "processing" => ExpiresWhileProcessing

ProviderExpires(s) ==
  /\ s \in expirePosts
  /\ Expirable(s)
  /\ expirePosts' = expirePosts \ {s}
  /\ sessionStatus' = [sessionStatus EXCEPT ![s] = "expired"]
  /\ UNCHANGED <<createPosts, sessionRef, sessionPay>>

\* The provider answers 400: the session is paid, processing or already expired.
ProviderRefusesExpiry(s) ==
  /\ s \in expirePosts
  /\ ~ Expirable(s)
  /\ expirePosts' = expirePosts \ {s}
  /\ UNCHANGED <<createPosts, sessionRef, sessionStatus, sessionPay>>

SessionLapses(s) ==
  /\ Expirable(s)
  /\ sessionStatus' = [sessionStatus EXCEPT ![s] = "expired"]
  /\ UNCHANGED <<createPosts, expirePosts, sessionRef, sessionPay>>

PayerSubmits(s) ==
  /\ Created(s)
  /\ sessionStatus[s] = "active"
  /\ sessionPay[s] \in {"none", "failed"}
  /\ sessionPay' = [sessionPay EXCEPT ![s] = "processing"]
  /\ UNCHANGED <<createPosts, expirePosts, sessionRef, sessionStatus>>

PaymentResolves(s, outcome) ==
  /\ Created(s)
  /\ sessionPay[s] = "processing"
  /\ sessionPay' = [sessionPay EXCEPT ![s] = outcome]
  /\ UNCHANGED <<createPosts, expirePosts, sessionRef, sessionStatus>>

ProviderNext ==
  \/ \E a \in Attempts, s \in Sessions : ProviderCreates(a, s)
  \/ \E s \in Sessions :
       \/ ProviderExpires(s)
       \/ ProviderRefusesExpiry(s)
       \/ SessionLapses(s)
       \/ PayerSubmits(s)
       \/ \E outcome \in {"paid", "failed"} : PaymentResolves(s, outcome)
=============================================================================
