-------------------------------- MODULE Carts --------------------------------
(***************************************************************************)
(* Guest carts, their transfer to the application by a handoff, their      *)
(* claim by a customer, and the order a customer submits from a cart.      *)
(*                                                                         *)
(*   src/app/Actions/Carts/CartActions.php                                 *)
(*   src/app/Actions/Carts/CartHandoffActions.php                          *)
(*   src/app/Services/Carts/CartSession.php, CartPrincipal.php,            *)
(*     CartSnapshot.php                                                    *)
(*   src/app/Actions/Orders/OrderActions.php (review, submit)              *)
(*   src/app/Actions/Orders/CommercePolicyActions.php                      *)
(*                                                                         *)
(* A transaction locks the cart, its lines, the products, categories,      *)
(* prices and terms behind them, and the commerce policy, and is one       *)
(* action.  What a browser shows is read in one transaction and sent back  *)
(* in a later one; its fingerprint is the picture it was made of.  Any     *)
(* product may change in between.  A repeated operation id finds its       *)
(* receipt and changes nothing (cart_changes, order_events).  That staff   *)
(* hide a product (record_deletions) is left out: it is read without a     *)
(* lock, and no fingerprint covers it.                                     *)
(***************************************************************************)
EXTENDS Naturals, FiniteSets

CONSTANTS
  Carts,        \* each made under a guest proof of its own
  Customers,    \* each with one browser
  Products,
  Rivals,       \* those of the category that may allow one per cart
  Handoffs,
  None,
  EditBound     \* of the commands on carts and on the catalog together

ASSUME CartsAssumption ==
  /\ None \notin Carts \cup Customers \cup Handoffs \cup [cart: Carts, open: BOOLEAN]
  /\ Rivals \subseteq Products
  /\ EditBound \in Nat

VARIABLES
  offer,        \* by product: its latest prices and terms, and whether it is available
  limited,      \* limit_one_per_cart of the Rivals' category
  credential,   \* carts.credential_hash: the guest's, null ("owned"), a random one ("retired")
  owner,        \* carts.user_id
  mergedInto,   \* carts.merged_into_cart_id
  revision,     \* carts.revision
  policy,       \* version of the current commerce policy
  edits,        \* commands so far, up to EditBound
  lines,        \* cart_items: the quoted offer of each product, 0 for none
  link,         \* customer_carts: a customer's cart
  handoff,      \* cart_handoffs
  grant,        \* a browser's session: the handoff that opened its guest cart
  screen,       \* what a browser has been shown
  orders        \* submitted

catalogVars == <<offer, limited, policy, edits>>
cartVars    == <<credential, owner, mergedInto, revision, lines, link>>
cartsVars   == <<catalogVars, cartVars, handoff, grant, screen, orders>>

Quotes == [Products -> Nat]
Offers == [version: Nat \ {0}, available: BOOLEAN]

CartsTypeOK ==
  /\ offer \in [Products -> Offers]
  /\ limited \in BOOLEAN
  /\ policy \in Nat
  /\ credential \in [Carts -> {"unmade", "guest", "owned", "retired"}]
  /\ owner \in [Carts -> Customers \cup {None}]
  /\ mergedInto \in [Carts -> Carts \cup {None}]
  /\ revision \in [Carts -> Nat]
  /\ edits \in Nat
  /\ lines \in [Carts -> Quotes]
  /\ link \in [Customers -> Carts \cup {None}]
  /\ handoff \in [Handoffs -> [cart: Carts, open: BOOLEAN] \cup {None}]
  /\ grant \in [Customers -> Handoffs \cup {None}]

CartsInit ==
  /\ offer = [p \in Products |-> [version |-> 1, available |-> TRUE]]
  /\ limited = FALSE
  /\ policy = 1
  /\ credential = [c \in Carts |-> "unmade"]
  /\ owner = [c \in Carts |-> None]
  /\ mergedInto = [c \in Carts |-> None]
  /\ revision = [c \in Carts |-> 0]
  /\ edits = 0
  /\ lines = [c \in Carts |-> [p \in Products |-> 0]]
  /\ link = [u \in Customers |-> None]
  /\ handoff = [h \in Handoffs |-> None]
  /\ grant = [u \in Customers |-> None]
  /\ screen = [u \in Customers |-> [kind |-> "nothing"]]
  /\ orders = {}

Empty == [p \in Products |-> 0]

Selected(quotes) == {p \in Products : quotes[p] > 0}

Counted == edits < EditBound /\ edits' = edits + 1

(* More than one service of a category that allows one. *)
Conflict(products, one) ==
  one /\ \E p, q \in products \cap Rivals : p # q

-----------------------------------------------------------------------------
(* The catalog, by staff *)

(* New prices or terms, or a change of availability, of one product. *)
Revise(p) ==
  /\ Counted
  /\ \/ offer' = [offer EXCEPT ![p].version = @ + 1]
     \/ offer' = [offer EXCEPT ![p].available = ~@]
  /\ UNCHANGED <<limited, policy, cartVars, handoff, grant, screen, orders>>

SwitchLimit ==
  /\ Counted
  /\ limited' = ~limited
  /\ UNCHANGED <<offer, policy, cartVars, handoff, grant, screen, orders>>

(* publish(): the conditions an order is made and priced under. *)
Publish ==
  /\ Counted
  /\ policy' = policy + 1
  /\ UNCHANGED <<offer, limited, cartVars, handoff, grant, screen, orders>>

-----------------------------------------------------------------------------
(* Commands on one cart *)

Create(c) ==
  /\ credential[c] = "unmade"
  /\ credential' = [credential EXCEPT ![c] = "guest"]
  /\ UNCHANGED <<catalogVars, owner, mergedInto, revision, lines, link,
                 handoff, grant, screen, orders>>

(* Some principal resolves the cart: its guest proof, or its owner. *)
Live(c) == credential[c] \in {"guest", "owned"}

(* mutate(): the command's lines under the next revision. *)
Mutate(c, quotes) ==
  /\ Counted
  /\ lines' = [lines EXCEPT ![c] = quotes]
  /\ revision' = [revision EXCEPT ![c] = @ + 1]
  /\ UNCHANGED <<offer, limited, policy, credential, owner, mergedInto, link,
                 handoff, grant, screen, orders>>

(* Only the storefront adds, and it holds no owned cart.  The others of a
   limited category are replaced; an existing selection keeps its quote. *)
Add(c, p) ==
  /\ credential[c] = "guest"
  /\ offer[p].available
  /\ Mutate(c, [q \in Products |->
       CASE q = p -> IF lines[c][p] > 0 THEN lines[c][p] ELSE offer[p].version
         [] q # p /\ limited /\ {p, q} \subseteq Rivals -> 0
         [] OTHER -> lines[c][q]])

Remove(c, p) ==
  /\ Live(c)
  /\ Mutate(c, [lines[c] EXCEPT ![p] = 0])

(* The versions a browser sends must be the current ones of exactly the
   selected products; they become the quotes. *)
Confirm(c) ==
  /\ Live(c)
  /\ Selected(lines[c]) # {}
  /\ ~Conflict(Selected(lines[c]), limited)
  /\ \A p \in Selected(lines[c]) : offer[p].available
  /\ Mutate(c, [p \in Products |-> IF lines[c][p] > 0 THEN offer[p].version ELSE 0])

-----------------------------------------------------------------------------
(* The handoff of a guest cart to a browser of the application *)

Mint(h, c) ==
  /\ handoff[h] = None
  /\ credential[c] = "guest"
  /\ handoff' = [handoff EXCEPT ![h] = [cart |-> c, open |-> TRUE]]
  /\ UNCHANGED <<catalogVars, cartVars, grant, screen, orders>>

\* Mutant of Consumed: consumed_at is not saved.
ConsumedAgain(h) == handoff' = handoff

Consumed(h) == handoff' = [handoff EXCEPT ![h].open = FALSE]

(* The sixty seconds are over; later the row is pruned. *)
Expire(h) ==
  /\ handoff[h] # None
  /\ handoff[h].open
  /\ handoff' = [handoff EXCEPT ![h].open = FALSE]
  /\ UNCHANGED <<catalogVars, cartVars, grant, screen, orders>>

(* The cart is still under the authority the handoff was issued for.  The
   browser's session now holds it. *)
Consume(u, h) ==
  /\ handoff[h] # None
  /\ handoff[h].open
  /\ credential[handoff[h].cart] = "guest"
  /\ Consumed(h)
  /\ grant' = [grant EXCEPT ![u] = h]
  /\ UNCHANGED <<catalogVars, cartVars, screen, orders>>

-----------------------------------------------------------------------------
(* The claim of a guest cart by a verified customer *)

\* Mutant of Presents: the guest's authority is not looked at under the lock.
PresentsUnchecked(u, s) == grant[u] # None /\ handoff[grant[u]].cart = s

(* The browser's guest principal still opens the source. *)
Presents(u, s) ==
  /\ grant[u] # None
  /\ handoff[grant[u]].cart = s
  /\ credential[s] = "guest"

History(c) == [revision |-> revision[c], lines |-> lines[c]]

(* The products behind a selection, as the fingerprint takes them. *)
Goods(products) ==
  [one |-> limited /\ products \cap Rivals # {},
   of  |-> [p \in products |-> offer[p]]]

(* By product; what the target has quoted stays. *)
Union(source, target) ==
  [p \in Products |-> IF target[p] > 0 THEN target[p] ELSE source[p]]

LinesOf(c) == IF c = None THEN Empty ELSE lines[c]

(* mergeState(): what the fingerprint of a claim is taken of. *)
MergePicture(s, t) ==
  [kind   |-> "merge",
   source |-> s,
   target |-> t,
   was    |-> History(s),
   held   |-> IF t = None THEN [revision |-> 0, lines |-> Empty] ELSE History(t),
   goods  |-> Goods(Selected(Union(lines[s], LinesOf(t))))]

Preview(u, s) ==
  /\ Presents(u, s)
  /\ screen' = [screen EXCEPT ![u] = MergePicture(s, link[u])]
  /\ UNCHANGED <<catalogVars, cartVars, handoff, grant, orders>>

(* What a choice from each conflicting group leaves of a selection. *)
Outcomes(quotes, one) ==
  IF Conflict(Selected(quotes), one)
  THEN {[p \in Products |-> IF p \in Rivals \ {k} THEN 0 ELSE quotes[p]] :
          k \in Selected(quotes) \cap Rivals}
  ELSE {quotes}

\* Mutant of StillShown: the fingerprint covers the source cart alone.
StillShownOfSource(u, s) ==
  /\ screen[u].kind = "merge"
  /\ screen[u].source = s
  /\ screen[u].was = History(s)

(* The fingerprint the browser sends back is the current one. *)
StillShown(u, s) == screen[u] = MergePicture(s, link[u])

(* attach() without a cart of the customer's own: the guest cart becomes it. *)
Attach(u, s) ==
  /\ Presents(u, s)
  /\ StillShown(u, s)
  /\ link[u] = None
  /\ \E kept \in Outcomes(lines[s], limited) :
       lines' = [lines EXCEPT ![s] = kept]
  /\ owner' = [owner EXCEPT ![s] = u]
  /\ credential' = [credential EXCEPT ![s] = "owned"]
  /\ revision' = [revision EXCEPT ![s] = @ + 1]
  /\ link' = [link EXCEPT ![u] = s]
  /\ grant' = [grant EXCEPT ![u] = None]
  /\ UNCHANGED <<catalogVars, mergedInto, handoff, screen, orders>>

(* attach() with one: the guest cart's lines move into it and the guest cart
   is retired under a credential nobody has. *)
Merge(u, s) ==
  LET t == link[u] IN
  /\ Presents(u, s)
  /\ StillShown(u, s)
  /\ t # None
  /\ \E kept \in Outcomes(Union(lines[s], lines[t]), limited) :
       lines' = [lines EXCEPT ![s] = Empty, ![t] = kept]
  /\ mergedInto' = [mergedInto EXCEPT ![s] = t]
  /\ credential' = [credential EXCEPT ![s] = "retired"]
  /\ revision' = [revision EXCEPT ![s] = @ + 1, ![t] = @ + 1]
  /\ grant' = [grant EXCEPT ![u] = None]
  /\ UNCHANGED <<catalogVars, owner, link, handoff, screen, orders>>

-----------------------------------------------------------------------------
(* The order a customer submits *)

(* reviewLocked(): what the fingerprint of a review is taken of. *)
OrderPicture(c) ==
  [kind |-> "order", cart |-> c, revision |-> revision[c], policy |-> policy,
   goods |-> Goods(Selected(lines[c]))]

Review(u) ==
  /\ link[u] # None
  /\ screen' = [screen EXCEPT ![u] = OrderPicture(link[u])]
  /\ UNCHANGED <<catalogVars, cartVars, handoff, grant, orders>>

(* CartSnapshot: selection_valid. *)
Valid(c) ==
  /\ Selected(lines[c]) # {}
  /\ ~Conflict(Selected(lines[c]), limited)
  /\ \A p \in Selected(lines[c]) : offer[p].available /\ lines[c][p] = offer[p].version

\* Mutant of StillReviewed: the cart may have moved on since the review.
StillReviewedCart(u, c) ==
  screen[u].kind = "order" /\ screen[u].cart = c

StillReviewed(u, c) == screen[u] = OrderPicture(c)

(* One order per revision of a cart; a second submission of it either repeats
   the first or is refused. *)
Submit(u) ==
  LET c == link[u] IN
  /\ c # None
  /\ ~\E o \in orders : o.cart = c /\ o.revision = revision[c]
  /\ StillReviewed(u, c)
  /\ Valid(c)
  /\ orders' = orders \cup
       {[cart |-> c, by |-> u, revision |-> revision[c], policy |-> policy,
         of |-> [p \in Selected(lines[c]) |-> offer[p].version]]}
  /\ UNCHANGED <<catalogVars, cartVars, handoff, grant, screen>>

-----------------------------------------------------------------------------

Edit(c) ==
  \/ Create(c)
  \/ Confirm(c)
  \/ \E p \in Products : Add(c, p) \/ Remove(c, p)

Claim(u) ==
  \/ \E h \in Handoffs : Consume(u, h)
  \/ \E s \in Carts : Preview(u, s) \/ Attach(u, s) \/ Merge(u, s)

CartsNext ==
  \/ SwitchLimit \/ Publish
  \/ \E p \in Products : Revise(p)
  \/ \E c \in Carts : Edit(c)
  \/ \E h \in Handoffs : Expire(h) \/ \E c \in Carts : Mint(h, c)
  \/ \E u \in Customers : Claim(u) \/ Review(u) \/ Submit(u)

CartsSpec == CartsInit /\ [][CartsNext]_cartsVars

-----------------------------------------------------------------------------
(* Properties *)

(* However browsers, tabs and claims interleave, a cart has one authority: a
   customer's link and the cart's owner name each other, an owned cart answers
   to no guest proof, and a merged one is empty, answers to nobody and points
   to a cart that is still its customer's. *)
OwnershipInv ==
  /\ \A u \in Customers, c \in Carts : link[u] = c <=> owner[c] = u
  /\ \A c \in Carts :
       /\ owner[c] # None <=> credential[c] = "owned"
       /\ mergedInto[c] # None <=> credential[c] = "retired"
       /\ mergedInto[c] # None =>
            lines[c] = Empty /\ owner[mergedInto[c]] # None
  /\ \A u \in Customers : grant[u] # None => handoff[grant[u]] # None

CartsInv == CartsTypeOK /\ OwnershipInv

(* A handoff opens a guest cart in one browser only, wherever its link is
   opened again, and only the first one. *)
OneBrowserPerHandoff ==
  \A u \in Customers : grant[u] # None =>
    /\ handoff[grant[u]] # None => ~handoff[grant[u]].open
    /\ \A v \in Customers : grant[v] = grant[u] => u = v

Claimed(u, s) == credential[s] = "guest" /\ credential'[s] # "guest" /\ grant'[u] # grant[u]

ClaimedAsShown ==
  \A u \in Customers, s \in Carts : Claimed(u, s) =>
    LET shown == screen[u] IN
    /\ shown.kind = "merge" /\ shown.source = s /\ shown.target = link[u]
    /\ lines'[link'[u]] \in Outcomes(Union(shown.was.lines, shown.held.lines),
                                     shown.goods.one)

(* What a claim leaves in the customer's cart is what the browser had shown,
   less what the customer chose against: whatever other tabs, the storefront
   and staff did to either cart or to the category in between. *)
ClaimIsAsShown == [][ClaimedAsShown]_cartsVars

OrderedAsReviewed ==
  \A o \in orders' \ orders :
    LET shown == screen[o.by] IN
    /\ shown.kind = "order" /\ shown.cart = o.cart /\ shown.revision = o.revision
    /\ shown.policy = o.policy
    /\ o.of = [p \in DOMAIN shown.goods.of |-> shown.goods.of[p].version]
    /\ ~Conflict(DOMAIN o.of, shown.goods.one)
    /\ \A p \in DOMAIN o.of : shown.goods.of[p].available

(* An order holds the services and the offers its customer reviewed, all of
   them available and none conflicting as reviewed, under the policy reviewed,
   whatever happened to the cart, the catalog and the policy before it was
   submitted. *)
OrderIsAsReviewed == [][OrderedAsReviewed]_cartsVars
=============================================================================
