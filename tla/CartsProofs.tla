----------------------------- MODULE CartsProofs -----------------------------
(***************************************************************************)
(* Theorems about Carts, for any carts, customers, products and handoffs.  *)
(***************************************************************************)
EXTENDS Carts, TLAPS

USE CartsAssumption

(* What is left of a selection is a selection. *)
LEMMA OutcomesAreQuotes ==
  ASSUME NEW q \in Quotes, NEW one \in BOOLEAN, NEW kept \in Outcomes(q, one)
  PROVE  kept \in Quotes
BY DEF Outcomes, Quotes, Selected

LEMMA UnionsAreQuotes ==
  ASSUME NEW q \in Quotes, NEW r \in Quotes
  PROVE  Union(q, r) \in Quotes
BY DEF Union, Quotes

LEMMA EmptyIsQuotes == Empty \in Quotes
BY DEF Empty, Quotes

LEMMA InitialCarts == CartsInit => CartsInv
<1> SUFFICES ASSUME CartsInit PROVE CartsInv
  OBVIOUS
<1>1. offer \in [Products -> Offers]
  BY DEF CartsInit, Offers
<1>2. lines \in [Carts -> Quotes]
  BY EmptyIsQuotes DEF CartsInit, Empty
<1>3. CartsTypeOK
  BY <1>1, <1>2 DEF CartsInit, CartsTypeOK
<1>4. OwnershipInv
  BY DEF CartsInit, OwnershipInv
<1> QED
  BY <1>3, <1>4 DEF CartsInv

-----------------------------------------------------------------------------
(* Types *)

LEMMA CatalogTyped ==
  ASSUME CartsTypeOK, SwitchLimit \/ Publish \/ \E p \in Products : Revise(p)
  PROVE  CartsTypeOK'
<1>1. CASE SwitchLimit
  BY <1>1 DEF CartsTypeOK, SwitchLimit, Counted, cartVars
<1>2. CASE Publish
  BY <1>2 DEF CartsTypeOK, Publish, Counted, cartVars
<1>3. ASSUME NEW p \in Products, Revise(p) PROVE CartsTypeOK'
  <2>1. offer' \in [Products -> Offers]
    <3>1. offer[p] \in Offers
      BY DEF CartsTypeOK
    <3>2. [offer[p] EXCEPT !.version = @ + 1] \in Offers
      BY <3>1 DEF Offers
    <3>3. [offer[p] EXCEPT !.available = ~@] \in Offers
      BY <3>1 DEF Offers
    <3>4. \/ offer' = [offer EXCEPT ![p] = [offer[p] EXCEPT !.version = @ + 1]]
          \/ offer' = [offer EXCEPT ![p] = [offer[p] EXCEPT !.available = ~@]]
      BY <1>3 DEF Revise
    <3> QED
      BY <3>2, <3>3, <3>4 DEF CartsTypeOK
  <2>2. edits' \in Nat
    BY <1>3 DEF CartsTypeOK, Revise, Counted
  <2> QED
    BY <2>1, <2>2, <1>3 DEF CartsTypeOK, Revise, cartVars
<1> QED
  BY <1>1, <1>2, <1>3

LEMMA MutationTyped ==
  ASSUME CartsTypeOK, NEW c \in Carts, NEW q \in Quotes, Mutate(c, q)
  PROVE  CartsTypeOK'
<1>1. lines' \in [Carts -> Quotes] /\ revision' \in [Carts -> Nat] /\ edits' \in Nat
  BY DEF Mutate, CartsTypeOK, Counted
<1> QED
  BY <1>1 DEF Mutate, CartsTypeOK

(* Each command on a cart, creation apart, is a mutation of a live cart. *)
LEMMA EditsMutate ==
  ASSUME CartsTypeOK, NEW c \in Carts,
         Confirm(c) \/ \E p \in Products : Add(c, p) \/ Remove(c, p)
  PROVE  Live(c) /\ \E q \in Quotes : Mutate(c, q)
<1> lines[c] \in Quotes /\ \A p \in Products : offer[p].version \in Nat
  BY DEF CartsTypeOK, Offers
<1>1. CASE Confirm(c)
  <2> DEFINE q == [p \in Products |-> IF lines[c][p] > 0 THEN offer[p].version ELSE 0]
  <2>1. q \in Quotes
    BY DEF Quotes
  <2> QED
    BY <1>1, <2>1 DEF Confirm
<1>2. ASSUME NEW p \in Products, Add(c, p)
      PROVE  Live(c) /\ \E q \in Quotes : Mutate(c, q)
  <2> DEFINE q == [r \in Products |->
       CASE r = p -> IF lines[c][p] > 0 THEN lines[c][p] ELSE offer[p].version
         [] r # p /\ limited /\ {p, r} \subseteq Rivals -> 0
         [] OTHER -> lines[c][r]]
  <2>1. ASSUME NEW r \in Products PROVE q[r] \in Nat
    BY DEF Quotes
  <2>2. q \in Quotes
    BY <2>1 DEF Quotes
  <2>3. Mutate(c, q)
    BY <1>2 DEF Add
  <2> QED
    BY <1>2, <2>2, <2>3 DEF Add, Live
<1>3. ASSUME NEW p \in Products, Remove(c, p)
      PROVE  Live(c) /\ \E q \in Quotes : Mutate(c, q)
  <2>1. [lines[c] EXCEPT ![p] = 0] \in Quotes
    BY DEF Quotes
  <2> QED
    BY <1>3, <2>1 DEF Remove
<1> QED
  BY <1>1, <1>2, <1>3

LEMMA HandoffTyped ==
  ASSUME CartsTypeOK, NEW h \in Handoffs,
         \/ Expire(h)
         \/ \E c \in Carts : Mint(h, c)
         \/ \E u \in Customers : Consume(u, h)
  PROVE  CartsTypeOK'
<1>1. ASSUME handoff' = [handoff EXCEPT ![h].open = FALSE], handoff[h] # None
      PROVE  handoff' \in [Handoffs -> [cart: Carts, open: BOOLEAN] \cup {None}]
  <2>1. [handoff[h] EXCEPT !.open = FALSE] \in [cart: Carts, open: BOOLEAN]
    <3>1. handoff[h] \in [cart: Carts, open: BOOLEAN]
      BY <1>1 DEF CartsTypeOK
    <3> QED
      BY <3>1
  <2>2. handoff' = [handoff EXCEPT ![h] = [handoff[h] EXCEPT !.open = FALSE]]
    BY <1>1
  <2> QED
    BY <2>1, <2>2 DEF CartsTypeOK
<1>2. CASE Expire(h)
  BY <1>1, <1>2 DEF Expire, CartsTypeOK, catalogVars, cartVars
<1>3. CASE \E c \in Carts : Mint(h, c)
  BY <1>3 DEF Mint, CartsTypeOK, catalogVars, cartVars
<1>4. CASE \E u \in Customers : Consume(u, h)
  BY <1>1, <1>4 DEF Consume, Consumed, CartsTypeOK, catalogVars, cartVars
<1> QED
  BY <1>2, <1>3, <1>4

LEMMA ClaimTyped ==
  ASSUME CartsInv, NEW u \in Customers, NEW s \in Carts, Attach(u, s) \/ Merge(u, s)
  PROVE  CartsTypeOK'
<1> limited \in BOOLEAN /\ lines \in [Carts -> Quotes] /\ link[u] \in Carts \cup {None}
  BY DEF CartsInv, CartsTypeOK
<1>1. CASE Attach(u, s)
  <2>1. lines' \in [Carts -> Quotes]
    BY <1>1, OutcomesAreQuotes DEF Attach
  <2>2. revision' \in [Carts -> Nat]
    BY <1>1 DEF Attach, CartsInv, CartsTypeOK
  <2> QED
    BY <1>1, <2>1, <2>2 DEF Attach, CartsInv, CartsTypeOK, catalogVars
<1>2. CASE Merge(u, s)
  <2>1. link[u] \in Carts
    BY <1>2 DEF Merge
  <2>2. Union(lines[s], lines[link[u]]) \in Quotes
    BY <2>1, UnionsAreQuotes
  <2>3. lines' \in [Carts -> Quotes]
    BY <1>2, <2>1, <2>2, OutcomesAreQuotes, EmptyIsQuotes DEF Merge
  <2>4. revision' \in [Carts -> Nat]
    BY <1>2, <2>1 DEF Merge, CartsInv, CartsTypeOK
  <2> QED
    BY <1>2, <2>1, <2>3, <2>4 DEF Merge, CartsInv, CartsTypeOK, catalogVars
<1> QED
  BY <1>1, <1>2

-----------------------------------------------------------------------------
(* Ownership *)

LEMMA MutationOwned ==
  ASSUME CartsInv, NEW c \in Carts, Live(c), NEW q \in Quotes, Mutate(c, q)
  PROVE  OwnershipInv'
<1>1. mergedInto[c] = None
  BY DEF CartsInv, OwnershipInv, Live
<1>2. \A d \in Carts : mergedInto[d] # None => lines'[d] = lines[d]
  BY <1>1 DEF Mutate, CartsInv, CartsTypeOK
<1> QED
  BY <1>2 DEF Mutate, CartsInv, CartsTypeOK, OwnershipInv

LEMMA AttachOwned ==
  ASSUME CartsInv, NEW u \in Customers, NEW s \in Carts, Attach(u, s)
  PROVE  OwnershipInv'
<1>1. /\ owner[s] = None /\ mergedInto[s] = None /\ link[u] = None
      /\ \A v \in Customers : link[v] # s
  BY DEF Attach, Presents, CartsInv, CartsTypeOK, OwnershipInv
<1>2. \A v \in Customers, c \in Carts : link'[v] = c <=> owner'[c] = v
  BY <1>1 DEF Attach, CartsInv, CartsTypeOK, OwnershipInv
<1>3. ASSUME NEW c \in Carts
      PROVE  /\ owner'[c] # None <=> credential'[c] = "owned"
             /\ mergedInto'[c] # None <=> credential'[c] = "retired"
             /\ mergedInto'[c] # None => lines'[c] = Empty /\ owner'[mergedInto'[c]] # None
  BY <1>1 DEF Attach, catalogVars, CartsInv, CartsTypeOK, OwnershipInv
<1>4. \A v \in Customers : grant'[v] # None => handoff'[grant'[v]] # None
  BY DEF Attach, CartsInv, CartsTypeOK, OwnershipInv
<1> QED
  BY <1>2, <1>3, <1>4 DEF OwnershipInv

LEMMA MergeOwned ==
  ASSUME CartsInv, NEW u \in Customers, NEW s \in Carts, Merge(u, s)
  PROVE  OwnershipInv'
<1> DEFINE t == link[u]
<1>1. t \in Carts /\ owner[t] = u /\ mergedInto[t] = None /\ credential[t] = "owned"
  BY DEF Merge, CartsInv, CartsTypeOK, OwnershipInv
<1>2. credential[s] = "guest" /\ owner[s] = None /\ mergedInto[s] = None /\ s # t
  BY <1>1 DEF Merge, Presents, CartsInv, CartsTypeOK, OwnershipInv
<1>3. \A v \in Customers, c \in Carts : link'[v] = c <=> owner'[c] = v
  BY DEF Merge, CartsInv, CartsTypeOK, OwnershipInv
<1>4. PICK kept : lines' = [lines EXCEPT ![s] = Empty, ![t] = kept]
  BY DEF Merge
<1>5. ASSUME NEW c \in Carts
      PROVE  /\ owner'[c] # None <=> credential'[c] = "owned"
             /\ mergedInto'[c] # None <=> credential'[c] = "retired"
             /\ mergedInto'[c] # None => lines'[c] = Empty /\ owner'[mergedInto'[c]] # None
  BY <1>1, <1>2, <1>4 DEF Merge, catalogVars, CartsInv, CartsTypeOK, OwnershipInv
<1>6. \A v \in Customers : grant'[v] # None => handoff'[grant'[v]] # None
  BY DEF Merge, CartsInv, CartsTypeOK, OwnershipInv
<1> QED
  BY <1>3, <1>5, <1>6 DEF OwnershipInv

LEMMA HandoffOwned ==
  ASSUME CartsInv, NEW h \in Handoffs,
         \/ Expire(h)
         \/ \E c \in Carts : Mint(h, c)
         \/ \E u \in Customers : Consume(u, h)
  PROVE  OwnershipInv'
<1>1. \A g \in Handoffs : handoff[g] # None => handoff'[g] # None
  <2>1. \A g \in Handoffs \ {h} : handoff'[g] = handoff[g]
    BY DEF Expire, Mint, Consume, Consumed, CartsInv, CartsTypeOK
  <2>2. handoff'[h] \in [cart: Carts, open: BOOLEAN]
    <3>1. CASE \E c \in Carts : Mint(h, c)
      BY <3>1 DEF Mint, CartsInv, CartsTypeOK
    <3>2. CASE Expire(h) \/ \E u \in Customers : Consume(u, h)
      <4>1. handoff[h] \in [cart: Carts, open: BOOLEAN]
        BY <3>2 DEF Expire, Consume, CartsInv, CartsTypeOK
      <4>2. handoff'[h] = [handoff[h] EXCEPT !.open = FALSE]
        BY <3>2 DEF Expire, Consume, Consumed, CartsInv, CartsTypeOK
      <4> QED
        BY <4>1, <4>2
    <3> QED
      BY <3>1, <3>2
  <2>3. handoff'[h] # None
    BY <2>2
  <2> QED
    BY <2>1, <2>3
<1>2. \A u \in Customers : grant'[u] # None => handoff'[grant'[u]] # None
  BY <1>1 DEF Expire, Mint, Consume, CartsInv, CartsTypeOK, OwnershipInv
<1> QED
  BY <1>2 DEF Expire, Mint, Consume, cartVars, CartsInv, OwnershipInv

(* Every step keeps the carts' types and owners. *)
LEMMA CartsStep == CartsInv /\ [CartsNext]_cartsVars => CartsInv'
<1> SUFFICES ASSUME CartsInv, [CartsNext]_cartsVars PROVE CartsInv'
  OBVIOUS
<1> CartsTypeOK
  BY DEF CartsInv
<1>1. CASE SwitchLimit \/ Publish \/ \E p \in Products : Revise(p)
  <2>1. UNCHANGED <<cartVars, handoff, grant>>
    BY <1>1 DEF SwitchLimit, Publish, Revise
  <2> QED
    BY <1>1, <2>1, CatalogTyped DEF CartsInv, OwnershipInv, cartVars
<1>2. ASSUME NEW c \in Carts, Create(c) PROVE CartsInv'
  BY <1>2 DEF Create, CartsInv, CartsTypeOK, OwnershipInv, catalogVars
<1>3. ASSUME NEW c \in Carts, Confirm(c) \/ \E p \in Products : Add(c, p) \/ Remove(c, p)
      PROVE  CartsInv'
  BY <1>3, EditsMutate, MutationTyped, MutationOwned DEF CartsInv
<1>4. ASSUME NEW h \in Handoffs,
             \/ Expire(h)
             \/ \E c \in Carts : Mint(h, c)
             \/ \E u \in Customers : Consume(u, h)
      PROVE  CartsInv'
  BY <1>4, HandoffTyped, HandoffOwned DEF CartsInv
<1>5. ASSUME NEW u \in Customers, NEW s \in Carts, Attach(u, s) \/ Merge(u, s) PROVE CartsInv'
  BY <1>5, ClaimTyped, AttachOwned, MergeOwned DEF CartsInv
<1>6. ASSUME NEW u \in Customers, Review(u) \/ Submit(u) \/ \E s \in Carts : Preview(u, s)
      PROVE  CartsInv'
  <2>1. UNCHANGED <<catalogVars, cartVars, handoff, grant>>
    BY <1>6 DEF Review, Submit, Preview
  <2> QED
    BY <2>1 DEF CartsInv, CartsTypeOK, OwnershipInv, catalogVars, cartVars
<1>7. CASE UNCHANGED cartsVars
  BY <1>7 DEF cartsVars, CartsInv, CartsTypeOK, OwnershipInv, catalogVars, cartVars
<1> QED
  BY <1>1, <1>2, <1>3, <1>4, <1>5, <1>6, <1>7 DEF CartsNext, Edit, Claim

(* A cart has one authority at every time, whoever claims it. *)
THEOREM CartsInvariant == CartsSpec => []CartsInv
BY InitialCarts, CartsStep, PTL DEF CartsSpec

-----------------------------------------------------------------------------
(* Handoffs *)

LEMMA BrowserStep ==
  CartsInv /\ OneBrowserPerHandoff /\ [CartsNext]_cartsVars => OneBrowserPerHandoff'
<1> SUFFICES ASSUME CartsInv, OneBrowserPerHandoff, [CartsNext]_cartsVars
             PROVE  OneBrowserPerHandoff'
  OBVIOUS
<1>1. ASSUME NEW u \in Customers, NEW h \in Handoffs, Consume(u, h)
      PROVE  OneBrowserPerHandoff'
  <2>1. \A v \in Customers : grant[v] # h
    BY <1>1 DEF Consume, OneBrowserPerHandoff, CartsInv, CartsTypeOK
  <2>2. ~handoff'[h].open /\ \A g \in Handoffs \ {h} : handoff'[g] = handoff[g]
    BY <1>1 DEF Consume, Consumed, CartsInv, CartsTypeOK
  <2>3. grant' = [grant EXCEPT ![u] = h]
    BY <1>1 DEF Consume
  <2>4. ASSUME NEW v \in Customers, grant'[v] # None
        PROVE  /\ handoff'[grant'[v]] # None => ~handoff'[grant'[v]].open
               /\ \A w \in Customers : grant'[w] = grant'[v] => v = w
    <3>1. CASE v = u
      BY <2>1, <2>2, <2>3, <3>1 DEF CartsInv, CartsTypeOK
    <3>2. CASE v # u
      BY <2>1, <2>2, <2>3, <2>4, <3>2 DEF CartsInv, CartsTypeOK, OneBrowserPerHandoff
    <3> QED
      BY <3>1, <3>2
  <2> QED
    BY <2>4 DEF OneBrowserPerHandoff
<1>2. ASSUME NEW h \in Handoffs, Expire(h) \/ \E c \in Carts : Mint(h, c)
      PROVE  OneBrowserPerHandoff'
  <2>1. \A v \in Customers : grant[v] # None /\ grant[v] = h => Expire(h)
    BY <1>2 DEF Mint, CartsInv, OwnershipInv
  <2>2. \A g \in Handoffs \ {h} : handoff'[g] = handoff[g]
    BY <1>2 DEF Expire, Mint, CartsInv, CartsTypeOK
  <2>3. Expire(h) => ~handoff'[h].open
    BY DEF Expire, CartsInv, CartsTypeOK
  <2>4. grant' = grant
    BY <1>2 DEF Expire, Mint
  <2> QED
    BY <2>1, <2>2, <2>3, <2>4 DEF OneBrowserPerHandoff, CartsInv, CartsTypeOK
<1>3. ASSUME NEW u \in Customers, NEW s \in Carts, Attach(u, s) \/ Merge(u, s)
      PROVE  OneBrowserPerHandoff'
  <2>1. grant' = [grant EXCEPT ![u] = None] /\ handoff' = handoff
    BY <1>3 DEF Attach, Merge
  <2> QED
    BY <2>1 DEF OneBrowserPerHandoff, CartsInv, CartsTypeOK
<1>4. CASE UNCHANGED <<handoff, grant>>
  BY <1>4 DEF OneBrowserPerHandoff
<1>5. \/ \E u \in Customers, h \in Handoffs : Consume(u, h)
      \/ \E h \in Handoffs : Expire(h) \/ \E c \in Carts : Mint(h, c)
      \/ \E u \in Customers, s \in Carts : Attach(u, s) \/ Merge(u, s)
      \/ UNCHANGED <<handoff, grant>>
  BY DEF CartsNext, Edit, Claim, SwitchLimit, Publish, Revise, Create, Confirm, Add, Remove,
         Mutate, Preview, Review, Submit, cartsVars
<1> QED
  BY <1>1, <1>2, <1>3, <1>4, <1>5

(* A handoff opens its guest cart in one browser. *)
THEOREM HandoffsOpenOnce == CartsSpec => []OneBrowserPerHandoff
<1>1. CartsInit => OneBrowserPerHandoff
  BY DEF CartsInit, OneBrowserPerHandoff
<1> QED
  BY <1>1, BrowserStep, CartsInvariant, PTL DEF CartsSpec

-----------------------------------------------------------------------------
(* What was shown is what happens *)
LEMMA ClaimStep == CartsInv /\ [CartsNext]_cartsVars => ClaimedAsShown
<1> SUFFICES ASSUME CartsInv, [CartsNext]_cartsVars,
                    NEW u \in Customers, NEW s \in Carts, Claimed(u, s)
             PROVE  /\ screen[u].kind = "merge"
                    /\ screen[u].source = s
                    /\ screen[u].target = link[u]
                    /\ lines'[link'[u]] \in
                         Outcomes(Union(screen[u].was.lines, screen[u].held.lines),
                                  screen[u].goods.one)
  BY DEF ClaimedAsShown
<1>1. PICK v \in Customers, c \in Carts : Attach(v, c) \/ Merge(v, c)
  <2>1. credential' # credential
    BY DEF Claimed
  <2>2. ~\E d \in Carts : Create(d)
    BY DEF Claimed, Create, CartsInv, CartsTypeOK
  <2> QED
    BY <2>1, <2>2 DEF CartsNext, Edit, Claim, SwitchLimit, Publish, Revise, Confirm, Add, Remove,
         Mutate, Mint, Expire, Consume, Preview, Review, Submit, cartsVars, cartVars
<1>2. v = u /\ c = s
  <2>1. grant' = [grant EXCEPT ![v] = None]
    BY <1>1 DEF Attach, Merge
  <2>2. v = u
    BY <2>1 DEF Claimed, CartsInv, CartsTypeOK
  <2>3. \A d \in Carts \ {c} : credential'[d] = credential[d]
    BY <1>1 DEF Attach, Merge, CartsInv, CartsTypeOK
  <2> QED
    BY <2>2, <2>3 DEF Claimed
<1>3. screen[u] = MergePicture(s, link[u])
  BY <1>1, <1>2 DEF Attach, Merge, StillShown
<1>4. ASSUME NEW q \in Quotes
      PROVE  Outcomes(q, limited) = Outcomes(q, Goods(Selected(q)).one)
  BY DEF Outcomes, Goods, Conflict
<1>5. lines[s] \in Quotes /\ LinesOf(link[u]) \in Quotes
  BY EmptyIsQuotes DEF CartsInv, CartsTypeOK, LinesOf
<1>6. lines'[link'[u]] \in Outcomes(Union(lines[s], LinesOf(link[u])), limited)
  <2>1. CASE Attach(u, s)
    <3>1. Union(lines[s], Empty) = lines[s]
      BY <1>5 DEF Union, Empty, Quotes
    <3>2. lines'[s] \in Outcomes(lines[s], limited) /\ link'[u] = s
      BY <2>1 DEF Attach, CartsInv, CartsTypeOK
    <3> QED
      BY <2>1, <3>1, <3>2 DEF Attach, LinesOf
  <2>2. CASE Merge(u, s)
    <3>1. link[u] \in Carts /\ link[u] # None /\ link' = link
      BY <2>2 DEF Merge, CartsInv, CartsTypeOK
    <3>2. lines'[link[u]] \in Outcomes(Union(lines[s], lines[link[u]]), limited)
      BY <2>2, <3>1 DEF Merge, CartsInv, CartsTypeOK
    <3> QED
      BY <3>1, <3>2 DEF LinesOf
  <2> QED
    BY <1>1, <1>2, <2>1, <2>2
<1>7. screen[u].was.lines = lines[s] /\ screen[u].held.lines = LinesOf(link[u])
  BY <1>3 DEF MergePicture, History, LinesOf
<1>8. screen[u].goods.one = Goods(Selected(Union(lines[s], LinesOf(link[u])))).one
  BY <1>3 DEF MergePicture
<1>9. screen[u].kind = "merge" /\ screen[u].source = s
        /\ screen[u].target = link[u]
  BY <1>3 DEF MergePicture
<1> QED
  BY <1>4, <1>5, <1>6, <1>7, <1>8, <1>9, UnionsAreQuotes

(* A claim leaves what its customer was shown. *)
THEOREM ClaimsAreAsShown == CartsSpec => ClaimIsAsShown
BY CartsInvariant, ClaimStep, PTL DEF CartsSpec, ClaimIsAsShown

LEMMA OrderStep == CartsInv /\ [CartsNext]_cartsVars => OrderedAsReviewed
<1> SUFFICES ASSUME CartsInv, [CartsNext]_cartsVars, NEW o \in orders' \ orders
             PROVE  /\ screen[o.by].kind = "order"
                    /\ screen[o.by].cart = o.cart
                    /\ screen[o.by].revision = o.revision
                    /\ screen[o.by].policy = o.policy
                    /\ o.of = [p \in DOMAIN screen[o.by].goods.of |->
                                 screen[o.by].goods.of[p].version]
                    /\ ~Conflict(DOMAIN o.of, screen[o.by].goods.one)
                    /\ \A p \in DOMAIN o.of : screen[o.by].goods.of[p].available
  BY DEF OrderedAsReviewed
<1>1. PICK u \in Customers : Submit(u)
  BY DEF CartsNext, Edit, Claim, SwitchLimit, Publish, Revise, Create, Confirm, Add, Remove, Mutate,
         Mint, Expire, Consume, Preview, Attach, Merge, Review, cartsVars
<1> DEFINE c == link[u]
           chosen == Selected(lines[c])
<1>2. o = [cart |-> c, by |-> u, revision |-> revision[c], policy |-> policy,
           of |-> [p \in chosen |-> offer[p].version]]
  BY <1>1 DEF Submit
<1>3. screen[u] = OrderPicture(c) /\ Valid(c)
  BY <1>1 DEF Submit, StillReviewed
<1>4. /\ screen[u].kind = "order" /\ screen[u].cart = c /\ screen[u].revision = revision[c]
      /\ screen[u].policy = policy /\ screen[u].goods = Goods(chosen)
  BY <1>3 DEF OrderPicture
<1>5. Goods(chosen).of = [p \in chosen |-> offer[p]]
  BY DEF Goods
<1>6. ~Conflict(chosen, Goods(chosen).one)
  BY <1>3 DEF Valid, Goods, Conflict
<1>7. \A p \in chosen : offer[p].available
  BY <1>3 DEF Valid
<1>8. /\ o.by = u /\ o.cart = c /\ o.revision = revision[c] /\ o.policy = policy
      /\ o.of = [p \in chosen |-> offer[p].version]
  BY <1>2
<1> HIDE DEF c, chosen
<1> QED
  BY <1>4, <1>5, <1>6, <1>7, <1>8

(* An order is what its customer reviewed. *)
THEOREM OrdersAreAsReviewed == CartsSpec => OrderIsAsReviewed
BY CartsInvariant, OrderStep, PTL DEF CartsSpec, OrderIsAsReviewed
=============================================================================
