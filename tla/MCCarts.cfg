SPECIFICATION CartsSpec
CONSTANTS
  Carts = {c1, c2}
  Customers = {u1, u2}
  Products = {p1, p2}
  Rivals = {p1, p2}
  Handoffs = {h1, h2}
  None = None
  EditBound = 5
SYMMETRY Symmetries
INVARIANTS
  CartsInv
  OneBrowserPerHandoff
PROPERTIES
  ClaimIsAsShown
  OrderIsAsReviewed
CHECK_DEADLOCK FALSE
