\* Two orders compete for one tier and two addresses; each address may be
\* asked for alone or with the other.
SPECIFICATION Spec
CONSTANTS
  Orders = {o1, o2}
  Tiers = {t1}
  Emails = {e1, e2}
  Quantities = {1, 2, 3}
  NULL = NULL
SYMMETRY Symmetry
INVARIANTS
  TypeOK
  InventoryAccounted
  NoOversell
  OneActiveCheckout
  PassBacked
PROPERTIES
  Settlement
  SaleSpec
