\* Two updates that may cross, one checkout across them, three times.
SPECIFICATION TermsSpec
CONSTANTS
  Updates = {u1, u2}
  Buyers = {b1}
  Prices = {p1, p2}
  Currencies = {c1, c2}
  Horizon = 2
  None = None
  Keep = Keep
SYMMETRY Symmetry
INVARIANTS
  CrossedUpdates
  ChargedAsOffered
CHECK_DEADLOCK FALSE
