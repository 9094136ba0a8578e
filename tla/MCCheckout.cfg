\* Two calls at a time on one order, two faults among them, and an edit
\* of the tier or of the attendees.
SPECIFICATION FairSpec
CONSTANTS
  Workers = {p1, p2}
  Orders = {o1}
  t1 = t1
  e1 = e1
  e2 = e2
  Tiers = {t1}
  Emails = {e1}
  Quantities = {2}
  Requests <- OneBuyer
  NULL = NULL
  MaxFaults = 2
  MaxEdits = 1
INVARIANTS
  CheckoutTypeOK
  RefundOnce
  PaidIsCaptured
  OneInitializer
PROPERTIES
  KeepsStore
  CapturedSettles
  ExpiredReleases
