\* Two buyers whose lists share an address; nothing fails and nobody edits.
SPECIFICATION FairSpec
CONSTANTS
  Workers = {p1}
  Orders = {o1, o2}
  t1 = t1
  e1 = e1
  e2 = e2
  Tiers = {t1}
  Emails = {e1, e2}
  Quantities = {3}
  Requests <- Overlapping
  NULL = NULL
  MaxFaults = 0
  MaxEdits = 0
PROPERTIES
  CapturedIsServed
