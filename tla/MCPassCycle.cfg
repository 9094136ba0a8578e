\* Two calls at a time, two attendees, three passes and two addresses.
SPECIFICATION Spec
CONSTANTS
  Calls = {c1, c2}
  Attendees = {a1, a2}
  Passes = {p1, p2, p3}
  Emails = {e1, e2}
  NULL = NULL
SYMMETRY Symmetry
INVARIANTS
  TypeOK
  AdmittedOnce
  MailedToHolder
  HoldsPass
