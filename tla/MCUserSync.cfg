\* Three sign-ins at a time, two accounts, three addresses.
SPECIFICATION Spec
CONSTANTS
  Calls = {c1, c2, c3}
  Accounts = {a1, a2}
  Emails = {e1, e2, e3}
  NULL = NULL
SYMMETRY Symmetry
INVARIANTS
  TypeOK
  SignedInReady
  OrganizationsBounded
PROPERTY
  RefusedIsStale
\* Every account of the instance may have been deleted.
CHECK_DEADLOCK FALSE
